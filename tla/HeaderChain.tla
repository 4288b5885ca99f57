------------------------------ MODULE HeaderChain ------------------------------
(***************************************************************************)
(* A chain of block headers growing under ContextualCheckBlockHeader       *)
(* (validation.cpp), the header a miner would build on it (node/miner.cpp) *)
(* and what a restart checks of it (node/blockstorage.cpp,                 *)
(* node/chainstate.cpp).  The network is chosen at the start.              *)
(***************************************************************************)
EXTENDS Pow, FiniteSets

CONSTANTS Networks,               \* the consensus parameters the node can be started with
          GenesisBits,            \* nBits of the genesis block
          nMedianTimeSpan, MAX_TIMEWARP, MAX_FUTURE_BLOCK_TIME,
          BootstrapFutureTime,    \* 365 * 24 * 60 * 60
          BootstrapTransition,    \* 2016
          OfferedBits, TimeSteps, \* headers that are offered: nBits, and time after the tip's
          Clock,                  \* the wall clock readings of a run
          MaxHeight

\* What chainparams.cpp guarantees of every network.  Where there is a bootstrap phase, its
\* limit is the largest, the difficulty period in which it ends began before the RandomX fork,
\* and the transition after it is no longer than a period.  Wherever difficulty adjusts, four
\* times the RandomX limit fits into an arith_uint256, and so does the product of two timespans.
ASSUME NetworksAssumption ==
    /\ Networks \subseteq Params /\ GenesisBits \in Word
    /\ MAX_TIMEWARP \in Nat /\ MAX_FUTURE_BLOCK_TIME \in Nat /\ BootstrapFutureTime \in Nat
    /\ BootstrapTransition \in Nat /\ MaxHeight \in Nat /\ nMedianTimeSpan \in Nat
    /\ OfferedBits \subseteq Word /\ TimeSteps \subseteq Int /\ Clock \subseteq Nat
    /\ \A bits \in OfferedBits \cup {GenesisBits} : GetCompact(bits) = bits
    /\ \A net \in Networks :
           /\ DifficultyAdjustmentInterval(net) >= 2
           /\ net.fPowNoRetargeting => net.fPowAllowMinDifficultyBlocks
           /\ net.nBootstrapEndHeight >= 0 =>
                  LET interval == DifficultyAdjustmentInterval(net)
                  IN  /\ net.powLimit <= net.powLimitBootstrap
                      /\ BootstrapTransition <= interval
                      /\ (net.nBootstrapEndHeight \div interval) * interval
                             < net.nRandomXForkHeight
           /\ ~net.fPowNoRetargeting =>
                  /\ RandomXLimit(net) * 4 < Modulus
                  /\ net.nPowTargetTimespan * (net.nPowTargetTimespan * 4) < Modulus

VARIABLES params,   \* Consensus::Params
          chain,    \* headers from genesis to the tip
          now       \* NodeClock::now()

vars == <<params, chain, now>>

Greatest(a, b) == IF a <= b THEN b ELSE a

\* The middle of the last nMedianTimeSpan timestamps, in sorted order.
GetMedianTimePast(c) ==
    LET last == Greatest(1, Len(c) - nMedianTimeSpan + 1) .. Len(c)
        upTo(t) == {i \in last : c[i].nTime <= t}
        above(t) == Cardinality(upTo(t)) > Cardinality(last) \div 2
    IN  CHOOSE t \in {c[i].nTime : i \in last} :
            above(t) /\ \A i \in last : above(c[i].nTime) => t <= c[i].nTime

MaxFutureTime(height) ==
    IF params.nBootstrapEndHeight >= 0 /\ height <= params.nBootstrapEndHeight + BootstrapTransition
    THEN BootstrapFutureTime ELSE MAX_FUTURE_BLOCK_TIME

\* The nBits check is waived before the RandomX fork, under Argon2id and during the bootstrap.
BitsEnforced(height) == IsRandomXActive(params, height) /\ ~IsBootstrap(params, height)

\* Mutant: the first block of a period may go back in time as far as the median allows.
NoTimewarpRule(height, nTime) == TRUE

TimewarpRule(height, nTime) ==
    params.enforce_BIP94 /\ height % DifficultyAdjustmentInterval(params) = 0
        => nTime >= Tip(chain).nTime - MAX_TIMEWARP

ContextualCheckBlockHeader(header, met) ==
    LET height == Height(chain) + 1
    IN  /\ BitsEnforced(height) => header.nBits = GetNextWorkRequired(params, chain, header.nTime)
        /\ CheckProofOfWorkAtHeight(params, chain, height, header.nBits, met)
        /\ header.nTime > GetMedianTimePast(chain)
        /\ TimewarpRule(height, header.nTime)
        /\ header.nTime <= now + MaxFutureTime(height)

\* The header of a block template (CreateNewBlock, UpdateTime, GetMinimumTime).
Template ==
    LET height == Height(chain) + 1
        afterMedian == GetMedianTimePast(chain) + 1
        minTime == IF height % DifficultyAdjustmentInterval(params) = 0
                   THEN Greatest(afterMedian, Tip(chain).nTime - MAX_TIMEWARP) ELSE afterMedian
        nTime == Greatest(minTime, now)
    IN  [nBits |-> GetNextWorkRequired(params, chain, nTime), nTime |-> nTime]

\* Mutant: the wait for the clock is only skipped during the bootstrap phase itself.
SkipInBootstrapOnly == IsBootstrap(params, Height(chain))

\* VerifyLoadedChainstate does not mind a tip from the future in or near the bootstrap phase.
SkipFutureTip ==
    /\ params.nBootstrapEndHeight >= 0
    /\ Height(chain) <= params.nBootstrapEndHeight + DifficultyAdjustmentInterval(params)

\* A restart: LoadBlockIndexGuts checks every header, VerifyLoadedChainstate the tip.
LoadSucceeds ==
    /\ \A height \in 1 .. Height(chain) :
           CheckProofOfWorkForBlockIndex(params, height, At(chain, height).nBits, TRUE)
    /\ Tip(chain).nTime > now + MAX_FUTURE_BLOCK_TIME => SkipFutureTip
-------------------------------------------------------------------------------
Init ==
    /\ params \in Networks
    /\ now \in Clock
    /\ chain = <<[nBits |-> GenesisBits, nTime |-> 0]>>

\* ChainstateManager::AcceptBlockHeader of a header on top of the tip; a refused header
\* changes nothing.
AcceptBlockHeader ==
    \E step \in TimeSteps, met \in BOOLEAN :
        LET nTime == Tip(chain).nTime + step
        IN  \E nBits \in OfferedBits \cup {GetNextWorkRequired(params, chain, nTime)} :
                /\ Height(chain) < MaxHeight
                /\ ContextualCheckBlockHeader([nBits |-> nBits, nTime |-> nTime], met)
                /\ chain' = Append(chain, [nBits |-> nBits, nTime |-> nTime])
                /\ UNCHANGED <<params, now>>

Tick ==
    /\ now' \in {t \in Clock : t > now}
    /\ UNCHANGED <<params, chain>>

Next == AcceptBlockHeader \/ Tick

Spec == Init /\ [][Next]_vars
-------------------------------------------------------------------------------
\* Stored headers are well formed: in particular their nBits are a target's canonical compact
\* form, since nBits are compared as integers.
TypeOK ==
    /\ params \in Networks
    /\ chain \in Seq(Headers) /\ chain # <<>>
    /\ \A i \in 1 .. Len(chain) : GetCompact(chain[i].nBits) = chain[i].nBits
    /\ now \in Clock

\* A header on top of the chain that validation accepts where it enforces nBits also passes
\* the header-sync check PermittedDifficultyTransition, beyond the first block after the
\* bootstrap phase: the two implementations of the adjustment agree.
StrictPermitted ==
    \A height \in 1 .. Height(chain) :
        BitsEnforced(height) /\ ~(IsBootstrap(params, height - 1)) =>
            PermittedDifficultyTransition(params, height, At(chain, height - 1).nBits,
                                          At(chain, height).nBits)

\* The same for every block, as pow.h says: "Return false if the proof-of-work requirement
\* specified by new_nbits at a given height is not possible".
AcceptedPermitted ==
    \A height \in 1 .. Height(chain) :
        PermittedDifficultyTransition(params, height, At(chain, height - 1).nBits,
                                      At(chain, height).nBits)

\* A node that restarts loads every chain it accepted: the weaker check of the block index
\* refuses no accepted header, and the tip is not found to come from the future.
RestartAccepts == LoadSucceeds

\* The chain can always be extended: once the clock allows a timestamp after the median, the
\* node's own template passes validation, and its peers' check of a headers message.
TemplateAccepted ==
    Template.nTime <= now + MaxFutureTime(Height(chain) + 1) =>
        /\ ContextualCheckBlockHeader(Template, TRUE)
        /\ \A sha \in BOOLEAN : HasValidProofOfWork(params, Template.nBits, sha)

\* The hardest target RandomX can have reached: its limit, made four times harder at each
\* adjustment whose period lies wholly after the fork.
HardestRandomX(height) ==
    LET interval == DifficultyAdjustmentInterval(params)
        adjustments == {h \in 0 .. height :
                            h % interval = 0 /\ h - interval >= params.nRandomXForkHeight}
        hardest[n \in Nat] ==
            IF n = 0 THEN GetCompact(RandomXLimit(params))
            ELSE GetCompact(Scale(hardest[n - 1], params.nPowTargetTimespan \div 4,
                                  params.nPowTargetTimespan))
    IN  hardest[Cardinality(adjustments)]

\* RandomX inherits no difficulty from SHA256d: neither an adjustment whose period began
\* before the fork nor the walk over minimum-difficulty blocks takes a target from before it.
NoInheritedDifficulty ==
    \A height \in 1 .. Height(chain) :
        BitsEnforced(height) => At(chain, height).nBits >= HardestRandomX(height)

\* Under BIP94 the adjustments together measure no more time than has passed on the chain,
\* but for MAX_TIMEWARP at each border: overlapping periods cannot lower the difficulty.
MeasuredTimeBounded ==
    LET interval == DifficultyAdjustmentInterval(params)
        measured[n \in Nat] ==
            IF n = 0 THEN 0
            ELSE measured[n - 1] + At(chain, n * interval - 1).nTime
                                 - At(chain, (n - 1) * interval).nTime
    IN  params.enforce_BIP94 =>
            \A n \in 1 .. (Len(chain) \div interval) :
                measured[n] <= At(chain, n * interval - 1).nTime - At(chain, 0).nTime
                                   + (n - 1) * MAX_TIMEWARP

\* The key of every RandomX block is the hash of an ancestor that was buried for at least one
\* key interval when the block was mined (or of genesis): it is known and cannot be chosen by
\* the miner of the block or of any block of its interval.
KeyBuried ==
    LET height == Height(chain) + 1
        interval == params.nRandomXKeyBlockInterval
        start == (height \div interval) * interval
        key == GetRandomXKeyBlockHash(params, chain, height)
    IN  IsRandomXActive(params, height) =>
            /\ key # <<>>
            /\ \A other \in start .. height :
                   GetRandomXKeyBlockHash(params, chain, other) = key
            /\ Height(key) = 0 \/ Height(key) + interval <= start
-------------------------------------------------------------------------------
\* The inductive invariant behind StrictPermitted and RestartAccepts.

Canonical == {t \in Word : GetCompact(t) = t}

CanonicalHeaders == [nBits : Canonical, nTime : Int]

Carried(height) ==
    /\ BitsEnforced(height) /\ ~IsReset(params, height)
    /\ height % DifficultyAdjustmentInterval(params) # 0

\* Between adjustments and resets nBits do not change; a reset sets them to the limit.
Segments ==
    /\ \A first, last \in 0 .. Height(chain) :
           first <= last /\ (\A h \in (first + 1) .. last : Carried(h))
               => At(chain, first).nBits = At(chain, last).nBits
    /\ \A height \in 1 .. Height(chain) :
           BitsEnforced(height) /\ IsReset(params, height) =>
               At(chain, height).nBits = GetCompact(RandomXLimit(params))

\* What StrictPermitted and RestartAccepts need of the past: where nBits are enforced they
\* change only at adjustments and resets and stay within the limit, the block index accepts
\* every header, and the tip is no further in the future than its height allows.
IInv ==
    /\ params \in Networks /\ now \in Clock
    /\ chain \in Seq(CanonicalHeaders) /\ chain # <<>>
    /\ ~params.fPowAllowMinDifficultyBlocks => Segments
    /\ \A height \in 1 .. Height(chain) :
           /\ BitsEnforced(height) => At(chain, height).nBits <= RandomXLimit(params)
           /\ CheckProofOfWorkForBlockIndex(params, height, At(chain, height).nBits, TRUE)
    /\ Tip(chain).nTime <= now + MaxFutureTime(Height(chain))
    /\ StrictPermitted
===============================================================================
