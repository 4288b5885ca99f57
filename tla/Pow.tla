---------------------------------- MODULE Pow ----------------------------------
(***************************************************************************)
(* Proof-of-work rules: algorithm, limit and RandomX key by height         *)
(* (consensus/params.h), the difficulty adjustment, the range checks and   *)
(* the header-sync transition check (pow.cpp), on scaled-down 256-bit      *)
(* numbers.                                                                *)
(*                                                                         *)
(* `params' is a Consensus::Params record.  A limit of 0 is the null       *)
(* uint256.  A compact nBits is identified with the target it decodes to,  *)
(* so GetCompact rounds.  A chain is a sequence of headers, the block of   *)
(* height h at index h + 1.                                                *)
(***************************************************************************)
EXTENDS Integers, Sequences

CONSTANTS Modulus,   \* 2^256: arith_uint256 arithmetic is modulo this number
          Mantissa,  \* 2^23: a compact mantissa is below this number
          Units      \* the powers of 256 a compact number can be scaled by

\* The shape of a floating-point format: the units form a ladder from 1, and a full mantissa
\* of one unit is a whole number of the next.
ASSUME FormatAssumption ==
    /\ Modulus \in Nat \ {0} /\ Mantissa \in Nat \ {0}
    /\ Units \subseteq Nat \ {0} /\ 1 \in Units
    /\ \E u \in Units : Modulus <= Mantissa * u
    /\ \A v \in Units \ {1} : \E p \in Units :
           /\ p < v /\ (Mantissa * p) % v = 0
           /\ \A u \in Units : u < v => u <= p

Word == 0 .. (Modulus - 1)

Params == [powLimit : Word, powLimitRandomX : Word, powLimitArgon2 : Word,
           powLimitBootstrap : Word, nRandomXForkHeight : Int,
           nRandomXKeyBlockInterval : Nat \ {0}, nBootstrapEndHeight : Int,
           nArgon2EmergencyHeight : Int, nPowTargetSpacing : Nat \ {0},
           nPowTargetTimespan : Nat \ {0}, enforce_BIP94 : BOOLEAN,
           fPowAllowMinDifficultyBlocks : BOOLEAN, fPowNoRetargeting : BOOLEAN]

Headers == [nBits : Word, nTime : Int]

Tip(chain) == chain[Len(chain)]
Height(chain) == Len(chain) - 1
At(chain, height) == chain[height + 1]
-------------------------------------------------------------------------------
\* consensus/params.h

DifficultyAdjustmentInterval(params) == params.nPowTargetTimespan \div params.nPowTargetSpacing

IsArgon2EmergencyActive(params, height) ==
    params.nArgon2EmergencyHeight >= 0 /\ height >= params.nArgon2EmergencyHeight

IsRandomXActive(params, height) ==
    height >= params.nRandomXForkHeight /\ ~IsArgon2EmergencyActive(params, height)

GetPowAlgorithm(params, height) ==
    CASE IsArgon2EmergencyActive(params, height) -> "ARGON2ID"
      [] IsRandomXActive(params, height) -> "RANDOMX"
      [] OTHER -> "SHA256D"

RandomXLimit(params) ==
    IF params.powLimitRandomX = 0 THEN params.powLimit ELSE params.powLimitRandomX

GetActivePowLimit(params, height) ==
    CASE GetPowAlgorithm(params, height) = "SHA256D" -> params.powLimit
      [] GetPowAlgorithm(params, height) = "RANDOMX" -> RandomXLimit(params)
      [] GetPowAlgorithm(params, height) = "ARGON2ID" ->
             IF params.powLimitArgon2 # 0 THEN params.powLimitArgon2 ELSE RandomXLimit(params)

IsBootstrap(params, height) ==
    params.nBootstrapEndHeight >= 0 /\ height <= params.nBootstrapEndHeight

\* Mutant: the key is the first block of the current interval.
KeyOfCurrentInterval(params, height) ==
    (height \div params.nRandomXKeyBlockInterval) * params.nRandomXKeyBlockInterval

GetRandomXKeyBlockHeight(params, height) ==
    LET keyHeight == (height \div params.nRandomXKeyBlockInterval)
                         * params.nRandomXKeyBlockInterval - params.nRandomXKeyBlockInterval
    IN  IF keyHeight >= 0 THEN keyHeight ELSE 0

\* The hash of the key block names the chain it ends; <<>> is the null hash.
GetRandomXKeyBlockHash(params, chain, height) ==
    LET keyHeight == GetRandomXKeyBlockHeight(params, height)
    IN  IF keyHeight <= Height(chain) THEN SubSeq(chain, 1, keyHeight + 1) ELSE <<>>
-------------------------------------------------------------------------------
\* arith_uint256.cpp

\* The scale of the compact form of a number: the smallest that leaves a mantissa in range.
IsUnitOf(unit, target) ==
    /\ unit \in Units /\ target \div unit < Mantissa
    /\ \A u \in Units : target \div u < Mantissa => unit <= u

UnitOf(target) == CHOOSE unit \in Units : IsUnitOf(unit, target)

\* SetCompact(GetCompact(target)): the digits below the mantissa are lost.
GetCompact(target) == (target \div UnitOf(target)) * UnitOf(target)

\* A target scaled by ts / tgt, dividing first.
Scale(target, ts, tgt) ==
    LET quotient == target \div tgt
        remainder == target - quotient * tgt
    IN  (((quotient * ts) % Modulus) + (((remainder * ts) % Modulus) \div tgt)) % Modulus

Least(a, b) == IF a <= b THEN a ELSE b
-------------------------------------------------------------------------------
\* pow.cpp: the difficulty a block must have

ClampTimespan(params, timespan) ==
    LET low == params.nPowTargetTimespan \div 4
        high == params.nPowTargetTimespan * 4
    IN  IF timespan < low THEN low ELSE IF timespan > high THEN high ELSE timespan

\* Mutant: the base of an adjustment may belong to another algorithm.
BaseOfAnyAlgorithm(params, chain, nFirstBlockTime) ==
    LET nextHeight == Height(chain) + 1
        base == At(chain, nextHeight - DifficultyAdjustmentInterval(params)).nBits
        ts == ClampTimespan(params, Tip(chain).nTime - nFirstBlockTime)
    IN  GetCompact(Least(Scale(base, ts, params.nPowTargetTimespan),
                         GetActivePowLimit(params, nextHeight)))

CalculateNextWorkRequired(params, chain, nFirstBlockTime) ==
    LET nextHeight == Height(chain) + 1
        limit == GetActivePowLimit(params, nextHeight)
        nHeightFirst == nextHeight - DifficultyAdjustmentInterval(params)
        base == IF params.enforce_BIP94 THEN At(chain, nHeightFirst).nBits ELSE Tip(chain).nBits
        ts == ClampTimespan(params, Tip(chain).nTime - nFirstBlockTime)
    IN  IF params.fPowNoRetargeting THEN Tip(chain).nBits
        ELSE
        IF /\ params.enforce_BIP94
           /\ GetPowAlgorithm(params, nHeightFirst) # GetPowAlgorithm(params, nextHeight)
        THEN GetCompact(limit)
        ELSE GetCompact(Least(Scale(base, ts, params.nPowTargetTimespan), limit))

\* Where the walk over minimum-difficulty blocks stops: at an adjustment, at a block of real
\* difficulty, or before a block of another algorithm.
WalkStops(params, chain, height) ==
    \/ height = 0
    \/ height % DifficultyAdjustmentInterval(params) = 0
    \/ At(chain, height).nBits # GetCompact(GetActivePowLimit(params, Height(chain) + 1))
    \/ GetPowAlgorithm(params, height - 1) # GetPowAlgorithm(params, Height(chain) + 1)

LastRealBits(params, chain) ==
    LET stop == CHOOSE h \in 0 .. Height(chain) :
                    /\ WalkStops(params, chain, h)
                    /\ \A k \in (h + 1) .. Height(chain) : ~WalkStops(params, chain, k)
    IN  At(chain, stop).nBits

\* Mutant: no reset after the bootstrap phase.
NoBootstrapReset(params, nextHeight) ==
    \/ params.fPowNoRetargeting
    \/ nextHeight = params.nRandomXForkHeight
    \/ params.nArgon2EmergencyHeight >= 0 /\ nextHeight = params.nArgon2EmergencyHeight

IsReset(params, nextHeight) ==
    \/ params.fPowNoRetargeting
    \/ params.nBootstrapEndHeight >= 0 /\ nextHeight = params.nBootstrapEndHeight + 1
    \/ nextHeight = params.nRandomXForkHeight
    \/ params.nArgon2EmergencyHeight >= 0 /\ nextHeight = params.nArgon2EmergencyHeight

GetNextWorkRequired(params, chain, nTime) ==
    LET nextHeight == Height(chain) + 1
        interval == DifficultyAdjustmentInterval(params)
        limit == GetCompact(GetActivePowLimit(params, nextHeight))
    IN  IF IsReset(params, nextHeight) THEN limit
        ELSE IF nextHeight % interval = 0
        THEN CalculateNextWorkRequired(params, chain, At(chain, nextHeight - interval).nTime)
        ELSE IF ~params.fPowAllowMinDifficultyBlocks THEN Tip(chain).nBits
        ELSE IF nTime > Tip(chain).nTime + 2 * params.nPowTargetSpacing THEN limit
        ELSE LastRealBits(params, chain)

\* Rounded bounds of an adjustment of old_nbits, as the header-sync check computes them.
AdjustmentBound(params, old_nbits, timespan, limit) ==
    GetCompact(Least(Scale(old_nbits, timespan, params.nPowTargetTimespan), limit))

\* Mutant: an adjustment may change the target by a factor of two.
TightTransition(params, height, old_nbits, new_nbits) ==
    LET limit == GetActivePowLimit(params, height)
        T == params.nPowTargetTimespan
    IN  \/ params.fPowAllowMinDifficultyBlocks
        \/ height = params.nRandomXForkHeight
        \/ /\ height % DifficultyAdjustmentInterval(params) = 0
           /\ new_nbits <= AdjustmentBound(params, old_nbits, T * 2, limit)
           /\ new_nbits >= AdjustmentBound(params, old_nbits, T \div 2, limit)
        \/ old_nbits = new_nbits

PermittedDifficultyTransition(params, height, old_nbits, new_nbits) ==
    LET limit == GetActivePowLimit(params, height)
        T == params.nPowTargetTimespan
    IN  \/ params.fPowAllowMinDifficultyBlocks
        \/ height = params.nRandomXForkHeight
        \/ params.nArgon2EmergencyHeight >= 0 /\ height = params.nArgon2EmergencyHeight
        \/ /\ height % DifficultyAdjustmentInterval(params) = 0
           /\ \/ old_nbits = limit /\ new_nbits = limit
              \/ /\ new_nbits <= AdjustmentBound(params, old_nbits, T * 4, limit)
                 /\ new_nbits >= AdjustmentBound(params, old_nbits, T \div 4, limit)
        \/ /\ height % DifficultyAdjustmentInterval(params) # 0
           /\ \/ old_nbits = new_nbits
              \/ ~IsRandomXActive(params, height)
              \/ IsBootstrap(params, height)
-------------------------------------------------------------------------------
\* pow.cpp, validation.cpp: is a proof of work good enough?  A hash is only ever compared
\* with the header's own target; `met' says whether it is low enough.

DeriveTarget(nBits, limit) == nBits # 0 /\ nBits <= limit

CheckProofOfWork(params, nBits, met) ==
    /\ \/ DeriveTarget(nBits, params.powLimit)
       \/ params.powLimitBootstrap # 0 /\ DeriveTarget(nBits, params.powLimitBootstrap)
    /\ met

LimitAt(params, height) ==
    IF IsBootstrap(params, height) THEN params.powLimitBootstrap
                                   ELSE GetActivePowLimit(params, height)

CheckProofOfWorkAtHeight(params, chain, height, nBits, met) ==
    CASE GetPowAlgorithm(params, height) = "SHA256D" -> CheckProofOfWork(params, nBits, met)
      [] GetPowAlgorithm(params, height) = "ARGON2ID" ->
             DeriveTarget(nBits, LimitAt(params, height)) /\ met
      [] GetPowAlgorithm(params, height) = "RANDOMX" ->
             /\ GetRandomXKeyBlockHash(params, chain, height) # <<>>
             /\ DeriveTarget(nBits, LimitAt(params, height)) /\ met

\* Loading the block index: memory-hard hashes are not computed again.
CheckProofOfWorkForBlockIndex(params, height, nBits, met) ==
    IF GetPowAlgorithm(params, height) # "SHA256D" \/ IsBootstrap(params, height)
    THEN /\ DeriveTarget(nBits, LimitAt(params, height))
         /\ GetPowAlgorithm(params, height) = "SHA256D" => met
    ELSE CheckProofOfWork(params, nBits, met)

\* The check of a headers message, which does not know heights; `met' is the SHA256d hash.
HasValidProofOfWork(params, nBits, met) ==
    \/ CheckProofOfWork(params, nBits, met)
    \/ DeriveTarget(nBits, params.powLimitRandomX)
    \/ params.powLimitBootstrap # 0 /\ DeriveTarget(nBits, params.powLimitBootstrap)
===============================================================================
