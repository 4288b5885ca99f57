----------------------------- MODULE MCHeaderChain -----------------------------
(***************************************************************************)
(* Instances of HeaderChain for TLC.  Ten-bit numbers with a compact form  *)
(* of two base-4 digits; periods of three blocks; the networks of          *)
(* kernel/chainparams.cpp scaled down with the order of their limits and   *)
(* heights kept: on mainnet the fork and the end of the bootstrap phase    *)
(* lie inside one period.                                                  *)
(***************************************************************************)
EXTENDS HeaderChain

MCUnits == {1, 4, 16, 64, 256}

CMainParams ==
    [powLimit |-> 28, powLimitRandomX |-> 127, powLimitArgon2 |-> 127,
     powLimitBootstrap |-> 511, nRandomXForkHeight |-> 4, nRandomXKeyBlockInterval |-> 2,
     nBootstrapEndHeight |-> 4, nArgon2EmergencyHeight |-> -1, nPowTargetSpacing |-> 4,
     nPowTargetTimespan |-> 12, enforce_BIP94 |-> TRUE,
     fPowAllowMinDifficultyBlocks |-> FALSE, fPowNoRetargeting |-> FALSE]

SigNetParams ==
    [CMainParams EXCEPT !.nRandomXForkHeight = 1, !.nBootstrapEndHeight = -1,
                        !.powLimitBootstrap = 0]

CTestNetParams == [SigNetParams EXCEPT !.fPowAllowMinDifficultyBlocks = TRUE]

CRegTestParams ==
    [CTestNetParams EXCEPT !.powLimit = 511, !.powLimitRandomX = 511, !.powLimitArgon2 = 511,
                           !.nRandomXForkHeight = 2, !.nArgon2EmergencyHeight = 5,
                           !.enforce_BIP94 = FALSE, !.fPowNoRetargeting = TRUE]

MCNetworks == {CMainParams, SigNetParams, CTestNetParams, CRegTestParams}
MCBits == {448, 6}
MCTimeSteps == {-6, 2, 24}
MCClock == {0, 40, 300}
===============================================================================
