----------------------------- MODULE MCHeadersSync -----------------------------
(***************************************************************************)
(* An instance of HeadersSync for TLC on a scaled-down signet: periods of  *)
(* three blocks, messages of two headers, a commitment every second header *)
(* and a buffer of two.                                                    *)
(***************************************************************************)
EXTENDS HeadersSync

MCUnits == {1, 4, 16, 64, 256}

SigNetParams ==
    [powLimit |-> 28, powLimitRandomX |-> 127, powLimitArgon2 |-> 127,
     powLimitBootstrap |-> 0, nRandomXForkHeight |-> 1, nRandomXKeyBlockInterval |-> 2,
     nBootstrapEndHeight |-> -1, nArgon2EmergencyHeight |-> -1, nPowTargetSpacing |-> 4,
     nPowTargetTimespan |-> 12, enforce_BIP94 |-> TRUE,
     fPowAllowMinDifficultyBlocks |-> FALSE, fPowNoRetargeting |-> FALSE]

\* The chain with the given times whose every header has the difficulty it must have.
Mined(times) ==
    LET chain[n \in 1 .. Len(times)] ==
            IF n = 1 THEN <<[nBits |-> 28, nTime |-> times[1]]>>
            ELSE Append(chain[n - 1],
                        [nBits |-> GetNextWorkRequired(SigNetParams, chain[n - 1], times[n]),
                         nTime |-> times[n]])
    IN  chain[Len(times)]

MainChain == Mined(<<0, 4, 8, 12, 14, 16, 18, 20>>)
Rival == Mined(<<0, 4, 8, 13, 14, 17, 18, 20, 22>>)
Slow == Mined(<<0, 4, 9, 13, 20, 27, 33, 40, 47, 53, 60>>)
Short == SubSeq(Slow, 1, 7)
TooShort == Mined(<<0, 5, 11>>)
Jump == SubSeq(MainChain, 1, 4) \o
            <<[nBits |-> 6, nTime |-> 16], [nBits |-> 6, nTime |-> 17]>>
Wrong == SubSeq(MainChain, 1, 3) \o [i \in 1 .. 5 |-> [nBits |-> 64, nTime |-> 10 + 2 * i]]
TooEasy == SubSeq(Slow, 1, 4) \o <<[nBits |-> 448, nTime |-> 22]>>

MCPeerChains == {MainChain, Rival, Slow, Short, TooShort, Jump, Wrong, TooEasy}

MCSalts == {{}, {block \in Blocks : Tip(block).nTime % 2 = 1}}
===============================================================================
