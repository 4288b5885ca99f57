SPECIFICATION FairSpec
CONSTANTS
    Modulus = 1024
    Mantissa = 16
    Units <- MCUnits
    m_consensus_params <- SigNetParams
    PeerChains <- MCPeerChains
    PeerMinimumChainWork = 60
    MinimumChainWork = 125
    max_headers_result = 2
    commitment_period = 2
    redownload_buffer_size = 2
    m_max_commitments = 4
    Salts <- MCSalts
    MaxFaults = 2
INVARIANTS MemoryBounded BufferConnects CommitmentsAligned
PROPERTIES StoredIsVouched ChainStored
CHECK_DEADLOCK FALSE
