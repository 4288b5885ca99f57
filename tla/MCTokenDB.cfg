SPECIFICATION Spec
CONSTANTS
    alice = alice
    bob = bob
    gold = gold
    coal = coal
    pay = pay
    drain = drain
    self = self
    burn = burn
    k1 = k1
    k2 = k2
    EmptyScript = EmptyScript
    NoBlock = NoBlock
    NoTxid = NoTxid
    NoTicker = NoTicker
    Scripts <- MCScripts
    Txids <- MCTxids
    Tickers <- MCTickers
    Txs <- MCTxs
    MAX_TOKENS_PER_BLOCK = 3
    MAX_OPS_PER_TX = 2
    MIN_TOKEN_ISSUANCE_FEE = 1
    INT64_MAX = 3
    MaxBlockTxs = 2
    MaxHeight = 3
INVARIANTS
    SupplyConserved
    UndoKeysContiguous
    HistoryMatchesChain
    IInv
PROPERTY
    DisconnectRestores
    ImplementsLedger
