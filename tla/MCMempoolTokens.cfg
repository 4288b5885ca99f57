SPECIFICATION FairSpec
CONSTANTS
    issue = issue
    child = child
    bump = bump
    send = send
    burn = burn
    cancel = cancel
    A = A
    B = B
    X = X
    T = T
    NoTx = NoTx
    Tx = {issue, child, bump, send, cancel, burn}
    sender <- MCSender
    recipient <- MCRecipient
    ops <- MCOps
    coin <- MCCoin
    parent <- MCParent
    fee <- MCFee
    Addr = {A, B}
    Tickers = {X}
    Tokens = {T}
    supply <- MCSupply
    Packages <- MCPackages
    Int64Max = 3
    MAX_PENDING_OPS_PER_ADDRESS = 3
    MAX_PENDING_ISSUANCES = 1
    MAX_TOTAL_PENDING_OPS = 3
    RATE_LIMIT_WINDOW_SECONDS = 0
    MAX_OPS_PER_ADDRESS_PER_WINDOW = 2
    MaxTime = 1
    MaxBlocks = 2
    MaxReorgs = 1
    MaxQueue = 2
CHECK_DEADLOCK FALSE
INVARIANTS
    TypeOK
    OverlayExact
    NoLeak
PROPERTIES
    TickerFreed
