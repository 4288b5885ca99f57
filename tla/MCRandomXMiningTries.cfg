CONSTANTS
    c1 = c1
    c2 = c1
    Calls <- MCCalls
    nGenerate <- MCnGenerate
    nMaxTries <- MCnMaxTries
    numThreads = 2
    MaxNonce = 3
    EPOCH_CHECK_INTERVAL = 1
    nRandomXKeyBlockInterval = 2
    datasetItemCount = 3
    InitialTip = 4
    MaxTip = 5
    Context = Context
    NoCall = NoCall
SPECIFICATION AmpleSpec
PROPERTIES TriesEnd
CHECK_DEADLOCK FALSE
