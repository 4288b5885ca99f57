SPECIFICATION Spec
CONSTANTS
    Modulus = 1024
    Mantissa = 8
    Units <- MCUnits
    Networks <- MCNetworks
    GenesisBits = 28
    nMedianTimeSpan = 3
    MAX_TIMEWARP = 4
    MAX_FUTURE_BLOCK_TIME = 8
    BootstrapFutureTime = 100
    BootstrapTransition = 2
    OfferedBits <- MCBits
    TimeSteps <- MCTimeSteps
    Clock <- MCClock
    MaxHeight = 9
INVARIANT AcceptedPermitted
CHECK_DEADLOCK FALSE
