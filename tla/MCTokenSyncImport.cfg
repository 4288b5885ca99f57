SPECIFICATION Spec
CONSTANTS
    g = g
    a1 = a1
    a2 = a2
    a3 = a3
    b2 = b2
    b3 = b3
    Block = {g, a1, a2, a3, b2, b3}
    Genesis = g
    Parent <- MCParent
    TokenBlock = {a1, a2, b3}
    None = None
    ImportFirst = TRUE
    MaxCrashes = 1
    MaxFailures = 0
    MaxInvalidations = 0
    MaxVerifications = 0
    MaxReindexes = 0
INVARIANT
    AppliedOnce
