SPECIFICATION Spec
CONSTANTS
    Tokens = {t1, t2}
    Readers = {r1, r2}
    None = None
    MAX_CACHE_SIZE = 1
    MaxBlocks = 2
    MaxOps = 2
SYMMETRY Symmetry
INVARIANTS
    TypeOK
    CacheCoherent
    InfoExact
    CountExact
