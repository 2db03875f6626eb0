SPECIFICATION Spec
CONSTANTS
    Request = {r1, r2}
    Tables <- OneTable
    IdLists <- Repeated
    Limits <- NoLimit
    CacheEnabled = FALSE
    BatchSize = 2
    MaxId = 2
    MaxWrite = 3
SYMMETRY Symmetric
CHECK_DEADLOCK FALSE
INVARIANT
    OffBypassesTheCache
