SPECIFICATION Spec
CONSTANTS
    Request = {r1, r2}
    Tables <- OneTable
    IdLists <- MCIdLists
    Limits <- MCLimits
    CacheEnabled = TRUE
    BatchSize = 1
    MaxId = 2
    MaxWrite = 3
SYMMETRY Symmetric
CHECK_DEADLOCK FALSE
INVARIANTS
    AnswersAreCurrent
    AnswersAreComplete
    CacheNamesItsProduct
