SPECIFICATION FairSpec
CONSTANTS
    i1 = i1
    i2 = i2
    i3 = i3
    p = p
    q = q
    Import = {i1, i2, i3}
    Product <- MCProduct
    Listed <- MCListed
    BatchSize = 2
    MaxId = 8
CHECK_DEADLOCK FALSE
INVARIANTS
    OptionsHaveTheirValues
    NoOrphanValue
PROPERTIES
    ImplementsOptionSets
    FlushesEnd
