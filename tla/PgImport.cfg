SPECIFICATION FairSpec
CONSTANTS
    i1 = i1
    i2 = i2
    a = a
    b = b
    t1 = t1
    t2 = t2
    v1 = v1
    v2 = v2
    NoSku = NoSku
    NoValue = NoValue
    Import <- MCImport
    Sku <- MCSku
    Table <- MCTable
    Value <- MCValue
    Csv <- MixedFiles
    Refs <- NoRefs
    BatchSize <- MCBatchSize
    PoolSize = 1
    Copied <- CopyT1
CHECK_DEADLOCK FALSE
INVARIANTS
    IdsNameTheirSku
PROPERTIES
    ImplementsTableImport
    EveryImportEnds
