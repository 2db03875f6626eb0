SPECIFICATION FairSpec
CONSTANTS
    i1 = i1
    i2 = i2
    a = a
    b = b
    c = c
    t1 = t1
    t2 = t2
    v1 = v1
    v2 = v2
    NoSku = NoSku
    NoValue = NoValue
    Import <- MCImport
    Sku <- MCSku
    Table <- MCTable
    Value <- MCValue
    Csv <- MCCsv
    Refs <- MCRefs
    BatchSize <- MCBatchSize
    PoolSize = 1
CHECK_DEADLOCK FALSE
INVARIANTS
    IdsNameTheirSku
    CreatedAddsUp
    AgreeingImportsConverge
PROPERTIES
    ImplementsTableImport
    EveryImportEnds
    TransactionsEnd
