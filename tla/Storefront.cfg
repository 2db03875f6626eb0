SPECIFICATION Spec
CONSTANTS
    r1 = r1
    r2 = r2
    Request <- MCRequest
    MaxId = 3
    Contents <- MCContents
    FirstDb <- MCFirstDb
    ViewQuery <- MCViewQuery
    NoSku = ""
    NoText = ""
    Unparsable = 0
    MaxWrite = 1
    Src <- MCSrc
    NoSrc <- MCNoSrc
    ImageQuery <- MCImageQuery
    MaxVersion = 2
    FirstSource <- MCFirstSource
    Undecodable = {}
    Blocks <- MCBlocks
SYMMETRY Symmetry
CHECK_DEADLOCK FALSE
INVARIANTS
    QuotesAreTheProducts
    LookupFinds
    GridKeepsItsPage
    RealtimeIsRecent
    OwnImageIsWhole
    SettledFileIsWhole
    CachedImageIsWhole
