SPECIFICATION FairSpec
CONSTANTS
    i1 = i1
    i2 = i2
    Import <- MCImport
    Assignments <- MCAssignments
    Existing <- MCExisting
    MaxId = 10
CHECK_DEADLOCK FALSE
INVARIANTS
    PathsExtendTheParents
    ChildrenAreCounted
    LinksNameTheirPath
    SerialImportsShareCategories
PROPERTY
    FlushesEnd
