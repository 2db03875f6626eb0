SPECIFICATION ImportSpec
CONSTANTS
    Sku <- MCSku
    Existing <- MCExisting
    LinkColumns <- MCLinkColumns
    Attribute <- MCAttribute
    KnownAttribute <- MCKnownAttribute
    Files <- MCFiles
    Cells <- MCCells
    Calls <- MCCalls
    Blank = Blank
    Untitled = Untitled
    Bad = Bad
    Null = Null
    BatchSize = 2
    MaxImports = 3
    MaxCalls = 1
PROPERTY NoZeroForUnparseable
CHECK_DEADLOCK FALSE
