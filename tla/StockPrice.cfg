SPECIFICATION ImportSpec
CONSTANTS
    Sku <- MCSku
    Existing <- MCExisting
    LinkColumns <- MCLinkColumns
    Attribute <- MCAttribute
    KnownAttribute <- MCKnownAttribute
    Files <- MCFiles
    Cells <- MCCells
    Calls <- MCCalls
    Blank = Blank
    Untitled = Untitled
    Bad = Bad
    Null = Null
    BatchSize = 2
    MaxImports = 3
    MaxCalls = 1
INVARIANTS NoFalseUnknown OptionsOfLastFile LastParentWins ImagesAreLinked
    StockRowOfOneLine
PROPERTIES ReimportChangesNothing NoHalfAppliedStock
CHECK_DEADLOCK FALSE
