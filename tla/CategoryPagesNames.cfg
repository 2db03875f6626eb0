SPECIFICATION Spec
CONSTANTS
    a = a
    NoName = NoName
    NoMenu = NoMenu
    Request = {r1, r2}
    Name <- MCName
    Existing <- Shop
    IdLists <- MCIdLists
    UidFilters <- MCUidFilters
    PageIds <- MCPageIds
    CategoryTreeTtl = 1
    MaxId = 5
    MaxWrite = 1
    MaxTime = 1
SYMMETRY Symmetric
CHECK_DEADLOCK FALSE
INVARIANT
    CrumbsAreNames
