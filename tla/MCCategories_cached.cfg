SPECIFICATION Spec
CONSTANTS
    r1 = r1
    r2 = r2
    first = first
    name = name
    p1 = p1
    p2 = p2
    None = None
    Requests <- MCRequests
    Images <- MCImages
    Categories <- MCCategories
    Names <- MCNames
    Products <- MCProducts
    Active <- MCActive
    Limits <- MCLimits
    FirstTables <- MCFirstTables
    maxRetries = 1
SYMMETRY Symmetry
CHECK_DEADLOCK FALSE
INVARIANTS
    CachedIsCurrent
    InsertedOnce
    ImagesThere
PROPERTIES
    PathsFollowParents
    ViewsAgree
