SPECIFICATION Spec
CONSTANTS
    r1 = r1
    r2 = r2
    p1 = p1
    x = x
    y = y
    photo = photo
    None = None
    Requests <- MCRequests
    Stored0 <- MCStored0
    FirstRows <- MCFirstRows
    FirstPairs <- MCFirstPairs
    Products <- MCProducts
    Discounts <- MCDiscounts
    Titles <- MCTitles
    Files <- MCFiles
    Forms <- MCForms
    LastSecond = 1
    MaxConcurrency = 1
CHECK_DEADLOCK FALSE
INVARIANT
    EditsAreMade
