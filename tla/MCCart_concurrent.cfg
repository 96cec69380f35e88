SPECIFICATION Spec
CONSTANTS
    p1 = p1
    p2 = p2
    NoEntry = NoEntry
    Owners = {o1}
    Products <- MCTwoProducts
    Pictured <- MCOneProduct
    Requests = {r1, r2}
    MaxQuantity = 1
    Ops <- AllOps
    Replacements <- MCReplacements
    Faults = TRUE
SYMMETRY Symmetry
INVARIANT TypeOK
INVARIANT ListStaleOnlyIfMissed
INVARIANT TotalStaleOnlyIfMissed
PROPERTY ImplementsContents
