SPECIFICATION TotalsSpec
CONSTANTS
    Free = Free
    Products = {p1, p2, p3}
    Statements = {s1, s2}
    MaxQuantity = 1
SYMMETRY Symmetry
INVARIANT TotalsTypeOK
PROPERTY OwnRowsCounted
PROPERTY ExactAfterTwoRows
