SPECIFICATION Spec
CONSTANTS
    None = None
    Requests = {r1, r2}
    Users = {u1}
    Guests = {g1, g2}
    Pins = {k1}
    Baskets <- MCBaskets
    Price <- MCPrice
    Discount <- MCDiscount
    Rates <- MCRates
SYMMETRY Symmetry
INVARIANT TypeOK
INVARIANT StoredWhole
INVARIANT FailedLeavesNoOrder
INVARIANT RefusedOnlyForFractions
