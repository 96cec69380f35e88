SPECIFICATION Spec
CONSTANTS
    None = None
    Orders = {o1, o2}
    Rows = {w1, w2}
    Checkouts = {c1, c2, c3}
    Requests = {r1, r2}
    Dues <- MCDues
SYMMETRY Symmetry
INVARIANT TypeOK
INVARIANT PaidWasCollected
PROPERTY PaidUndoneOnlyByAnotherPrompt
