SPECIFICATION Spec
CONSTANTS
    None = None
    SessionIds = {i1, i2}
    Tokens = {t1, t2}
    Users = {u1}
    Requests = {r1, r2}
    MaxSessions = 1
    Handlers = {0}
    Faults = TRUE
    Expiring = {}
    Evictions = FALSE
SYMMETRY Symmetry
INVARIANT TypeOK
INVARIANT TokensApart
PROPERTY DeletedStaysDeleted
