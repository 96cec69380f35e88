SPECIFICATION Spec
CONSTANTS
    None = None
    SessionIds = {i1, i2, i3}
    Tokens = {t1, t2, t3}
    Users = {u1, u2}
    Requests = {r1}
    MaxSessions = 1
    Handlers = {0, 2}
    Faults = FALSE
    Expiring = {t1, t2, t3}
    Evictions = FALSE
SYMMETRY Symmetry
INVARIANT CoherentAtRest
PROPERTY ServedIsStored
