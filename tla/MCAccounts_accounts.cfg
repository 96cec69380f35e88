SPECIFICATION Spec
CONSTANTS
    None = None
    Requests = {r1, r2, r3}
    Emails = {"boss@shop", "ann@shop", "new@shop"}
    Length <- MCLength
    Known = {"boss", "ann"}
    Admins = {"boss"}
    KnownEmail <- MCKnownEmail
SYMMETRY Symmetry
CHECK_DEADLOCK FALSE
INVARIANT AnswersAreTrue
INVARIANT AdminsWereApproved
INVARIANT PendingKeepsToken
