\* The documentation's claim about a private side started with --mirror-key.
CONSTANTS
    q1 = q1
    q2 = q2
    q3 = q3
    i1 = i1
    i2 = i2
    i3 = i3
    c1 = c1
    c2 = c2
    None = None
    Query = {q1, q2}
    Id = {i1, i2}
    Call = {c1, c2}
    Request <- MixedRequests
    NumWorkers = 2
    MirrorKey = TRUE
    FreshIds = TRUE
    Lossy = FALSE
    PublicCrashes = FALSE
    PrivateCrashes = FALSE
SPECIFICATION Spec
INVARIANTS
    OnlyEncryptedResponses
CHECK_DEADLOCK FALSE
