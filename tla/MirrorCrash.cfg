\* Two clients with requests of both kinds, failing polls, and restarts of both sides.
CONSTANTS
    q1 = q1
    q2 = q2
    q3 = q3
    i1 = i1
    i2 = i2
    i3 = i3
    c1 = c1
    c2 = c2
    None = None
    Query = {q1, q2}
    Id = {i1, i2}
    Call = {c1, c2}
    Request <- MixedRequests
    NumWorkers = 2
    MirrorKey = FALSE
    FreshIds = TRUE
    Lossy = TRUE
    PublicCrashes = TRUE
    PrivateCrashes = TRUE
SPECIFICATION Spec
SYMMETRY Symmetry
INVARIANTS
    AnswerMatchesRequest
    AtMostOnceExecution
    AnswerDeliverable
PROPERTIES
    ImplementsService
CHECK_DEADLOCK FALSE
