\* No failures, but ids are drawn again as soon as the code allows it.
CONSTANTS
    q1 = q1
    q2 = q2
    q3 = q3
    i1 = i1
    i2 = i2
    i3 = i3
    c1 = c1
    c2 = c2
    None = None
    Query = {q1, q2, q3}
    Id = {i1, i2}
    Call = {c1}
    Request <- OneRequest
    NumWorkers = 2
    MirrorKey = FALSE
    FreshIds = FALSE
    Lossy = FALSE
    PublicCrashes = FALSE
    PrivateCrashes = FALSE
SPECIFICATION FairSpec
INVARIANTS
    AnswerMatchesRequest
    NothingStranded
PROPERTIES
    QueriesAreForgotten
CHECK_DEADLOCK FALSE
