\* Three clients, polls that fail at any point, two of them under way at a time.
CONSTANTS
    q1 = q1
    q2 = q2
    q3 = q3
    i1 = i1
    i2 = i2
    i3 = i3
    c1 = c1
    c2 = c2
    None = None
    Query = {q1, q2, q3}
    Id = {i1, i2, i3}
    Call = {c1, c2}
    Request <- OneRequest
    NumWorkers = 3
    MirrorKey = FALSE
    FreshIds = TRUE
    Lossy = TRUE
    PublicCrashes = FALSE
    PrivateCrashes = FALSE
SPECIFICATION Spec
SYMMETRY Symmetry
INVARIANTS
    TypeOK
    AnswerMatchesRequest
    AtMostOnceExecution
    AnswerDeliverable
PROPERTIES
    OnlyLostRepliesStrand
    ClearedAreDelivered
CHECK_DEADLOCK FALSE
