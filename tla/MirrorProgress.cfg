\* Liveness with polls that fail again and again; one worker for two clients.
CONSTANTS
    q1 = q1
    q2 = q2
    q3 = q3
    i1 = i1
    i2 = i2
    i3 = i3
    c1 = c1
    c2 = c2
    None = None
    Query = {q1, q2}
    Id = {i1, i2}
    Call = {c1, c2}
    Request <- OneRequest
    NumWorkers = 1
    MirrorKey = FALSE
    FreshIds = TRUE
    Lossy = TRUE
    PublicCrashes = FALSE
    PrivateCrashes = FALSE
SPECIFICATION FairSpec
PROPERTIES
    ResponsesAreDelivered
CHECK_DEADLOCK FALSE
