\* Three clients of two workers: with POSTs of one unit nobody's deadline passes,
\* with POSTs of two it may (3 * 2 + 2 * 1 >= 6).
CONSTANTS
    q1 = q1
    q2 = q2
    q3 = q3
    i1 = i1
    i2 = i2
    i3 = i3
    c1 = c1
    None = None
    Query = {q1, q2, q3}
    Id = {i1, i2, i3}
    Call = {c1}
    Request <- OneRequest
    NumWorkers = 2
    MirrorKey = FALSE
    FreshIds = TRUE
    Lossy = FALSE
    PublicCrashes = FALSE
    PrivateCrashes = FALSE
    TwoMinutes = 6
    PollInterval = 1
    PollDelay = 0
SPECIFICATION TimedSpec
SYMMETRY Symmetry
INVARIANTS
    TimedTypeOK
    TimeoutsNeedASlowWallet
    BacklogNeedsASlowWallet
    LimitErrorsComeTooLate
CHECK_DEADLOCK FALSE
