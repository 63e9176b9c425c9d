\* Three HTTP requests over two ids, so ids are reused once they are free.
CONSTANTS
    Query = {q1, q2, q3}
    Id = {i1, i2}
    Request = {reqA}
    Response = {respA, respB}
    None = None
SPECIFICATION FairSpec
INVARIANTS
    TypeOK
    MapsConsistent
PROPERTIES
    StoredResponseIsReturned
    EveryWaitEnds
\* Every client is served in the end, and nothing need happen after that.
CHECK_DEADLOCK FALSE
