\* The claim of the comment on QueryManagerInner.pending_responses.
CONSTANTS
    Query = {q1, q2}
    Id = {i1, i2}
    Request = {reqA}
    Response = {respA}
    None = None
SPECIFICATION Spec
INVARIANT PendingResponsesAreResolved
CHECK_DEADLOCK FALSE
