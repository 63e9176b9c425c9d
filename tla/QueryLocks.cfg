\* Two workers against two handler threads with two operations each.
CONSTANTS
    q1 = q1
    q2 = q2
    i1 = i1
    i2 = i2
    h1 = h1
    h2 = h2
    Query = {q1, q2}
    Id = {i1, i2}
    Request = {reqA}
    Response = {respA, respB}
    Handler = {h1, h2}
    MaxOps = 2
    None = None
SPECIFICATION Spec
SYMMETRY Symmetry
INVARIANTS
    TypeOK
    NoLostWakeup
    DecisionStands
PROPERTY ImplementsManager
