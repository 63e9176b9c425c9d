\* Liveness, with one operation for each handler: one drains, the other resolves.
CONSTANTS
    q1 = q1
    q2 = q2
    i1 = i1
    i2 = i2
    h1 = h1
    h2 = h2
    Query = {q1, q2}
    Id = {i1, i2}
    Request = {reqA}
    Response = {respA}
    Handler = {h1, h2}
    MaxOps = 1
    None = None
SPECIFICATION FairSpec
PROPERTY CallsReturn
