SPECIFICATION Spec
CONSTANTS
    a1 = a1
    a2 = a2
    h1 = h1
    h2 = h2
    c1 = c1
    c2 = c2
    c3 = c3
    p1 = p1
    p2 = p2
    p3 = p3
    Account = {a1, a2}
    Handset = {h1, h2}
    Code = {c1, c2, c3}
    AccountOf <- OneCodeEach
    Request = {p1, p2, p3}
    MaxUnderWay = 3
    DeviceLimits = {1, 2}
INVARIANT TypeOK
INVARIANT CodePairsOnce
INVARIANT OneTokenActs
INVARIANT OneDefault
PROPERTY MovesThePhone
PROPERTY WithinLimit
SYMMETRY Requests
CHECK_DEADLOCK FALSE
