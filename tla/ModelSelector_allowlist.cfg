CONSTANTS
    c1 = c1
    c2 = c2
    m1 = m1
    m2 = m2
    p1 = p1
    p2 = p2
    Callers = {c1, c2}
    Models <- MCModels
    Providers = {p1, p2}
    Requests <- MCRequests
    Garbled = garbled
    TTL = 1
    MaxCall = 1
    MaxTime = 2
    MaxChanges = 1
SPECIFICATION Spec
SYMMETRY Symmetric
INVARIANTS
    TypeOK
    DecisionIsRecent
