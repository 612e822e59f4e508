CONSTANTS
    r1 = r1
    r2 = r2
    w1 = w1
    w2 = w2
    w3 = w3
    u1 = u1
    t1 = t1
    Replicas = {r1, r2}
    Workers = {w1, w2, w3}
    Host <- MCHost
    Users = {u1}
    Tokens = {t1}
    UserTTL = 1
    AdminTTL = 2
    TTL = 1
    Serves <- MCServes
    MaxCall = 1
    MaxTime = 3
SPECIFICATION Spec
SYMMETRY Symmetric
INVARIANTS
    TypeOK
    SessionBound
    QuietResetSeals
    BlockedRowsFromOverlap
PROPERTIES
    NoEarlyLogout
