CONSTANTS
    r1 = r1
    r2 = r2
    w1 = w1
    w2 = w2
    w3 = w3
    u1 = u1
    k1 = k1
    k2 = k2
    p1 = p1
    Replicas = {r1, r2}
    Workers = {w1, w2, w3}
    Host <- MCHost
    Users = {u1}
    Keys = {k1}
    Owner <- MCOwner
    Prefixes = {p1}
    Prefix <- MCPrefix
    Sources = {"ldap", "static"}
    ActiveSource <- MCActiveSource
    IdentitySource <- MCIdentitySource
    Expiring = {}
    ValidUntil <- MCValidUntil
    Issued = {k1}
    Requests = {"revoke", "restart"}
    TTL = 1
    MaxCall = 1
    MaxTime = 4
SPECIFICATION Spec
SYMMETRY Symmetric
INVARIANTS
    TypeOK
    RevocationBound
    QuietResetSeals
