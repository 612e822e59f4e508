CONSTANTS
    r1 = r1
    r2 = r2
    w1 = w1
    w2 = w2
    w3 = w3
    u1 = u1
    k1 = k1
    k2 = k2
    p1 = p1
    Replicas = {r1}
    Workers = {w1, w2}
    Host <- MCHost
    Users = {u1}
    Keys = {k1, k2}
    Owner <- MCOwner
    Prefixes = {p1}
    Prefix <- MCPrefix
    Sources = {"ldap", "static"}
    ActiveSource <- MCActiveSource
    IdentitySource <- MCIdentitySource
    Expiring = {k1}
    ValidUntil <- MCValidUntil
    Issued = {k1}
    Requests = {"create", "revoke", "status"}
    TTL = 1
    MaxCall = 0
    MaxTime = 3
SPECIFICATION Spec
SYMMETRY Symmetric
INVARIANTS
    BlockBound
    CreateBound
    QuietCreatePublishes
    QuietResetSeals
