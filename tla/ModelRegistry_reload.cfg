CONSTANTS
    r1 = r1
    r2 = r2
    a1 = a1
    Replicas = {r1, r2}
    Accounts = {a1}
    Earlier = 1
    MaxWrites = 3
SPECIFICATION RegistryLive
INVARIANTS
    RegistryTypeOK
    StaleIsNoticed
    QuietMirrorIsExact
PROPERTIES
    StaleIsReloaded
    MissingIsRestored
    RestartsStop
