CONSTANTS
    r1 = r1
    r2 = r2
    r3 = r3
    Replicas = {r1, r2, r3}
    MaxFaults = 4
SPECIFICATION LiveSpec
INVARIANTS
    TypeOK
    Exclusion
PROPERTIES
    CleanupHappens
    ShutdownCompletes
