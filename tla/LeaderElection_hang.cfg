CONSTANTS
    r1 = r1
    r2 = r2
    r3 = r3
    Replicas = {r1, r2}
    MaxFaults = 1
SPECIFICATION LiveSpec
PROPERTY
    EveryShutdownCompletes
