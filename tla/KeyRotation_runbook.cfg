CONSTANTS
    r1 = r1
    r2 = r2
    r3 = r3
    a1 = a1
    a2 = a2
    Pods = {r1, r2, r3}
    Credentials = {a1, a2}
SPECIFICATION RotationSpec
SYMMETRY Symmetric
INVARIANTS
    RotationTypeOK
    EveryRowReadable
