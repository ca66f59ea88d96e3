SPECIFICATION Spec
CONSTANTS
    v1 = v1
    v2 = v2
    v3 = v3
    s1 = s1
    s2 = s2
    Version = {v1, v2, v3}
    Script = {s1, s2}
    MaxStops = 2
    MaxLosses = 1
INVARIANTS
    TypeOK
    PointersReady
    RecoveryPossible
PROPERTY SwitchIsAtomic
