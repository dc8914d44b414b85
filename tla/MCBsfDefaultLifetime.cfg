SPECIFICATION Spec
CONSTANTS
    Retrieval = {r1, r2}
    UE = {u1}
    Binding = {b1}
    NoBinding = NoBinding
    Second = 2
    MaxTime = 1
    Headers <- MCHeaders
INVARIANTS
    DefaultLifetime
CHECK_DEADLOCK FALSE
