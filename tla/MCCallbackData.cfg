SPECIFICATION Spec
CONSTANTS
    d1 = d1
    d2 = d2
    d3 = d3
    NULL = NULL
    Data = {d1, d2, d3}
    AppFree <- MCAppFree
INVARIANTS
    NoDanglingData
    NoDoubleFree
    NoLeak
\* A destroyed session takes no further step.
CHECK_DEADLOCK FALSE
