SPECIFICATION FairSpec
CONSTANTS
    Retrieval = {r1, r2}
    UE = {u1, u2}
    Binding = {b1}
    NoBinding = NoBinding
    Second = 2
    MaxTime = 3
    Headers <- MCHeaders
INVARIANTS
    AtMostOneCallback
    XactHasSession
    CachedAnswerFresh
PROPERTIES
    LookupSpec
    RetrievalEnds
CHECK_DEADLOCK FALSE
