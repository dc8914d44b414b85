SPECIFICATION Spec
CONSTANT Rules = {"settled"}
INVARIANT NoFault
PROPERTY FailureEnds
CHECK_DEADLOCK FALSE
