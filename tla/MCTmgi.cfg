SPECIFICATION Spec
CONSTANTS
    Tmgis = {t1, t2, t3}
    Ids = {i1, i2}
    Rules = {"waits", "quiet", "fresh", "apart", "used", "kept", "session"}
    MaxReq = 4
    None = None
INVARIANTS IdsSound AllServed DoneToAsker NoFault
SYMMETRY Symmetry
CHECK_DEADLOCK FALSE
