SPECIFICATION Spec
CONSTANTS
    Sessions = {s1, s2}
    Subs = {x1}
    Cids = {c1}
    Events = {"expiry"}
    Urls = {u1, u2}
    Fixed = FALSE
    Rules = {"settled", "unique", "emptied", "tables"}
    MaxReq = 3
    None = None
INVARIANT NoFault
SYMMETRY Symmetry
CHECK_DEADLOCK FALSE
