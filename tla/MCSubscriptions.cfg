SPECIFICATION Spec
CONSTANTS
    Sessions = {s1}
    Subs = {x1, x2}
    Cids = {c1, c2}
    Events = {"expiry"}
    Urls = {u1, u2}
    Fixed = TRUE
    Rules = {"settled", "unique", "emptied", "tables"}
    MaxReq = 2
    None = None
INVARIANTS OneContainer KeyedById ToldToOwner
PROPERTY IdGivenUpWithDeletion
CHECK_DEADLOCK FALSE
SYMMETRY Symmetry
