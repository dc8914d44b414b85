SPECIFICATION Spec
CONSTANTS
    Pcf = {p1}
    Addr = {a1, a2, a3}
    Outcomes = {"ok", "refused", "timeup", "broken", "unusable"}
    CallbackCreates = TRUE
    MaxRequest = 4
    MaxNotification = 1
INVARIANTS ListedAlive AnswerOwn NoFault NoOrphan CreationReported
PROPERTIES SilentAfterGone
SYMMETRY AddrSymmetry
CHECK_DEADLOCK FALSE
