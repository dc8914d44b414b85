SPECIFICATION Spec
CONSTANTS
    Bases <- MCBases
    Values <- MCValues
    MaxEdits = 1
    Rules = {"waits", "once", "noticed", "expressible", "kept", "untimed"}
INVARIANTS
    CopyFaithful
    InSync
    PatchApplies
    NoFault
    ListsPatched
