SPECIFICATION Spec
CONSTANTS
    None = None
    Session = {s1}
    Tmgi = {t1}
    Ssm = {m1}
    Attr = {a1}
    Terms = {TRUE, FALSE}
    Rules = {}
    Outcomes = {"ok", "badBody"}
    NrfOutcomes = {"ok"}
    MaxPush = 2
INVARIANTS PatchTargetKnown XactObjectHeld OneReportPerRequest
PROPERTIES NoCallbackAfterDone
CHECK_DEADLOCK FALSE
