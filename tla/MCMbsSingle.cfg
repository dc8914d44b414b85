SPECIFICATION FairSpec
CONSTANTS
    None = None
    Session = {s1}
    Tmgi = {}
    Ssm = {}
    Attr = {a1, a2}
    Terms = {FALSE}
    Rules = {"wait", "created", "keep"}
    Outcomes = {"ok", "error", "badheader", "noLocation", "badBody"}
    NrfOutcomes = {"ok", "error", "badheader"}
    MaxPush = 3
INVARIANTS NoOrphan NoFault
PROPERTIES PromiseSpec DeletionCompletes CreateReported
CHECK_DEADLOCK FALSE
