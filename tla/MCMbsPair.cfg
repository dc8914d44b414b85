SPECIFICATION Spec
CONSTANTS
    None = None
    Session = {s1, s2}
    Tmgi = {t1}
    Ssm = {}
    Attr = {a1}
    Terms = {TRUE}
    Rules = {"wait", "created", "keep"}
    Outcomes = {"ok"}
    NrfOutcomes = {"ok"}
    MaxPush = 2
INVARIANT CallbackAboutOwn
SYMMETRY SessionSymmetry
CHECK_DEADLOCK FALSE
