\* Two manager processes at one instance.
SPECIFICATION Spec
CONSTANTS
    Procs = {p1, p2}
    Accounts = {a1, a2}
    Targets = {t1, t2}
    Unknown = Unknown
    None = None
SYMMETRY ProbesSymmetry
CHECK_DEADLOCK FALSE
INVARIANTS PassedMeansReclaimed ValidEvidenceHolds
PROPERTIES LatestEvidenceWins
