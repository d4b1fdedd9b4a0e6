\* Two mutations of which one goes on after its time is over.
SPECIFICATION Spec
CONSTANTS
    Workers = {w1, w2}
    Contents = {c1, c2}
    Hosts = {h1}
    MaxIntent = 1
    MaxAsked = 2
    MaxVersion = 1
    MaxRefresh = 1
    MaxSaves = 1
    None = None
CHECK_DEADLOCK FALSE
INVARIANT DependentSuppressed
