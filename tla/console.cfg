\* Two mutations, from the wizard or from the instance's screen.
SPECIFICATION Spec
CONSTANTS
    Workers = {w1, w2}
    Contents = {c1, c2}
    Hosts = {h1, h2}
    MaxIntent = 2
    MaxAsked = 3
    MaxVersion = 2
    MaxRefresh = 2
    MaxSaves = 1
    None = None
SYMMETRY ConsoleSymmetry
CHECK_DEADLOCK FALSE
INVARIANTS RefusalIsReleased
PROPERTIES ReplacesWhatWasEdited ShownNeverGoesBack CreatesWhatWasPreviewed
