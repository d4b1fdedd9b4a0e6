SPECIFICATION FairSpec
CONSTANTS
    Dists = {d1, d2}
    Predecessor = pre
    OldNames = {manager, tui}
    Upgrade = upgrade
    WithSetup = {d2}
    Nothing = Nothing
    Hazards = {"kill", "fail", "tear", "ignore"}
    MaxMishaps = 3
INVARIANTS
    TypeOK
    ServedAreRetained
    EndConvergedUnlessTorn
PROPERTIES
    CommandsSwitchAtOnce
    RecoveryConverges
