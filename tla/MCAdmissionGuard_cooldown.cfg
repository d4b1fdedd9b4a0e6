\* MC for AdmissionGuard: safety by refinement, and liveness
SPECIFICATION FairSpec
CONSTANTS
    Cooldown = 3
    Slots = 2
    MaxLag = 2
    MaxBack = 3
    MaxMishaps = 2
PROPERTIES
    RestartsAreLimited
    SaturationEnds
