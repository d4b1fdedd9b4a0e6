\* Operations raise, before or after their effect; the guard comes and goes.
SPECIFICATION Spec
CONSTANTS
    Absent = Absent
    Foreign = Foreign
    None = None
    Configs <- OneConfig
    GuardChoices = {TRUE, FALSE}
    Commands = {"start", "restart", "remove"}
    Hazards = {"fault", "unknown"}
INVARIANTS
    TypeOK
    NoOrphanedUnit
    FailedApplyRecoverable
PROPERTIES
    FailedApplyUndone
    RemovedLeavesNothing
