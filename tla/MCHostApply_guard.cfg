\* The admission guard's timer fires while transactions run and undo steps raise.
SPECIFICATION FairSpec
CONSTANTS
    Absent = Absent
    Foreign = Foreign
    None = None
    Configs <- OneConfig
    GuardChoices = {TRUE}
    Commands = {"start", "stop"}
    Hazards = {"tick", "unclean", "timeout"}
INVARIANTS
    FirstApplyRecoverable
PROPERTIES
    TransactionEnds
