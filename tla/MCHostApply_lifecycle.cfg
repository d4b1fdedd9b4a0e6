\* Four configurations, every order of updates and commands, nothing fails.
SPECIFICATION FairSpec
CONSTANTS
    Absent = Absent
    Foreign = Foreign
    None = None
    Configs <- FourConfigs
    GuardChoices = {FALSE}
    Commands = {"start", "stop", "remove"}
    Hazards = {}
INVARIANTS
    
    UndoneForHealthHostOnly
PROPERTIES
    AppliedRunsDeclared
    ApplyConverges
