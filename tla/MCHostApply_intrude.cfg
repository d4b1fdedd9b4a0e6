\* The worker dies, the host reboots, the journal cannot be written, and
\* managed files are replaced while the worker runs.
SPECIFICATION Spec
CONSTANTS
    Absent = Absent
    Foreign = Foreign
    None = None
    Configs <- OneConfig
    GuardChoices = {FALSE}
    Commands = {"remove"}
    Hazards = {"kill", "reboot", "record", "tamper"}
INVARIANTS
    EnabledHasFile
PROPERTIES
    ForeignSafe
