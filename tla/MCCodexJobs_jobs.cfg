\* Two callers ask about and cancel one job while processes die, the declaration
\* changes and systemd fails to answer.
SPECIFICATION FairSpec
CONSTANTS
    Callers = {c1, c2}
    Hazards = {"kill", "rebind", "timeout", "query", "delay"}
    MaxMishaps = 2
INVARIANTS
    CancelledIsStopped
    EndedJobIsStopped
PROPERTIES
    WorkerVerdictKept
    JobEnds
CHECK_DEADLOCK FALSE
