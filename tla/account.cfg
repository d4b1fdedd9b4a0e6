SPECIFICATION Spec
CONSTANTS
    Ids = {1, 2}
    LegacyIds = {1, 2}
    DeclaredAtFirst = {}
    Releases = {r1, r2}
    Clients = {c1}
    Faults = {"kill", "crash", "fail", "timeout", "record"}
    Clean = Clean
    Mixed = Mixed
    Legacy = Legacy
    Earlier = Earlier
    None = None
SYMMETRY ReleaseSymmetry
INVARIANTS JournalTracksDeclarations InstallationWhole RecoveryOpen OriginalsKept SettledOwnership ToolkitNeeded
PROPERTY AppliedOnce
