SPECIFICATION Spec
CONSTANTS
    Instances = {i1, i2}
    Requesters = {q1}
    Checkers = {k1}
    Fragile = {"tunnel"}
    MaxRequests = 2
    MaxBoots = 2
    MaxEdits = 1
    MaxDeclaration = 2
    None = None
SYMMETRY InstanceSymmetry
CHECK_DEADLOCK FALSE
INVARIANTS ReconciledWasServed RebootNoticed
