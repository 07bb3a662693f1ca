SPECIFICATION Spec
CONSTANTS
    Target <- MCTarget
    Commit = {c1, c2}
    NoCommit = NoCommit
    Digest = {"observer"}
    NoDigest = "unset"
    Role = {"senior"}
    Slot <- MCSlot
    CiOutputs <- ReplayOutputs
    HandFiles <- NoHandFiles
    Manifests = {}
    Policies = {}
    Signoffs = {}
    GateSettings <- ReplaySettings
    Frozen = TRUE
    MaxJobs = 2
    MaxEdits = 1
INVARIANTS ApprovedIsProven
PROPERTIES PromiseKept
CHECK_DEADLOCK FALSE
SYMMETRY Symmetry
