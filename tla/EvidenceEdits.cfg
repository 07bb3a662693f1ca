SPECIFICATION Spec
CONSTANTS
    Target <- MCTarget
    Commit = {c1}
    NoCommit = NoCommit
    Digest = {"observer"}
    NoDigest = "unset"
    Role = {"senior"}
    Slot <- MCSlot
    CiOutputs <- EditOutputs
    HandFiles <- MCHandFiles
    Manifests <- MCManifests
    Policies <- MCPolicies
    Signoffs <- MCSignoffs
    GateSettings <- MCGateSettings
    Frozen = TRUE
    MaxJobs = 1
    MaxEdits = 2
INVARIANTS TypeOK ApproveSeesEveryFile SignoffNeverLoosens
CHECK_DEADLOCK FALSE
