SPECIFICATION ToolsSpec
CONSTANTS
    Jobs <- AllJobs
    SaysOf <- SomeOutputs
    MaxRuns = 2
    Calls <- AllCalls
    Says <- DbOutputs
    MaxCalls = 3
    MAX_TB = 1
    MAX_LOG_ERRORS = 1
INVARIANTS ToolsTypeOK StagingIsBuildable OkIsEarned FullIsRehearsed
CHECK_DEADLOCK FALSE
