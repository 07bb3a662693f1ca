SPECIFICATION Spec
CONSTANTS
    File <- Files
    BaseName <- BaseNames
    TestFile = {}
    Function <- Methods
    Field = {}
    Diffs <- AllDiffs
    Rank <- Ranks
    Mro <- Resolution
    Critical = {"sale.order", "account.move"}
    EndsWith <- Alike
    FrameId = {1, 2}
    Context = {"", "test", "setUp", "tearDown"}
    RealTests = {"test"}
    NamedOtherwise = {"setUp"}
    ShowContexts = {TRUE, FALSE}
    MaxEventsPerTarget = 1
    MaxCalls = 3
    Suite <- Calls
INVARIANTS TypeOK PathReportIsTrue CoverageIsTrue
CHECK_DEADLOCK FALSE
