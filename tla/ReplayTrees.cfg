SPECIFICATION ReplaySpec
CONSTANTS
    c0 = c0
    c1 = c1
    c2 = c2
    t1 = t1
    t2 = t2
    Commit = {c0, c1, c2}
    Branch = main
    Tip = c0
    BaseSha = c1
    HeadSha = c2
    BaseArg = c1
    HeadArg = c2
    Test = {t1, t2}
    Text <- BehaviourAndStub
    Counts <- TwoCounts
    MaxReplays = 2
    Additive = FALSE
    Captured = Captured
    NoReport = NoReport
INVARIANTS ReplayTypeOK ReportsWhatRan GoesBack
CHECK_DEADLOCK FALSE
