SPECIFICATION Spec
CONSTANTS
    f1 = f1
    f2 = f2
    compare = compare
    raise = raise
    boolop = boolop
    sudo = sudo
    File <- TwoFiles
    Site <- Sites
    Removal = {raise}
    Unsafe = {sudo}
    Targets <- FourTargets
    FileOf <- Files
    SitesOf <- Places
    Gone = {"gone"}
    Unparseable = {2}
    MaxMutants = 2
    MaxEdits = 2
    MaxKills = 1
    MaxRuns = 2
INVARIANTS TypeOK AtMostOneMutant SurvivorsAreFound
PROPERTY OldEditsSurvive
CHECK_DEADLOCK FALSE
