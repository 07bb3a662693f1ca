SPECIFICATION ObserverSpec
CONSTANTS
    File <- Files
    BaseName <- Base
    TestFile = {}
    Function <- Functions
    Field = {}
    Expected <- ConfirmAndCancel
    MaxEvents = 2
    MaxBeats = 2
    MaxToggles = 2
    MaxInstalls = 2
INVARIANTS ObserverTypeOK SealedMeansWatched
CHECK_DEADLOCK FALSE
