SPECIFICATION Spec
CONSTANTS
    Questions <- AllQuestions
    TOP_K = 2
    TextWithin <- WithinTexts
    Probes <- ProbesAtIssue
    nested <- ProbesNest
    NoName = 0
    Generic = {"get"}
    MIN_FIELDS_FOR_MATCH = 2
    MODEL_MATCH_THRESHOLD = 600
    HIGH_SIM = 500
    SENSITIVE_MODELS = {"res.partner"}
    SensitiveKeys = {"password"}
    STRIP_KEYS = {"source"}
    Underscored = {"_warnings", "_line", "_caveat"}
    Values <- AllValues
    nesting <- AllNesting
INVARIANTS CapabilitiesAreGrounded BriefTellsOfLosses OkMeansSeen EveryLossIsBlocking NoneMeansSame RedactedIsClean GateIsGrounded ErrorsAreComplete
CHECK_DEADLOCK FALSE
