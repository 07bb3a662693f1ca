SPECIFICATION Spec
CONSTANTS
    order = order
    invoice = invoice
    Model = {order, invoice}
    Tools <- FourTools
    Recipe = 2
    ESG_SEEDS = 2
    MAX_DEPTH = 1
    MAX_CALLS = 3
    ESG_MAX_DEPTH = 2
    ESG_MAX_CALLS = 3
    MaxFrames = 3
    MaxEnters = 3
    MaxWrites = 2
SYMMETRY Symmetry
INVARIANTS TypeOK WritesAreReported TraceIsTrue
CHECK_DEADLOCK FALSE
