--------------------------- MODULE MCSavepointRun ---------------------------
EXTENDS SavepointRun, TLC
CONSTANTS order, invoice
FourTools == {"trace_flow", "state_capture", "esg_sample", "fixture_factory"}
Factory == {"fixture_factory"}
Symmetry == Permutations({order, invoice})
=============================================================================
