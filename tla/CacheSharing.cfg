SPECIFICATION CacheSpec
CONSTANTS
    Server = {s1, s2, s3}
    Request = {r1, r2}
    AddonsPath = TRUE
    MaxTree = 0
SYMMETRY Symmetry
INVARIANTS CacheTypeOK AnswersTheRequest
CHECK_DEADLOCK FALSE
