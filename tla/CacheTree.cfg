SPECIFICATION FairCacheSpec
CONSTANTS
    Server = {s1, s2}
    Request = {r1}
    AddonsPath = TRUE
    MaxTree = 1
INVARIANTS EligibleIsFresh NeverOlderThanServer
PROPERTIES Responds
