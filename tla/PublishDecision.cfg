SPECIFICATION Spec
CONSTANTS
    Bundles <- TwoBundles
    PerPage = 2
    MaxJobs = 2
    MaxComments = 2
INVARIANTS TypeOK ArtifactIsTrue CommentsAreKept
CHECK_DEADLOCK FALSE
