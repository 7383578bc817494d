\* The data directory exists but the graph was never built.
SPECIFICATION FairSpec
CONSTANTS
    GraphMayBeMissing = TRUE
    Privileged = TRUE
CHECK_DEADLOCK FALSE
INVARIANTS
    OsrmIsOptional
