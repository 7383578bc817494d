\* The stack, run as root; the script ends in the end.
SPECIFICATION FairSpec
CONSTANTS
    GraphMayBeMissing = TRUE
    Privileged = TRUE
CHECK_DEADLOCK FALSE
INVARIANTS
    TypeOK
    NothingLeftBehind
    CleanupWaitsForTold
PROPERTIES
    EndTogether
