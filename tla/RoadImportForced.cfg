\* An import is repeated with --force and interrupted.
SPECIFICATION Spec
CONSTANTS
    MaxRelease = 1
    MaxStops = 1
    MaxUnsummed = 0
    MayForce = TRUE
    Legacy = FALSE
INVARIANTS
    SkippedIsImported
