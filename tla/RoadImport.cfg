\* Imports that are interrupted, repeated and forced while two releases appear.
SPECIFICATION FairSpec
CONSTANTS
    MaxRelease = 3
    MaxStops = 3
    MaxUnsummed = 1
    MayForce = TRUE
    Legacy = FALSE
INVARIANTS
    TypeOK
    MarkerMeansImported
    StateIsReadable
    LoadedIsOneRelease
PROPERTIES
    ImportCompletes
