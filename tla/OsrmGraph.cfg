\* Imports and builds of the graph that are interrupted and repeated.
SPECIFICATION GraphSpec
CONSTANTS
    MaxRelease = 2
    MaxStops = 1
    MaxUnsummed = 1
    MayForce = FALSE
    Legacy = FALSE
    Setups = {"compose", "metal"}
    MaxBuildStops = 2
INVARIANTS
    GraphTypeOK
    BuildFindsPbf
    ServedIsOneBuild
PROPERTIES
    ComposeBuilds
