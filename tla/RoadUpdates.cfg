\* The worker is the only one to run the script, and may fail twice at any step.
SPECIFICATION Spec
CONSTANTS
    Keys = {k1, k2}
    Callers = {c1, c2}
    Scripts = {p1, p2}
    NoKey = NoKey
    NoScript = NoScript
    MaxVersion = 2
    MaxFailures = 2
    MaxCrashes = 0
    MaxByHand = 0
    Budget <- MCBudget
    Overruns = FALSE
    RebuildEnabled = TRUE
SYMMETRY NameSymmetry
INVARIANTS
    TypeOK
    JobDelivers
PROPERTIES
    ReplicaSpec
