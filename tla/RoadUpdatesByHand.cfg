\* The script is run by hand while the worker runs it.
SPECIFICATION Spec
CONSTANTS
    Keys = {k1}
    Callers = {c1}
    Scripts = {p1, p2}
    NoKey = NoKey
    NoScript = NoScript
    MaxVersion = 2
    MaxFailures = 0
    MaxCrashes = 0
    MaxByHand = 1
    Budget <- MCBudget
    Overruns = FALSE
    RebuildEnabled = FALSE
SYMMETRY NameSymmetry
INVARIANTS
    RecordedIsApplied
