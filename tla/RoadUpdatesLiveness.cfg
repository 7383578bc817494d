\* The job moves on and ends though scripts may hang and the worker crashes twice.
SPECIFICATION FairSpec
CONSTANTS
    Keys = {k1}
    Callers = {c1}
    Scripts = {p1, p2, p3, p4}
    NoKey = NoKey
    NoScript = NoScript
    MaxVersion = 1
    MaxFailures = 1
    MaxCrashes = 2
    MaxByHand = 1
    Budget <- MCBudget
    Overruns = TRUE
    RebuildEnabled = FALSE
PROPERTIES
    JobsMoveOn
    JobsSettle
