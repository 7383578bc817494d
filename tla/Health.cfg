\* The times of compose.yaml in the same order, two outages.
SPECIFICATION FairSpec
CONSTANTS
    Deadline = 2
    Interval = 3
    ProbeTimeout = 4
    Retries = 2
    StartPeriod = 5
    MaxOutages = 2
INVARIANTS
    TypeOK
    AnswersInTime
    HealthFollowsRoads
    HealthIsFresh
PROPERTIES
    StackComesUp
