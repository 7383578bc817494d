\* The timing of the watchdog, in proportion to compose.yaml's.
SPECIFICATION FairSpec
CONSTANTS
    StartSeconds = 5
    ProbeSeconds = 1
    Interval = 3
    MaxFailures = 3
    Patience = 2
    LoadSeconds = 4
    StopGrace = 3
INVARIANTS
    TypeOK
    StuckIsBounded
    RestartNeedsSilence
    StopsInTime
PROPERTIES
    RouterReturns
