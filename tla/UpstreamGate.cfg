\* The gate with three callers, two slots and a cooldown longer than any
\* computation OSRM makes.
SPECIFICATION FairSpec
CONSTANTS
    Requests = {r1, r2, r3}
    Concurrency = 2
    CooldownMs = 5
    TimeoutMs = 2
    ComputeMs = 4
    SecondMs = 2
INVARIANTS
    TypeOK
    ActiveIsExact
    OsrmLoadBounded
    ClosureBounded
    AdviceCoversCooldown
PROPERTIES
    EveryCallAnswered
    GateReopens
