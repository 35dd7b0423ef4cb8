CONSTANTS
    Run = run
    TTLs = {1}
    MaxTime = 1
    MaxFailures = 2
    MaxEvents = 40
    MaxDrift = 1
    Requests = {r1, r2}
    Packages = {p1, p2}
    NoPackage = NoPackage
    TotalRequests = 2
    ConcurrentRequests = 2
    UniquePackageNames = 1
    ResponseBytes = 1
    AggregateBytes = 2
SPECIFICATION FairSpec
CHECK_DEADLOCK FALSE
INVARIANTS
    EffectIsApproved
    ReadIsReported
    ResultIsReal
    NothingLeftBehind
PROPERTIES
    EveryRunEnds
