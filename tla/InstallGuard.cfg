CONSTANTS
    Run = run
    TTLs = {1}
    MaxTime = 1
    MaxFailures = 2
    MaxEvents = 9
    RegistryAnswers <- MCRegistryAnswers
    Lockfiles <- MCLockfiles
    MaxDrift = 2
SPECIFICATION FairSpec
CHECK_DEADLOCK FALSE
INVARIANTS
    SpawnedOnlyWhenApproved
    ResultIsReal
    NothingLeftBehind
PROPERTIES
    EveryRunEnds
