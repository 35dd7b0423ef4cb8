CONSTANTS
    Run = run
    TTLs = {1}
    MaxTime = 0
    MaxFailures = 0
    MaxEvents = 9
    RegistryAnswers <- MCRegistryAnswers
    Lockfiles <- MCLockfiles
    MaxDrift = 1
SPECIFICATION Spec
CHECK_DEADLOCK FALSE
INVARIANTS
    CancellationIsNotSuccess
