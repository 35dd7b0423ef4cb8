CONSTANTS
    Requests = {r1, r2, r3}
    Packages = {p1, p2}
    NoPackage = NoPackage
    TotalRequests = 3
    ConcurrentRequests = 2
    UniquePackageNames = 1
    ResponseBytes = 2
    AggregateBytes = 5
SPECIFICATION FairSpec
CHECK_DEADLOCK FALSE
INVARIANTS
    WithinBudget
    LedgerIsFaithful
PROPERTIES
    NothingAfterFailure
    EveryRequestAnswered
