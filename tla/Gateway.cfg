CONSTANTS
    Calls = {c1, c2}
    TTLs = {1}
    MaxTime = 0
    MaxFailures = 2
    MaxEvents = 9
    NoCall = NoCall
SPECIFICATION FairSpec
CHECK_DEADLOCK FALSE
INVARIANTS
    ReleasedOnlyWhenAuthorized
    RecordTellsTheStory
PROPERTIES
    UsesComponents
    EveryCallIsAnswered
