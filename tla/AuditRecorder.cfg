CONSTANTS
    Calls = {c1}
    MaxFailures = 2
    MaxEvents = 9
SPECIFICATION RecorderSpec
CHECK_DEADLOCK FALSE
INVARIANTS
    ExportNeverRefused
    StartIsAuthorized
    FinishedRowHasReceipts
PROPERTIES
    FinishedIsFinal
