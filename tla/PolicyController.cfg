CONSTANTS
    Processes = {p1, p2}
    Texts <- MCTexts
    Rules <- MCRules
    Covers <- MCCovers
    Requests <- MCRequests
    Torn = torn
    None = none
    MaxPuts = 2
    MaxEdits = 1
SYMMETRY ProcessSymmetry
SPECIFICATION Spec
CHECK_DEADLOCK FALSE
INVARIANTS
    SavedFileSurvives
    JudgesSoundly
PROPERTIES
    SavesOnlyOverKnownText
