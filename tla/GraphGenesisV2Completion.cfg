CONSTANTS
  Top = "t"
  TopVersion <- MCTopVersion
  GraphNodes = 4
  Documents <- MCDocuments
  MaxEdits = 1
SPECIFICATION Spec
INVARIANTS
  EvidenceIsWhole
  CandidateIsExact
PROPERTY ProofHoldsWhenGiven
CHECK_DEADLOCK FALSE
