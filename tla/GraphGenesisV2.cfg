CONSTANTS
  o1 = o1
  Outputs = {o1}
SPECIFICATION FairSpec
INVARIANTS
  EffectsAreCovered
  ProofIsReal
  ClosedMeansIdle
PROPERTY EverythingEnds
CHECK_DEADLOCK FALSE
