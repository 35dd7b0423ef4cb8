SPECIFICATION FairSpec
CONSTANTS
  Archive <- MCArchive
  Claims <- MCClaims
  MaxEntries = 3
  MaxFile = 2
  MaxTotal = 3
  ChunkBytes = 1
  ManifestPath = "package.json"
  Artifacts = 2
INVARIANTS SealIsEarned AcceptedIsEarned 
PROPERTY EveryJobEnds
CHECK_DEADLOCK FALSE
