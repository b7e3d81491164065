SPECIFICATION FairSpec
CONSTANTS
  MaxQueries = 3
  MaxBatch = 3
  MaxPrefill = 2
  Chunk = 1
  Prompt <- MCPrompt
  Estimated <- MCEstimated
  Need <- MCNeed
  NumPages = 3
INVARIANTS
  TypeOK
  OnePreparing
  FirstComeFirstServed
  PrefillContinues
  NoForeignWrite
PROPERTIES
  EveryQueryFinishes
