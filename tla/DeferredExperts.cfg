SPECIFICATION FairSpec
CONSTANTS
  Layers <- OddLayers
  DeferChoices <- OddChoices
  BufferDepth = 2
  Passes = 2
  MaxAhead = 12
  None = None
INVARIANTS
  TypeOK
  InputsIntact
  OutputSettled
  DeliveredExact
PROPERTIES
  PassesComplete
