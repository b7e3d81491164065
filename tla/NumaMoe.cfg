SPECIFICATION FairSpec
CONSTANTS
  a = a
  b = b
  c = c
  None = None
  NumaCount = 3
  Layers <- MCLayers
  LocalLen <- MCLocalLen
  MaxForwards = 3
INVARIANTS
  BackendInOrder
  ForwardsSound
PROPERTIES
  ImplementsForkJoin
  CallsReturn
