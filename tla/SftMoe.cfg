\* Two layers that share the buffer, one with and one without overlap of weights
\* and gradients, up to three forwards of 1, 4 or 5 tokens in groups of 2 or 3:
\* full groups, a last one that is not, and a rest done token by token.
SPECIFICATION Spec
CONSTANTS
  a = a
  b = b
  None = None
  Layers <- MCLayers
  WeightLen <- MixedWeights
  ForwardLen <- MixedForward
  GradLen <- OneCell
  GroupMin = 2
  GroupMax = 3
  QLens <- MCQLens
  Overlapping = FALSE
  MaxForwards = 3
INVARIANTS
  TypeOK
  OnlyOverlapSpoils
  ActivationsOwn
  PointersCurrent
