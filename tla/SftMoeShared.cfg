\* The proportion of examples/test_sft_moe.py between weights and scratch:
\* forward_many's fields end inside the second transposed matrix.
SPECIFICATION Spec
CONSTANTS
  a = a
  b = b
  None = None
  Layers <- MCLayers
  WeightLen <- ManyWeights
  ForwardLen <- ShortForward
  GradLen <- OneCell
  GroupMin = 2
  GroupMax = 3
  QLens <- MCQLens
  Overlapping = FALSE
  MaxForwards = 3
INVARIANTS
  GradientsSound
