------------------------------- MODULE MCSftMoe -------------------------------
(* Instances of SftMoe: two layers, the second larger than the first. *)
EXTENDS SftMoe

CONSTANTS a, b

MCLayers == {a, b}

\* Layer a as in examples/test_sft_moe.py: backward_many's fields begin inside
\* up_t. Layer b has many tokens and few weights: they begin behind the matrices.
MixedWeights == [l \in Layers |-> IF l = a THEN 4 ELSE 2]
MixedForward == [l \in Layers |-> IF l = a THEN 5 ELSE 6]
OneCell      == [l \in Layers |-> 1]

\* In examples/test_sft_moe.py (10 experts of 5120 x 1536, groups of 1024
\* tokens, two experts each) a transposed matrix takes 157 MB and
\* forward_many's fields 191 MB, so that backward_many's begin inside up_t.
ManyWeights  == [l \in Layers |-> 4]
ShortForward == [l \in Layers |-> 5]

MCQLens == {1, 4, 5}
=============================================================================
