---------------------------- MODULE MCBufferCache ----------------------------
(* Instances of BufferCache: three batch sizes, two callers. *)
EXTENDS BufferCache, TLC

MCBatchSizes == {1, 2, 4}
CallerSymmetry == Permutations(Callers)
=============================================================================
