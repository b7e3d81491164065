-------------------------- MODULE MCDeferredExperts --------------------------
(* Instances of DeferredExperts. *)
EXTENDS DeferredExperts

\* Three MoE layers behind dense ones; any of them but the last may defer.
OddLayers  == <<3, 4, 5>>
OddChoices == SUBSET {3, 4}
=============================================================================
