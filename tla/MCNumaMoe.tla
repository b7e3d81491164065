------------------------------- MODULE MCNumaMoe -------------------------------
(* An instance of NumaMoe: two layers that need as much memory as each     *)
(* other and a third that needs more, loaded in any order.                 *)
EXTENDS NumaMoe

CONSTANTS a, b, c
MCLayers   == {a, b, c}
MCLocalLen == [l \in MCLayers |-> IF l = c THEN 2 ELSE 1]
=============================================================================
