------------------------------ MODULE MCPageCache ------------------------------
(* An instance of PageCache: model values for its constants.               *)
EXTENDS PageCache, TLC

CONSTANTS c1, c2, k1, k2
MCClients == {c1, c2}
MCKeys    == {k1, k2}
MCStored  == {k1}
\* No property tells the clients apart.
MCSymmetry == Permutations(MCClients)
=============================================================================
