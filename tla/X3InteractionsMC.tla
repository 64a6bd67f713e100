--------------------------- MODULE X3InteractionsMC ---------------------------
(* Instances of the interactions loop for TLC. *)
EXTENDS X3Interactions, TLC

CONSTANTS k1, k2

TicksAlike == Permutations({k1, k2})
=============================================================================
