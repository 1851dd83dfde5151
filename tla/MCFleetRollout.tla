---------------------------- MODULE MCFleetRollout ----------------------------
(* Constants of FleetRollout for TLC. *)
EXTENDS FleetRollout, TLC
CONSTANTS h1, h2

MCHandlers == {h1, h2}
Symmetry   == Permutations(MCHandlers)
=============================================================================
