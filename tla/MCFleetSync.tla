----------------------------- MODULE MCFleetSync -----------------------------
(* Constants of FleetSync for TLC. *)
EXTENDS FleetSync, TLC
CONSTANTS c1, c2, k1, k2

MCCommands == {c1, c2}
MCConns    == {k1, k2}
ConnSymmetry == Permutations(MCConns)
=============================================================================
