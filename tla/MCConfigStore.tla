---------------------------- MODULE MCConfigStore ----------------------------
(* Constants of ConfigStore for TLC. *)
EXTENDS ConfigStore, TLC

CONSTANTS s1, s2
MCSlots == {s1, s2}
MCOverrides == {[fields |-> Unset, rest |-> Unset], [fields |-> 1, rest |-> 0]}
Symmetry == Permutations(MCSlots)
=============================================================================
