--------------------------- MODULE MCAgentLifecycle ---------------------------
(* Constants of AgentLifecycle for TLC. *)
EXTENDS AgentLifecycle, TLC
CONSTANTS k1, k2

MCConns == {k1, k2}
ConnSymmetry == Permutations(MCConns)
=============================================================================
