------------------------------- MODULE MCBoot -------------------------------
(* Boot for TLC: all its constants are numbers. *)
EXTENDS Boot
=============================================================================
