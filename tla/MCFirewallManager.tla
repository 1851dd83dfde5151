-------------------------- MODULE MCFirewallManager --------------------------
(* Constants of FirewallManager for TLC. *)
EXTENDS FirewallManager, TLC
CONSTANTS a, b, web, ssh

MCCallers  == {a, b}
MCRules    == {web, ssh}
\* One command; an update, which UFW does by deleting and adding.
MCPrograms == { <<[op |-> "add", rule |-> web]>>,
                <<[op |-> "delete", rule |-> web], [op |-> "add", rule |-> ssh]>> }
=============================================================================
