---------------------------- MODULE MCControlPlane ----------------------------
(* Constants of ControlPlane for TLC: the requests worth overlapping. *)
EXTENDS ControlPlane, TLC

CONSTANTS b1, b2, s1, s2, k1, k2, ann, bob, blank

Say(op, b) == Bare(op, b, k1)
MCAsks(b) ==
  {Say("logout", b), Say("apply", b), [Say("apply", b) EXCEPT !.forged = TRUE],
   [Say("setup", b) EXCEPT !.name = ann], [Say("setup", b) EXCEPT !.name = bob, !.forged = TRUE],
   [Say("login", b) EXCEPT !.name = ann], [Say("login", b) EXCEPT !.name = bob],
   [Bare("login", b, k2) EXCEPT !.name = ann, !.right = FALSE],
   [Say("create", b) EXCEPT !.name = bob, !.role = "operator"], [Say("create", b) EXCEPT !.name = bob, !.role = "ghost"],
   [Say("put", b) EXCEPT !.body.domain = "b"],
   [Say("put", b) EXCEPT !.body = [port |-> 3, domain |-> "a"]]}
MCOverrides == {[NoBody EXCEPT !.port = 2]}
MCNames == {ann, bob, blank}
MCSymmetry == Permutations({b1, b2}) \union Permutations({s1, s2})
=============================================================================
