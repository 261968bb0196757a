--------------------------- MODULE MCSupervision ---------------------------
(***************************************************************************)
(* Instances of Supervision for TLC.                                       *)
(***************************************************************************)
EXTENDS Supervision, TLC

CONSTANTS c1, c2, c3, m1

MCCalls == {c1, c2, c3}
MCMessages == {m1}

Policy(r, i, p) == [restart |-> r, intensity |-> i, period |-> p]
MCPolicies ==
  {Policy("permanent", 0, 1), Policy("permanent", 1, 1), Policy("transient", 1, 1), None}
MCTransient == {Policy("transient", 1, 1)}

MCSymmetry == Permutations(MCCalls)

=============================================================================
