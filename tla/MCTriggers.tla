----------------------------- MODULE MCTriggers -----------------------------
(***************************************************************************)
(* Instances of Triggers for TLC: a few requests for two bodies with one   *)
(* payload between them.                                                   *)
(***************************************************************************)
EXTENDS Triggers, TLC

CONSTANTS q1, q2, q3, q4, raw, plain

MCTwoReqs == {q1, q2}
MCReqs == {q1, q2, q3}
MCFourReqs == {q1, q2, q3, q4}
MCBytes == {raw, plain}
MCOneBody == {plain}
MCCanonical == [b \in {raw, plain} |-> plain]
MCPlain == [b \in {plain} |-> plain]

Config(e, d, r) == [enabled |-> e, debounce |-> d, repeat |-> r]
MCConfigs == {Config(TRUE, TRUE, TRUE), Config(TRUE, FALSE, TRUE), Config(FALSE, TRUE, TRUE)}
MCDrafts == {Config(TRUE, TRUE, TRUE)}
MCDebounced == {Config(TRUE, TRUE, FALSE)}
MCToggled == {Config(TRUE, FALSE, TRUE), Config(FALSE, FALSE, TRUE)}

MCSymmetry == Permutations({q1, q2, q3, q4})

=============================================================================
