---------------------------- MODULE MCCoordination ----------------------------
(***************************************************************************)
(* Instances of Coordination for TLC.                                      *)
(***************************************************************************)
EXTENDS Coordination, TLC

CONSTANTS d1, d2

MCDrives == {d1, d2}
MCSymmetry == Permutations(MCDrives)

C(pattern, window, k) == [pattern |-> pattern, window |-> window, k |-> k]
MCDelegate == {C("delegate", 1, 1)}
MCFanOut == {C("fan_out", 1, 1)}
MCFailFast == {C("fail_fast", 1, 1)}
MCRace == {C("race", 1, 1)}
MCContracts ==
  MCDelegate \cup MCFanOut \cup MCFailFast \cup MCRace \cup {C("quorum", 1, 2)}

=============================================================================
