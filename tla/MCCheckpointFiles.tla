------------------------- MODULE MCCheckpointFiles -------------------------
(***************************************************************************)
(* An instance of CheckpointFiles for TLC: a thread and a fork of it.      *)
(***************************************************************************)
EXTENDS CheckpointFiles, TLC

CONSTANTS main, fork, c1, c2, c3

MCThreads == {main, fork}
MCChannels == {c1, c2}
MCThreeChannels == {c1, c2, c3}
MCSymmetry == Permutations({c1, c2, c3}) \cup Permutations({main, fork})

=============================================================================
