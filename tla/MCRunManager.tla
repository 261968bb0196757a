---------------------------- MODULE MCRunManager ----------------------------
(***************************************************************************)
(* Instances of RunManager for TLC: all runs on one thread, where they     *)
(* meet, or over two, for what concerns the manager as a whole.  The ids   *)
(* decrease, so that a tie in the persisted sequence favours the newer run.*)
(***************************************************************************)
EXTENDS RunManager

MCRuns2 == 1..2
MCRuns3 == 1..3
MCRuns4 == 1..4
OneThread == {1}
TwoThreads == {1, 2}
MCOneThread == [r \in Runs |-> 1]
\* The first and the last run share a thread, those between another.
MCTwoThreads == [r \in Runs |-> IF r \in {1, 4} THEN 1 ELSE 2]
MCIds == [r \in Runs |-> 10 - r]

=============================================================================
