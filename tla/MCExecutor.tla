----------------------------- MODULE MCExecutor -----------------------------
(***************************************************************************)
(* An instance of Executor for TLC: an entry node that fans out to two     *)
(* invocations of a second node, or ends the turn, and a second node       *)
(* that goes back to the entry; the entry may also command the second node *)
(* directly.                                                               *)
(***************************************************************************)
EXTENDS Executor

MCNodes == {1, 2}
MCEntry == 2
Fan == <<[name |-> 1, scoped |-> 1], [name |-> 1, scoped |-> 2]>>
MCRoutes ==
  [n \in MCNodes |->
     IF n = MCEntry THEN {Fan, <<>>}
     ELSE {<<[name |-> MCEntry, scoped |-> 0]>>}]
MCGotos == [n \in MCNodes |-> IF n = MCEntry THEN {<<>>, <<1>>} ELSE {<<>>}]

=============================================================================
