------------------------------- MODULE MCOutbox -------------------------------
(* Small instances of Outbox for TLC. *)
EXTENDS Outbox

\* Rows 1 and 2 carry one key, 3 and 4 have none; 3 and 4 come with a checkpoint.
MCKeyOf == [r \in Rows |-> IF r \in {1, 2} THEN "k" ELSE None]

NoKeys == [r \in Rows |-> None]
=============================================================================
