---------------------------- MODULE MCAgentMailbox ----------------------------
(* Small instances of AgentMailbox for TLC. *)
EXTENDS AgentMailbox, TLC

Message(max) ==
    [pool |-> "agents", recipient |-> "agent:a", idempotency_key |-> None,
     effect |-> "repeatable", max_attempts |-> max, deadline |-> None, run_id |-> "r1",
     worker_version |-> None, status_category |-> "todo"]

MCMessages == {Message(2)}

MCMailboxOf == [a \in Agents |-> "agent:a"]

MCNoLimits == [p \in Pools |-> None]

Symmetry == Permutations(Workers)
=============================================================================
