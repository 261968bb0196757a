---------------------------- MODULE TaskLifecycle ----------------------------
(***************************************************************************)
(* What the queue promises of a task, without leases, clocks, budgets or   *)
(* workers: the lifecycle drawn beside TaskStatus in tasks.rs.  A failed   *)
(* task is either waiting for its retry ("retrying") or over ("failed").   *)
(* One step of the server may move several tasks, each along one edge.     *)
(***************************************************************************)
CONSTANT TaskIds
VARIABLE phase

Phases == {"absent", "queued", "leased", "retrying", "failed",
           "completed", "dead", "cancelled"}

\* A notice of the server is born dead.  The way out of "dead" is the operator's re-drive; completed, cancelled and
\* failed outright have none.
Edges == { <<"absent", "queued">>,      <<"absent", "dead">>,
           <<"queued", "leased">>,      <<"queued", "cancelled">>,
           <<"retrying", "leased">>,    <<"retrying", "cancelled">>,
           <<"leased", "completed">>,   <<"leased", "retrying">>,
           <<"leased", "failed">>,      <<"leased", "dead">>,
           <<"leased", "cancelled">>,
           <<"dead", "queued">> }

Init == phase = [id \in TaskIds |-> "absent"]

Next == /\ phase' \in [TaskIds -> Phases]
        /\ \A id \in TaskIds : phase'[id] # phase[id] => <<phase[id], phase'[id]>> \in Edges

Spec == Init /\ [][Next]_phase
=============================================================================
