----------------------------- MODULE MCTaskQueue -----------------------------
(* Small instances of TaskQueue for TLC. *)
EXTENDS TaskQueue

Submission(pool, key, effect, max, deadline, run, version, category) ==
    [pool |-> pool, recipient |-> None, idempotency_key |-> key, effect |-> effect,
     max_attempts |-> max, deadline |-> deadline, run_id |-> run,
     worker_version |-> version, status_category |-> category]

\* An escalation nobody accepted.
MCNotices == { Submission("io", "esc", None, 2, None, None, None, "todo") }

\* Liveness instance: a deadline; a keyed task anyone may retry.
MCLiveSubmissions ==
    { Submission("io", None, None, 2, 1, None, None, "todo"),
      Submission("io", "k1", "repeatable", 1, None, "r1", None, "todo") }

MCNoLimits == [p \in Pools |-> None]

MCPlainSubmissions ==
    { Submission("io", None, "nonrepeatable", 1, None, None, None, "todo"),
      Submission("io", None, "repeatable", 1, None, None, None, "todo") }
=============================================================================
