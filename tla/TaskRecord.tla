------------------------------ MODULE TaskRecord ------------------------------
(***************************************************************************)
(* The durable task record of rusty-server (tasks.rs) and the retry        *)
(* classifier of rusty-core (durable.rs): pure operators, no state.        *)
(*                                                                         *)
(* Time is relative.  The code stores instants and compares every one of   *)
(* them with the `now` of the request; the model stores what is left until *)
(* the instant and lets Elapse count it down, so `instant <= now` reads    *)
(* `left = 0`.  One unit is the model's smallest lease.                    *)
(***************************************************************************)
EXTENDS Integers

CONSTANTS
    None,            \* the absent value of the code's Option fields
    Workers,         \* worker ids (and agent activation owners)
    Pools,           \* pool names
    Recipients,      \* mailbox addresses; pool work has recipient None
    Keys,            \* idempotency keys
    Runs,            \* run ids a task may be linked to
    Versions,        \* worker versions a task may be pinned to
    U32Max,          \* u32::MAX, where the attempt counter saturates
    FloorBase,       \* BASE_RETRY_DELAY_MS, in units
    FloorCap,        \* MAX_RETRY_DELAY_MS, in units
    Learned          \* retry schedules a learned policy may put in force

ASSUME NoneAssumption == /\ None \notin Nat
                         /\ None \notin Workers
                         /\ None \notin {"repeatable", "nonrepeatable"}
                         /\ None \notin [owner : Workers, expires_in : Nat]
ASSUME RetryAssumption ==
    /\ U32Max \in Nat \ {0}
    /\ FloorBase \in Nat
    /\ FloorCap \in Nat
    /\ Learned \subseteq [base_delay : Nat, max_delay : Nat, max_attempts : Nat]

Status == {"queued", "leased", "failed", "completed", "dead", "cancelled"}

\* StatusCategory: the stage barrier's view of the task.
Category == {"backlog", "todo", "in_progress", "in_review", "done", "cancelled"}

\* ErrorClass, as far as the classifier tells the classes apart.
ErrorClass == {"retryable", "invalid_input", "cancelled"}

\* Effect: the declared effect is freely repeatable (Pure, ReadOnly,
\* Idempotent), is not (Compensatable, NonIdempotent), or was not declared.
Effect == {"repeatable", "nonrepeatable", None}

Lease == [owner : Workers, expires_in : Nat]

\* What the enqueuer supplies (NewTask); max_attempts is validated to be >= 1.
NewTask == [pool : Pools, recipient : Recipients \cup {None},
            idempotency_key : Keys \cup {None}, effect : Effect,
            max_attempts : Nat \ {0}, deadline : Nat \cup {None},
            run_id : Runs \cup {None}, worker_version : Versions \cup {None},
            status_category : Category]

Record == [new : NewTask, status : Status, attempt : 0 .. U32Max,
           lease : Lease \cup {None}, next_attempt_in : Nat \cup {None},
           deadline : Nat \cup {None}, cancel_requested : BOOLEAN,
           status_category : Category]

-----------------------------------------------------------------------------
(***************************************************************************)
(* The retry classifier                                                    *)
(***************************************************************************)

is_retryable(class) == class \notin {"invalid_input", "cancelled"}

Lesser(a, b) == IF a <= b THEN a ELSE b

floor(max_attempts) ==
    [base_delay |-> FloorBase, max_delay |-> FloorCap, max_attempts |-> max_attempts]

\* A learned schedule applies whole, except that its budget only narrows the
\* task's own; without one in force the floor decides.
resolve_retry_parameters(schedule, task_max_attempts) ==
    IF schedule = None
    THEN floor(task_max_attempts)
    ELSE [schedule EXCEPT !.max_attempts = Lesser(@, task_max_attempts)]

\* The delays full jitter can draw after the given attempt: a uniform sample
\* below 1 of a doubling window that stops at the cap.
backoff_delays(attempt, resolved) ==
    LET exponent == Lesser(IF attempt = 0 THEN 0 ELSE attempt - 1, 20)
    IN  {delay \in 0 .. resolved.max_delay :
            \/ delay = 0
            \/ delay < Lesser(resolved.base_delay * 2 ^ exponent, resolved.max_delay)}

\* Fault: the attempt gate is off by one.
classify_retry_OffByOne(repeatable, class, attempt, resolved) ==
    IF ~repeatable \/ ~is_retryable(class) THEN "fail"
    ELSE IF attempt > resolved.max_attempts THEN "dead" ELSE "retry"

\* The decision of classify_retry_with_policy, without the delay.
classify_retry(repeatable, class, attempt, resolved) ==
    IF ~repeatable \/ ~is_retryable(class) THEN "fail"
    ELSE IF attempt >= resolved.max_attempts THEN "dead" ELSE "retry"

-----------------------------------------------------------------------------
(***************************************************************************)
(* Predicates on a record                                                  *)
(***************************************************************************)

\* Fault: a lease counts as lapsed one unit early.
claimable_at_now_Early(t) ==
    \/ t.status = "queued"
    \/ t.status = "failed" /\ t.next_attempt_in = 0
    \/ t.status = "leased" /\ t.lease # None /\ t.lease.expires_in <= 1

\* Fault: a lapsed lease does not make the task visible again.
claimable_at_now_NoExpiry(t) ==
    \/ t.status = "queued"
    \/ t.status = "failed" /\ t.next_attempt_in = 0

claimable_at_now(t) ==
    \/ t.status = "queued"
    \/ t.status = "failed" /\ t.next_attempt_in = 0
    \/ t.status = "leased" /\ t.lease # None /\ t.lease.expires_in = 0

is_terminal(t) ==
    \/ t.status \in {"completed", "dead", "cancelled"}
    \/ t.status = "failed" /\ t.next_attempt_in = None

leased_to(t, worker) ==
    t.status = "leased" /\ t.lease # None /\ t.lease.owner = worker

\* A lease that is not past its visibility timeout.
lease_live(t) ==
    t.status = "leased" /\ t.lease # None /\ t.lease.expires_in > 0

\* Fault: the sweep looks at deadlines only.
cancellation_due_DeadlineOnly(t) ==
    claimable_at_now(t) /\ t.deadline = 0

cancellation_due(t) ==
    claimable_at_now(t) /\ (t.cancel_requested \/ t.deadline = 0)

matches_worker_version(t, version) ==
    t.new.worker_version = None \/ t.new.worker_version = version

-----------------------------------------------------------------------------
(***************************************************************************)
(* Transitions of a record                                                 *)
(***************************************************************************)

\* TaskRecord::new.
NewRecord(new) ==
    [new |-> new, status |-> "queued", attempt |-> 0, lease |-> None,
     next_attempt_in |-> None, deadline |-> new.deadline,
     cancel_requested |-> FALSE, status_category |-> new.status_category]

\* Fault: the attempt counter does not saturate.
claim_Unsaturated(t, worker, lease_ms) ==
    [t EXCEPT !.status = "leased", !.attempt = @ + 1,
              !.lease = [owner |-> worker, expires_in |-> lease_ms],
              !.next_attempt_in = None]

claim(t, worker, lease_ms) ==
    [t EXCEPT !.status = "leased",
              !.attempt = Lesser(@ + 1, U32Max),
              !.lease = [owner |-> worker, expires_in |-> lease_ms],
              !.next_attempt_in = None]

renew_lease(t, lease_ms) ==
    [t EXCEPT !.lease = IF @ = None THEN None ELSE [@ EXCEPT !.expires_in = lease_ms]]

\* Fault: completion keeps the lease on the record.
complete_KeepsLease(t) ==
    [t EXCEPT !.status = "completed", !.status_category = "done", !.next_attempt_in = None]

complete(t) ==
    [t EXCEPT !.status = "completed", !.status_category = "done",
              !.lease = None, !.next_attempt_in = None]

apply_cancellation(t) ==
    [t EXCEPT !.status = "cancelled", !.status_category = "cancelled",
              !.lease = None, !.next_attempt_in = None]

\* Cancel a task that is not terminal: signal the holder, or end it at once.
cancel(t) ==
    IF t.status = "leased" THEN [t EXCEPT !.cancel_requested = TRUE]
                           ELSE apply_cancellation(t)

redrive(t) ==
    [t EXCEPT !.status = "queued", !.status_category = "todo",
              !.lease = None, !.next_attempt_in = None]

\* The effect gate's input: the declaration outranks the worker's flag.
repeatable_effect(t, retryable) ==
    t.new.effect = "repeatable" \/ (t.new.effect = None /\ retryable)

\* The records a failure report may leave, one per delay the jitter can draw.
fail(t, class, retryable, resolved) ==
    LET decision == classify_retry(repeatable_effect(t, retryable), class, t.attempt, resolved)
    IN  CASE decision = "retry" ->
               { [t EXCEPT !.status = "failed", !.lease = None, !.next_attempt_in = delay] :
                   delay \in backoff_delays(t.attempt, resolved) }
          [] decision = "dead" ->
               { [t EXCEPT !.status = "dead", !.lease = None, !.next_attempt_in = None,
                           !.status_category = "cancelled"] }
          [] decision = "fail" ->
               { [t EXCEPT !.status = IF class = "cancelled" THEN "cancelled" ELSE "failed",
                           !.lease = None, !.next_attempt_in = None,
                           !.status_category = "cancelled"] }

-----------------------------------------------------------------------------
\* One unit of time passes for a record's lease, backoff and deadline.
Down(left) == IF left = None \/ left = 0 THEN left ELSE left - 1

ElapseLease(lease) ==
    IF lease = None THEN None ELSE [lease EXCEPT !.expires_in = Down(@)]

Elapse(t) ==
    [t EXCEPT !.lease = ElapseLease(@),
              !.next_attempt_in = Down(@),
              !.deadline = Down(@)]
=============================================================================
