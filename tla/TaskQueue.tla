------------------------------- MODULE TaskQueue -------------------------------
(***************************************************************************)
(* The durable task queue of rusty-server: the task index of the JSON-file *)
(* store (server_store.rs) behind the /tasks routes, for one tenant.       *)
(*                                                                         *)
(* Every store operation runs under the one task-index lock and persists   *)
(* the record before it swaps the index, so an operation is one step and   *)
(* a server restart, which reloads the files, changes nothing.  Workers    *)
(* are the environment: any worker may send any report about any task at   *)
(* any time, late, repeated or unfounded; what the queue admits is decided *)
(* by the lease check alone.                                               *)
(***************************************************************************)
EXTENDS TaskRecord, FiniteSets

CONSTANTS
    TaskIds,         \* task ids; their order is the (created_at, task_id) order
    Submissions,     \* what enqueuers may submit
    Notices,         \* what the server itself may put in the dead-letter queue
    LeaseMs,         \* lease lengths a claim or heartbeat may ask for
    PoolLimits       \* per pool: the live-lease cap, or None for no cap

ASSUME QueueAssumption ==
    /\ TaskIds \subseteq Nat
    /\ Submissions \subseteq NewTask
    /\ Notices \subseteq {new \in NewTask : new.effect = None}
    /\ LeaseMs \subseteq Nat \ {0}
    /\ PoolLimits \in [Pools -> Nat \cup {None}]

VARIABLES
    tasks,           \* the task index: TaskIds -> Record, or NoTask
    up               \* workers still running

vars == <<tasks, up>>

NoTask == [status |-> "none"]

Present == {id \in TaskIds : tasks[id] # NoTask}

TypeOK == /\ tasks \in [TaskIds -> Record \cup {NoTask}]
          /\ up \subseteq Workers

Init == /\ tasks = [id \in TaskIds |-> NoTask]
        /\ up = Workers

-----------------------------------------------------------------------------
(***************************************************************************)
(* Submission                                                              *)
(***************************************************************************)

\* A submission whose key is already in the index, whatever became of that
\* task, answers with the task that is there and changes nothing.  The outbox
\* publishes late, so ids need not arrive in order.
enqueue_locked(id, t) ==
    /\ tasks[id] = NoTask
    /\ t.new.idempotency_key # None =>
         \A other \in Present : tasks[other].new.idempotency_key # t.new.idempotency_key
    /\ tasks' = [tasks EXCEPT ![id] = t]
    /\ UNCHANGED up

Enqueue(id, new) == enqueue_locked(id, NewRecord(new))

\* An escalation nobody accepts, or a race nobody won: a record that is born
\* dead, with only its status set.
DeadNotice(new) == [NewRecord(new) EXCEPT !.status = "dead"]

DeadLetterTask(id, new) == enqueue_locked(id, DeadNotice(new))

-----------------------------------------------------------------------------
(***************************************************************************)
(* Claiming                                                                *)
(***************************************************************************)

\* finalize_due_locked: the index after every due cancellation has landed.
finalize_due(index) ==
    [id \in TaskIds |-> IF index[id] # NoTask /\ cancellation_due(index[id])
                        THEN apply_cancellation(index[id])
                        ELSE index[id]]

live_leases(index, pool) ==
    Cardinality({id \in TaskIds : /\ index[id] # NoTask
                                  /\ index[id].new.pool = pool
                                  /\ lease_live(index[id])})

saturated(index, pool) ==
    PoolLimits[pool] # None /\ live_leases(index, pool) >= PoolLimits[pool]

\* Fault: a pool claim also takes messages addressed to an agent.
claim_candidates_AnyRecipient(index, pools, version) ==
    {id \in TaskIds : /\ index[id] # NoTask
                      /\ index[id].new.pool \in pools
                      /\ claimable_at_now(index[id])
                      /\ ~saturated(index, index[id].new.pool)
                      /\ matches_worker_version(index[id], version)}

\* The tasks a claim over these pools by a worker of this version may take.
claim_candidates(index, pools, version) ==
    {id \in TaskIds : /\ index[id] # NoTask
                      /\ index[id].new.recipient = None
                      /\ index[id].new.pool \in pools
                      /\ claimable_at_now(index[id])
                      /\ ~saturated(index, index[id].new.pool)
                      /\ matches_worker_version(index[id], version)}

\* claim_task when something is claimable: sweep, then lease the oldest.
ClaimTask(w, pools, version, lease_ms) ==
    LET swept      == finalize_due(tasks)
        candidates == claim_candidates(swept, pools, version)
    IN  /\ w \in up
        /\ \E id \in candidates :
              /\ \A other \in candidates : id <= other
              /\ tasks' = [swept EXCEPT ![id] = claim(@, w, lease_ms)]
        /\ UNCHANGED up

\* claim_task when nothing is: the sweep has still been persisted.
ClaimNothing(w, pools, version) ==
    LET swept == finalize_due(tasks)
    IN  /\ w \in up
        /\ claim_candidates(swept, pools, version) = {}
        /\ tasks' = swept
        /\ UNCHANGED up

-----------------------------------------------------------------------------
(***************************************************************************)
(* Reports of the lease holder                                             *)
(***************************************************************************)

\* mutate_task's guard: the task exists and the caller is the lease's owner,
\* expired or not.  Anyone else gets LeaseLost or Unknown and no change.
LeaseGuard(w, id) ==
    /\ w \in up
    /\ tasks[id] # NoTask
    /\ leased_to(tasks[id], w)

HeartbeatTask(w, id, lease_ms) ==
    /\ LeaseGuard(w, id)
    /\ tasks' = [tasks EXCEPT ![id] = renew_lease(@, lease_ms)]
    /\ UNCHANGED up

CompleteTask(w, id) ==
    /\ LeaseGuard(w, id)
    /\ tasks' = [tasks EXCEPT ![id] = complete(@)]
    /\ UNCHANGED up

\* The retry parameters are resolved by the route from the policy in force.
FailTask(w, id, class, retryable, schedule) ==
    /\ LeaseGuard(w, id)
    /\ \E t \in fail(tasks[id], class, retryable,
                     resolve_retry_parameters(schedule, tasks[id].new.max_attempts)) :
          tasks' = [tasks EXCEPT ![id] = t]
    /\ UNCHANGED up

-----------------------------------------------------------------------------
(***************************************************************************)
(* Operators                                                               *)
(***************************************************************************)

CancelTask(id) ==
    /\ tasks[id] # NoTask
    /\ ~is_terminal(tasks[id])
    /\ tasks' = [tasks EXCEPT ![id] = cancel(@)]
    /\ UNCHANGED up

\* cancel_run_tasks: every task of the run that is not terminal.
CancelRunTasks(run) ==
    LET targets == {id \in Present : /\ tasks[id].new.run_id = run
                                     /\ ~is_terminal(tasks[id])}
    IN  /\ targets # {}
        /\ tasks' = [id \in TaskIds |-> IF id \in targets THEN cancel(tasks[id])
                                                          ELSE tasks[id]]
        /\ UNCHANGED up

\* Fault: anything terminal can be re-driven, not only the dead.
RedriveTask_AnyTerminal(id) ==
    /\ tasks[id] # NoTask
    /\ is_terminal(tasks[id])
    /\ tasks' = [tasks EXCEPT ![id] = redrive(@)]
    /\ UNCHANGED up

RedriveTask(id) ==
    /\ tasks[id] # NoTask
    /\ tasks[id].status = "dead"
    /\ tasks' = [tasks EXCEPT ![id] = redrive(@)]
    /\ UNCHANGED up

-----------------------------------------------------------------------------
(***************************************************************************)
(* Environment: time passes and workers die.  The last worker stays, as a  *)
(* queue that nobody polls promises nothing.                               *)
(***************************************************************************)

Tick == /\ tasks' = [id \in TaskIds |-> IF tasks[id] = NoTask THEN NoTask
                                                              ELSE Elapse(tasks[id])]
        /\ UNCHANGED up

StopWorker(w) == /\ w \in up
                 /\ up # {w}
                 /\ up' = up \ {w}
                 /\ UNCHANGED tasks

-----------------------------------------------------------------------------
Claim(w) ==
    \E pools \in SUBSET Pools \ {{}}, version \in Versions \cup {None} :
        \/ \E lease_ms \in LeaseMs : ClaimTask(w, pools, version, lease_ms)
        \/ ClaimNothing(w, pools, version)

Settle(w, id) ==
    \/ CompleteTask(w, id)
    \/ \E class \in ErrorClass, retryable \in BOOLEAN, schedule \in Learned \cup {None} :
          FailTask(w, id, class, retryable, schedule)

Operation ==
    \/ \E id \in TaskIds, new \in Submissions : Enqueue(id, new)
    \/ \E id \in TaskIds, new \in Notices : DeadLetterTask(id, new)
    \/ \E w \in Workers : Claim(w)
    \/ \E w \in Workers, id \in TaskIds, lease_ms \in LeaseMs : HeartbeatTask(w, id, lease_ms)
    \/ \E w \in Workers, id \in TaskIds : Settle(w, id)
    \/ \E id \in TaskIds : CancelTask(id)
    \/ \E run \in Runs : CancelRunTasks(run)
    \/ \E id \in TaskIds : RedriveTask(id)
    \/ \E w \in Workers : StopWorker(w)

Next == Operation \/ Tick

Spec == Init /\ [][Next]_vars

\* A running holder that learns of the cancellation, or sees the deadline
\* pass, aborts the handler and reports the attempt cancelled.
ReportCancelled(w, id) ==
    /\ tasks[id] # NoTask
    /\ tasks[id].cancel_requested \/ tasks[id].deadline = 0
    /\ FailTask(w, id, "cancelled", FALSE, None)

(***************************************************************************)
(* Time passes; some running worker keeps polling (a worker busy with a    *)
(* handler does not, so nothing is assumed of each single one); a running  *)
(* holder answers a cancellation.  Nothing is assumed of handlers, which   *)
(* may run and heartbeat for ever, nor of enqueuers and operators.         *)
(***************************************************************************)
Fairness == /\ WF_vars(Tick)
            /\ WF_vars(\E w \in Workers : Claim(w))
            /\ \A w \in Workers, id \in TaskIds : WF_vars(ReportCancelled(w, id))

FairSpec == Spec /\ Fairness

-----------------------------------------------------------------------------
(***************************************************************************)
(* Properties                                                              *)
(***************************************************************************)

\* Every field agrees with the status: a lease exists exactly while a task is
\* leased, a retry is scheduled only for a failed one, only a task that was
\* claimed can have been settled by a worker, and whatever ended after being
\* submitted has a category that closes its stage barrier (a parent waits on
\* nothing else); a notice born dead has no parent and keeps its own.
CoherentRecord(t) ==
    /\ (t.lease # None) <=> (t.status = "leased")
    /\ t.next_attempt_in # None => t.status = "failed"
    /\ t.attempt = 0 => t.status \in {"queued", "cancelled", "dead"}
    /\ is_terminal(t) => \/ t.status_category \in {"done", "cancelled"}
                         \/ t.status = "dead" /\ t.attempt = 0

Coherent == \A id \in Present : CoherentRecord(tasks[id])

\* The dead-letter queue and the retry schedule hold only work that may be
\* repeated: whatever the worker's retryable flag, the error class and the
\* policy in force say, a task declared non-repeatable is in neither, and a
\* scheduled retry is within the sender's own attempt budget, also for a task
\* that was re-driven or re-claimed after lease expiry.
RetryableRecord(t) ==
    /\ t.new.effect = "nonrepeatable" => t.status # "dead" /\ t.next_attempt_in = None
    /\ t.next_attempt_in # None => t.attempt < t.new.max_attempts

RetryGates == \A id \in Present : RetryableRecord(tasks[id])

\* Nothing starts an attempt of a task that was told to stop: none follows a signalled
\* cancellation, through lease expiry, retry and re-drive alike, and none starts once
\* the whole-task deadline has passed.
StopsAttempts ==
    [][\A id \in Present :
          /\ tasks[id].cancel_requested =>
                tasks'[id].attempt = tasks[id].attempt /\ tasks'[id].cancel_requested
          /\ tasks[id].deadline = 0 =>
                /\ tasks'[id].attempt = tasks[id].attempt
                /\ tasks'[id].status = "leased" => tasks[id].status = "leased"]_vars

\* An unexpired lease is never taken over: while it runs only its owner
\* settles or renews the task and its attempt number stands still.
LiveLeaseExclusive ==
    [][\A id \in Present : lease_live(tasks[id]) =>
          /\ tasks'[id].attempt = tasks[id].attempt
          /\ tasks'[id].lease # None => tasks'[id].lease.owner = tasks[id].lease.owner]_vars

\* A signalled cancellation ends the task, whether the holder hears of it, reports
\* something else or dies, and so does a deadline, even behind older work that is
\* claimed first every time.
StopLands ==
    \A id \in TaskIds :
        (tasks[id] # NoTask /\ (tasks[id].cancel_requested \/ tasks[id].new.deadline # None))
            ~> (tasks[id] # NoTask /\ is_terminal(tasks[id]))

\* The phase of the lifecycle an index slot is in.
PhaseOf(t) ==
    CASE t = NoTask -> "absent"
      [] t # NoTask /\ t.status = "failed" /\ t.next_attempt_in # None -> "retrying"
      [] t # NoTask /\ ~(t.status = "failed" /\ t.next_attempt_in # None) -> t.status

Lifecycle == INSTANCE TaskLifecycle WITH phase <- [id \in TaskIds |-> PhaseOf(tasks[id])]

\* The queue implements the documented lifecycle: every task moves along its
\* edges only, whatever leases, sweeps, late reports and re-drives do; what has
\* completed, failed outright or been cancelled never moves again.
ImplementsLifecycle == Lifecycle!Spec

(***************************************************************************)
(* What the documentation says and the code does not do                    *)
(***************************************************************************)

\* durable-work-design.md: work that is not freely repeatable "is never
\* silently retried, in any failure mode", lease expiry included.
NonRepeatableOnce ==
    \A id \in Present : tasks[id].new.effect = "nonrepeatable" => tasks[id].attempt <= 1

\* durable-work-design.md: lease-expiry reaping is handled by "the effect gate
\* and attempt budget [...] like any other unclassified failure", so a lapsed
\* lease is handed out again only while the budget lasts.
ExpiryWithinBudget ==
    [][\A id \in Present :
          (tasks[id].status = "leased" /\ tasks'[id].attempt > tasks[id].attempt)
             => tasks[id].attempt < tasks[id].new.max_attempts]_vars

\* tasks.rs on redrive: "the next claim hands it out as one more attempt".
\* (A queued task that was attempted before is a re-driven one.)
RedriveGrantsAttempt ==
    [][(\E w \in Workers : Claim(w)) =>
         \A id \in Present :
            (tasks[id].status = "queued" /\ tasks[id].attempt > 0 /\ tasks[id].deadline = None)
               => tasks'[id].status # "cancelled"]_vars
=============================================================================
