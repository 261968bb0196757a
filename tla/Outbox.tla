-------------------------------- MODULE Outbox --------------------------------
(***************************************************************************)
(* Task submission on the JSON-file backend: the quota gate of the submit  *)
(* routes, the outbox rows, the checkpoint that commits with them, and the *)
(* relay that publishes rows into the task queue (outbox.rs, the outbox    *)
(* operations of server_store.rs, enforce_task_quota in routes.rs).        *)
(*                                                                         *)
(* Each file write is a step.  A record is persisted by rename before the  *)
(* index is swapped and a crash forgets the index, so row and task stand   *)
(* for file and index at once; what a crash loses is where the relay, the  *)
(* checkpoint writer and the submitters were.  The task itself is reduced  *)
(* to queued, leased, settled; its lease and retries are TaskQueue's.      *)
(***************************************************************************)
EXTENDS Integers, FiniteSets

CONSTANTS
    None,
    Rows,            \* task ids; their order is the rows' (created_at, id) order
    KeyOf,           \* per row: the task's idempotency key, or None
    CheckpointRows,  \* the rows one checkpoint (or journal) is written with
    BatchLimit,      \* RELAY_BATCH_LIMIT
    MaxQueued,       \* the tenant's quota: backlog
    MaxInFlight,     \* and leased tasks
    MaxFaults        \* bound on crashes and failed writes

ASSUME OutboxAssumption ==
    /\ Rows \subseteq Nat
    /\ CheckpointRows \subseteq Rows
    /\ BatchLimit \in Nat \ {0}
    /\ MaxQueued \in Nat /\ MaxInFlight \in Nat /\ MaxFaults \in Nat

VARIABLES
    row,             \* per id: the outbox row, "none", "pending" or "published"
    task,            \* per id: the queue's record, "none", "queued", "leased", "settled"
    checkpoint,      \* the checkpoint has been written
    submit,          \* per id: where its submitter is
    writer,          \* where the checkpoint writer is
    relay,           \* [pc, todo]: the publish pass under way
    executed,        \* per id: how often a worker settled the task
    faults           \* crashes and failed writes so far

vars == <<row, task, checkpoint, submit, writer, relay, executed, faults>>

IdleRelay == [pc |-> "idle", todo |-> {}]

TypeOK ==
    /\ row \in [Rows -> {"none", "pending", "published"}]
    /\ task \in [Rows -> {"none", "queued", "leased", "settled"}]
    /\ checkpoint \in BOOLEAN
    /\ submit \in [Rows -> {"idle", "admitted", "accepted"}]
    /\ writer \in {"idle", "admitted", "rows", "checkpoint", "done"}
    /\ relay \in [pc : {"idle", "enqueue", "mark"}, todo : SUBSET Rows]
    /\ relay.pc = "idle" <=> relay.todo = {}
    /\ executed \in [Rows -> 0 .. 2]
    /\ faults \in 0 .. MaxFaults

Init ==
    /\ row = [r \in Rows |-> "none"]
    /\ task = [r \in Rows |-> "none"]
    /\ checkpoint = FALSE
    /\ submit = [r \in Rows |-> "idle"]
    /\ writer = "idle"
    /\ relay = IdleRelay
    /\ executed = [r \in Rows |-> 0]
    /\ faults = 0

-----------------------------------------------------------------------------
\* task_usage: accepted and not yet leased, pending rows included.
Backlog == Cardinality({r \in Rows : task[r] = "queued"})
           + Cardinality({r \in Rows : row[r] = "pending"})

InFlight == Cardinality({r \in Rows : task[r] = "leased"})

\* enforce_task_quota
WithinQuota(additional) == Backlog + additional <= MaxQueued /\ InFlight < MaxInFlight

\* The outbox lock is free: the relay holds it for a whole pass, the checkpoint
\* writer while it writes its rows.  The task lock is the relay's too.
OutboxFree == relay.pc = "idle" /\ writer # "rows"
TasksFree  == relay.pc = "idle"

\* A task with the row's id or, when it has one, the row's key.
SameTask(r, s) == r = s \/ (KeyOf[r] # None /\ KeyOf[r] = KeyOf[s])

\* Fault: the dedupe overlooks tasks that have ended.
Deduplicated_LiveOnly(r) ==
    KeyOf[r] # None /\ \E s \in Rows : task[s] \in {"queued", "leased"} /\ KeyOf[s] = KeyOf[r]

\* enqueue_locked finds the key in the index; the id alone is not looked up.
Deduplicated(r) == KeyOf[r] # None /\ \E s \in Rows : task[s] # "none" /\ KeyOf[s] = KeyOf[r]

EnqueueLocked(r) ==
    task' = IF Deduplicated(r) THEN task ELSE [task EXCEPT ![r] = "queued"]

-----------------------------------------------------------------------------
(***************************************************************************)
(* Submitters: the quota gate and the write are two calls of the store.    *)
(***************************************************************************)

Admit(r) ==
    /\ r \notin CheckpointRows
    /\ submit[r] = "idle"
    /\ OutboxFree
    /\ WithinQuota(1)
    /\ submit' = [submit EXCEPT ![r] = "admitted"]
    /\ UNCHANGED <<row, task, checkpoint, writer, relay, executed, faults>>

\* POST /tasks: straight into the queue.
EnqueueTask(r) ==
    /\ submit[r] = "admitted"
    /\ TasksFree
    /\ EnqueueLocked(r)
    /\ submit' = [submit EXCEPT ![r] = "accepted"]
    /\ UNCHANGED <<row, checkpoint, writer, relay, executed, faults>>

\* POST /tasks/outbox: outbox_enqueue.  Every submission has an id of its own.
OutboxEnqueue(r) ==
    /\ submit[r] = "admitted"
    /\ OutboxFree
    /\ row' = [row EXCEPT ![r] = "pending"]
    /\ submit' = [submit EXCEPT ![r] = "accepted"]
    /\ UNCHANGED <<task, checkpoint, writer, relay, executed, faults>>

-----------------------------------------------------------------------------
(***************************************************************************)
(* checkpoint_and_enqueue and journal_and_enqueue: rows first, under the   *)
(* outbox lock, one file each; then the checkpoint.  A drive that failed   *)
(* may be repeated and skips the rows that are there.                      *)
(***************************************************************************)

WriterAdmit ==
    /\ writer = "idle"
    /\ CheckpointRows # {}
    /\ OutboxFree
    /\ WithinQuota(Cardinality(CheckpointRows))
    /\ writer' = "admitted"
    /\ UNCHANGED <<row, task, checkpoint, submit, relay, executed, faults>>

WriterLock ==
    /\ writer = "admitted"
    /\ OutboxFree
    /\ writer' = "rows"
    /\ UNCHANGED <<row, task, checkpoint, submit, relay, executed, faults>>

WriterRow(r) ==
    /\ writer = "rows"
    /\ r \in CheckpointRows
    /\ row[r] = "none"
    /\ row' = [row EXCEPT ![r] = "pending"]
    /\ UNCHANGED <<task, checkpoint, submit, writer, relay, executed, faults>>

\* Fault: the writer moves on after its first row.
WriterRowsDone_Early ==
    /\ writer = "rows"
    /\ \E r \in CheckpointRows : row[r] # "none"
    /\ writer' = "checkpoint"
    /\ UNCHANGED <<row, task, checkpoint, submit, relay, executed, faults>>

WriterRowsDone ==
    /\ writer = "rows"
    /\ \A r \in CheckpointRows : row[r] # "none"
    /\ writer' = "checkpoint"
    /\ UNCHANGED <<row, task, checkpoint, submit, relay, executed, faults>>

WriterCheckpoint ==
    /\ writer = "checkpoint"
    /\ checkpoint' = TRUE
    /\ writer' = "done"
    /\ UNCHANGED <<row, task, submit, relay, executed, faults>>

-----------------------------------------------------------------------------
(***************************************************************************)
(* The relay: outbox_publish_pending, both locks held for the whole pass.  *)
(***************************************************************************)

Pending == {r \in Rows : row[r] = "pending"}

\* The oldest pending rows, at most a batch of them.
Batch == {r \in Pending : Cardinality({s \in Pending : s < r}) < BatchLimit}

IsOldest(r, rows) == r \in rows /\ \A s \in rows : r <= s

RelayStart ==
    /\ OutboxFree
    /\ Pending # {}
    /\ relay' = [pc |-> "enqueue", todo |-> Batch]
    /\ UNCHANGED <<row, task, checkpoint, submit, writer, executed, faults>>

RelayEnqueue(r) ==
    /\ relay.pc = "enqueue"
    /\ IsOldest(r, relay.todo)
    /\ EnqueueLocked(r)
    /\ relay' = [relay EXCEPT !.pc = "mark"]
    /\ UNCHANGED <<row, checkpoint, submit, writer, executed, faults>>

\* Fault: the whole batch is marked after its first row.
RelayMark_WholeBatch(r) ==
    /\ relay.pc = "mark"
    /\ IsOldest(r, relay.todo)
    /\ row' = [s \in Rows |-> IF s \in relay.todo THEN "published" ELSE row[s]]
    /\ relay' = IdleRelay
    /\ UNCHANGED <<task, checkpoint, submit, writer, executed, faults>>

RelayMark(r) ==
    /\ relay.pc = "mark"
    /\ IsOldest(r, relay.todo)
    /\ row' = [row EXCEPT ![r] = "published"]
    /\ relay' = IF relay.todo = {r} THEN IdleRelay
                ELSE [pc |-> "enqueue", todo |-> relay.todo \ {r}]
    /\ UNCHANGED <<task, checkpoint, submit, writer, executed, faults>>

-----------------------------------------------------------------------------
(***************************************************************************)
(* Workers (TaskQueue, reduced) and faults                                 *)
(***************************************************************************)

Claim(r) ==
    /\ TasksFree
    /\ task[r] = "queued"
    /\ task' = [task EXCEPT ![r] = "leased"]
    /\ UNCHANGED <<row, checkpoint, submit, writer, relay, executed, faults>>

Complete(r) ==
    /\ TasksFree
    /\ task[r] = "leased"
    /\ executed[r] < 2
    /\ task' = [task EXCEPT ![r] = "settled"]
    /\ executed' = [executed EXCEPT ![r] = @ + 1]
    /\ UNCHANGED <<row, checkpoint, submit, writer, relay, faults>>

\* Fault: a row whose write failed is skipped instead of tried again.
RelayIoError_Skips ==
    /\ faults < MaxFaults
    /\ relay.pc \in {"enqueue", "mark"}
    /\ row' = [r \in Rows |-> IF IsOldest(r, relay.todo) THEN "published" ELSE row[r]]
    /\ relay' = IdleRelay
    /\ faults' = faults + 1
    /\ UNCHANGED <<task, checkpoint, submit, writer, executed>>

\* A failed write ends the pass with an error; the next tick tries again.
RelayIoError ==
    /\ faults < MaxFaults
    /\ relay.pc \in {"enqueue", "mark"}
    /\ relay' = IdleRelay
    /\ faults' = faults + 1
    /\ UNCHANGED <<row, task, checkpoint, submit, writer, executed>>

\* A failed write fails the whole call; the caller may drive again.
WriterIoError ==
    /\ faults < MaxFaults
    /\ writer \in {"rows", "checkpoint"}
    /\ writer' = "idle"
    /\ faults' = faults + 1
    /\ UNCHANGED <<row, task, checkpoint, submit, relay, executed>>

\* The server dies and starts again from its files.
Crash ==
    /\ faults < MaxFaults
    /\ relay' = IdleRelay
    /\ writer' = IF writer = "done" THEN "done" ELSE "idle"
    /\ submit' = [r \in Rows |-> IF submit[r] = "admitted" THEN "idle" ELSE submit[r]]
    /\ faults' = faults + 1
    /\ UNCHANGED <<row, task, checkpoint, executed>>

-----------------------------------------------------------------------------
RelayStep  == RelayStart \/ \E r \in Rows : RelayEnqueue(r) \/ RelayMark(r)
WriterStep == WriterLock \/ (\E r \in Rows : WriterRow(r)) \/ WriterRowsDone \/ WriterCheckpoint

Next ==
    \/ \E r \in Rows : Admit(r) \/ EnqueueTask(r) \/ OutboxEnqueue(r)
    \/ WriterAdmit
    \/ WriterStep
    \/ RelayStep
    \/ \E r \in Rows : Claim(r) \/ Complete(r)
    \/ RelayIoError
    \/ WriterIoError
    \/ Crash

Spec == Init /\ [][Next]_vars

\* The relay ticks for ever, the checkpoint writer runs on, workers poll and
\* settle; nobody is obliged to submit.
FairSpec == /\ Spec
            /\ WF_vars(RelayStep)
            /\ WF_vars(WriterStep)
            /\ \A r \in Rows : WF_vars(Claim(r)) /\ WF_vars(Complete(r))

-----------------------------------------------------------------------------
(***************************************************************************)
(* Properties                                                              *)
(***************************************************************************)

\* An accepted submission is never lost: from the answer on, through crashes
\* and failed writes at any point of a pass, there is a pending row for it or
\* a task with its id or key, and a published row has such a task.
InQueue(r) == \E s \in Rows : SameTask(r, s) /\ task[s] # "none"

NothingLost ==
    /\ TypeOK
    /\ \A r \in Rows : /\ submit[r] = "accepted" => row[r] = "pending" \/ InQueue(r)
                       /\ row[r] = "published" => InQueue(r)

\* A checkpoint is never on disk without the rows it was written with: no crash
\* leaves state saved and its tasks gone.
CheckpointHasRows == checkpoint => \A r \in CheckpointRows : row[r] # "none"

\* However often a pass is interrupted and repeated, and however many
\* submissions carry the same key, the work of one idempotency key is executed
\* once.
KeyedOnce ==
    \A r, s \in Rows : (KeyOf[r] # None /\ SameTask(r, s) /\ executed[r] > 0 /\ executed[s] > 0)
                          => r = s /\ executed[r] = 1

\* Every accepted submission is eventually executed, whatever went wrong on
\* the way.
AcceptedExecuted ==
    \A r \in Rows : (submit[r] = "accepted" \/ row[r] = "pending")
                       ~> (\E s \in Rows : SameTask(r, s) /\ executed[s] > 0)

(***************************************************************************)
(* What the documentation says and the code does not do                    *)
(***************************************************************************)

\* outbox.rs: "a relay that dies and restarts can neither lose nor double a
\* row"; for every row, also one whose task has no idempotency key.
RowNotDoubled == \A r \in Rows : executed[r] <= 1

\* lib.rs on the quota: "A submission that would push the backlog past the cap
\* is rejected."
BacklogWithinQuota == Backlog <= MaxQueued
=============================================================================
