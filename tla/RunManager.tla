------------------------------ MODULE RunManager ------------------------------
(***************************************************************************)
(* The run manager of rusty-server (runs.rs, pending_runs.rs): one active  *)
(* run per thread, a FIFO of waiting runs per thread, the durable record   *)
(* kept for each waiting run, cancellation, drain, restart and the replay  *)
(* of surviving records, and the eviction of old terminal runs.            *)
(*                                                                         *)
(* RunManagerInner sits behind one mutex, so what a method does under it   *)
(* is one step; every await between two lock or store calls separates two  *)
(* steps.  The terminal statuses (success, interrupted, error, cancelled)  *)
(* are one value: nothing here tells them apart.                           *)
(***************************************************************************)
EXTENDS Integers, Sequences, FiniteSets

CONSTANTS
  Runs,        \* the submissions, numbered in the order insert serves them
  Threads,     \* thread ids
  thread_id,   \* the thread each run is submitted to
  run_id,      \* the id minted for each run: random, known only by its order
  QueueCap,    \* ServerConfig::max_concurrent_runs_per_thread
  MaxRetained, \* MAX_RETAINED_RUNS
  MaxRestarts, \* bound: how often the process dies and boots
  MaxFaults,   \* bound: store calls that fail
  MaxCancels,  \* bound: cancellation requests
  None

ASSUME RunAssumption ==
  /\ Runs \subseteq Nat /\ IsFiniteSet(Runs)
  /\ thread_id \in [Runs -> Threads]
  /\ run_id \in [Runs -> Nat]
  /\ \A r, q \in Runs : run_id[r] = run_id[q] => r = q
  /\ QueueCap \in Nat
  /\ MaxRetained \in Nat
  /\ MaxRestarts \in Nat
  /\ MaxFaults \in Nat
  /\ MaxCancels \in Nat
  /\ None \notin Nat
  /\ None \notin Threads

VARIABLES
  runs,       \* RunManagerInner::runs, the handle of each run or None
  active,     \* RunManagerInner::active_by_thread
  queues,     \* RunManagerInner::queues
  order,      \* RunManagerInner::order
  queue_seq,  \* RunManagerInner::queue_seq
  task,       \* what the task driving each active run does next
  draining,   \* the shutdown token has fired
  submit,     \* where the schedule() call of each run stands
  cancel,     \* the cancellation request being served, or None
  restore,    \* restore_pending_runs: what it still has to do
  records,    \* durable: the seq of each run's pending-run record, or None
  journals,   \* durable: the runs with a journal in the store
  told,       \* history: runs whose caller was told they were dequeued
  restarts,   \* counted against MaxRestarts
  faults,     \* counted against MaxFaults
  cancels     \* counted against MaxCancels

memory == <<runs, active, queues, order, queue_seq, task, draining>>
durable == <<records, journals>>
bounds == <<restarts, faults, cancels>>
vars == <<memory, durable, told, bounds, submit, cancel, restore>>

-----------------------------------------------------------------------------
(* State *)

Status == {"pending", "running", "terminal"}

\* A handle: its status and whether its cancellation token fired.
Handle == [status: Status, token: BOOLEAN]

\* "clear": promoted, its record still to be cleared before it is spawned;
\* "promote" and "release": ended, about to call finish with draining unset or set.
TaskStage == {"none", "clear", "execute", "promote", "release"}

\* schedule(): "insert" past the drain check, "persist" queued in memory, "check"
\* record written, "sweep" found no longer pending, "undo" record not written;
\* "queued" answered as waiting, "answered" as started or refused; "lost" when the process died first.
\* seq is the stamp that goes into the record.
Submission ==
  [stage: {"none", "insert", "persist", "check", "sweep", "undo",
           "answered", "queued", "lost"},
   seq: Nat]

CancelRequest ==
  [todo: Seq([run: Runs, was: {"named", "active", "queued"}]),
   signalled: SUBSET Runs, cancelled: SUBSET Runs,
   clear: SUBSET Runs, fired: SUBSET Runs]

\* "boot": the records are not listed yet; "next": between two records;
\* "insert": cur has no journal; "start": cur got its slot and is being spawned.
RestoreState ==
  [stage: {"boot", "next", "insert", "start"},
   todo: SUBSET [run: Runs, seq: Nat],
   depth: [Threads -> Nat],
   cur: Runs \cup {None}]

ASSUME NoneAssumption == None \notin Handle /\ None \notin CancelRequest

NoneLeft == [stage |-> "next", todo |-> {}, depth |-> [t \in Threads |-> 0], cur |-> None]

Booting == [NoneLeft EXCEPT !.stage = "boot"]

\* The state of the restore once it is done with a record; the last one ends it.
Done(s) ==
  IF s.todo = {} THEN NoneLeft ELSE [s EXCEPT !.stage = "next", !.cur = None]

\* The first process, once it has found no record to restore.
Init ==
  /\ runs = [r \in Runs |-> None]
  /\ active = [t \in Threads |-> None]
  /\ queues = [t \in Threads |-> <<>>]
  /\ order = <<>>
  /\ queue_seq = 0
  /\ task = [r \in Runs |-> "none"]
  /\ draining = FALSE
  /\ submit = [r \in Runs |-> [stage |-> "none", seq |-> 0]]
  /\ cancel = None
  /\ restore = NoneLeft
  /\ records = [r \in Runs |-> None]
  /\ journals = {}
  /\ told = {}
  /\ restarts = 0
  /\ faults = 0
  /\ cancels = 0

Known(r) == runs[r] # None
HasStatus(r, s) == Known(r) /\ runs[r].status = s

StoreFails ==
  /\ faults < MaxFaults
  /\ faults' = faults + 1

\* Fault: the run keeps its place.
queue_without_Kept(r) == queues

\* The elements of s that are in kept, in their order.
retain(s, kept) ==
  LET at == {i \in DOMAIN s : s[i] \in kept}
      nth(n) == CHOOSE i \in at : Cardinality({j \in at : j <= i}) = n
  IN [n \in 1..Cardinality(at) |-> s[nth(n)]]

\* What is left of the queues when r is taken out of its own.
queue_without(r) == [queues EXCEPT ![thread_id[r]] = retain(@, Runs \ {r})]

\* clear_pending_record: a failed delete is logged and forgotten.
clear_pending_record(r) ==
  \/ records' = [records EXCEPT ![r] = None] /\ UNCHANGED faults
  \/ records[r] # None /\ UNCHANGED records /\ StoreFails

-----------------------------------------------------------------------------
(* insert *)

\* Fault: the slot of the thread is not looked up.
busy_Never(r) == FALSE

busy(r) == active[thread_id[r]] # None

\* What insert does before it decides, refusals included.
Stamp(r) ==
  /\ queue_seq' = queue_seq + 1
  /\ order' = Append(order, r)

InsertStarted(r) ==
  /\ ~busy(r)
  /\ Stamp(r)
  /\ active' = [active EXCEPT ![thread_id[r]] = r]
  /\ runs' = [runs EXCEPT ![r] = [status |-> "running", token |-> FALSE]]
  /\ UNCHANGED queues

InsertQueued(r, queue_cap) ==
  /\ busy(r)
  /\ Len(queues[thread_id[r]]) < queue_cap
  /\ Stamp(r)
  /\ queues' = [queues EXCEPT ![thread_id[r]] = Append(@, r)]
  /\ runs' = [runs EXCEPT ![r] = [status |-> "pending", token |-> FALSE]]
  /\ UNCHANGED active

InsertRefused(r, strategy, queue_cap) ==
  /\ busy(r)
  /\ strategy = "reject" \/ Len(queues[thread_id[r]]) >= queue_cap
  /\ Stamp(r)
  /\ UNCHANGED <<runs, active, queues>>

-----------------------------------------------------------------------------
(* schedule *)

At(r, stage) == submit[r].stage = stage
Goto(r, stage) == submit' = [submit EXCEPT ![r].stage = stage]

\* The numbering of runs: those before r are past these stages.
Earlier(r, stages) == \A q \in Runs : q < r => submit[q].stage \notin stages

Schedule(r) ==
  /\ At(r, "none")
  /\ Earlier(r, {"none"})
  /\ ~draining
  /\ Goto(r, "insert")
  /\ UNCHANGED <<memory, durable, told, bounds, cancel, restore>>

ScheduleInsert(r, strategy) ==
  /\ At(r, "insert")
  /\ Earlier(r, {"none", "insert"})
  /\ \/ /\ InsertStarted(r)
        /\ task' = [task EXCEPT ![r] = "execute"]
        /\ Goto(r, "answered")
     \/ /\ strategy = "enqueue"
        /\ InsertQueued(r, QueueCap)
        /\ submit' = [submit EXCEPT ![r] = [stage |-> "persist", seq |-> queue_seq']]
        /\ UNCHANGED task
     \/ /\ InsertRefused(r, strategy, QueueCap)
        /\ Goto(r, "answered")
        /\ UNCHANGED task
  /\ UNCHANGED <<draining, durable, told, bounds, cancel, restore>>

\* put_pending_run.
SchedulePersist(r) ==
  /\ At(r, "persist")
  /\ \/ /\ records' = [records EXCEPT ![r] = submit[r].seq]
        /\ Goto(r, "check")
        /\ UNCHANGED faults
     \/ /\ StoreFails
        /\ Goto(r, "undo")
        /\ UNCHANGED records
  /\ UNCHANGED <<memory, journals, told, restarts, cancels, cancel, restore>>

\* remove_queued: a run promoted or cancelled in the meantime is left alone.
ScheduleUndo(r) ==
  /\ At(r, "undo")
  /\ Goto(r, "answered")
  /\ IF HasStatus(r, "pending")
     THEN /\ queues' = queue_without(r)
          /\ runs' = [runs EXCEPT ![r] = None]
          /\ order' = retain(order, Runs \ {r})
     ELSE UNCHANGED <<queues, runs, order>>
  /\ UNCHANGED <<active, queue_seq, task, draining, durable, told, bounds, cancel, restore>>

\* Fault: the straggler check is missing.
ScheduleCheck_Skipped(r) ==
  /\ At(r, "check")
  /\ Goto(r, "queued")
  /\ UNCHANGED <<memory, durable, told, bounds, cancel, restore>>

\* Fault: the check is the wrong way round.
ScheduleCheck_Inverted(r) ==
  /\ At(r, "check")
  /\ Goto(r, IF HasStatus(r, "pending") THEN "sweep" ELSE "queued")
  /\ UNCHANGED <<memory, durable, told, bounds, cancel, restore>>

\* A promotion or a cancellation may have outrun the write.
ScheduleCheck(r) ==
  /\ At(r, "check")
  /\ Goto(r, IF HasStatus(r, "pending") THEN "queued" ELSE "sweep")
  /\ UNCHANGED <<memory, durable, told, bounds, cancel, restore>>

ScheduleSweep(r) ==
  /\ At(r, "sweep")
  /\ clear_pending_record(r)
  /\ Goto(r, "queued")
  /\ UNCHANGED <<memory, journals, told, restarts, cancels, cancel, restore>>

-----------------------------------------------------------------------------
(* execute and terminate *)

\* terminate and restore_one: clear the record of the promoted run, then spawn it.
SpawnPromoted(r) ==
  /\ task[r] = "clear"
  /\ clear_pending_record(r)
  /\ task' = [task EXCEPT ![r] = "execute"]
  /\ restore' = IF restore.stage = "start" /\ restore.cur = r
                THEN Done(restore) ELSE restore
  /\ UNCHANGED <<runs, active, queues, order, queue_seq, draining,
                 journals, told, restarts, cancels, submit, cancel>>

\* forward_events flushes the journal at a checkpoint boundary.
FlushJournal(r) ==
  /\ task[r] = "execute"
  /\ journals' = journals \cup {r}
  /\ UNCHANGED <<memory, records, told, bounds, submit, cancel, restore>>

\* The run ends.  The last flush is best effort, and the early error returns
\* and a panic never reach it.  terminate then reads the drain token.
EndRun(r) ==
  /\ task[r] = "execute"
  /\ journals' \in {journals, journals \cup {r}}
  /\ task' = [task EXCEPT ![r] = IF draining THEN "release" ELSE "promote"]
  /\ UNCHANGED <<runs, active, queues, order, queue_seq, draining,
                 records, told, bounds, submit, cancel, restore>>

\* Fault: the slot is freed and nobody is promoted.
next_queued_Nobody(r) == None

\* The first run waiting behind r.
next_queued(r) ==
  IF task[r] = "promote" /\ queues[thread_id[r]] # <<>>
  THEN Head(queues[thread_id[r]]) ELSE None

Evictable(handles, r) == handles[r] # None /\ handles[r].status = "terminal"

Retained(handles) == {r \in Runs : handles[r] # None}

excess(handles) ==
  LET n == Cardinality(Retained(handles)) IN
  IF n > MaxRetained THEN n - MaxRetained ELSE 0

\* Fault: the loop stops at the first run that may not be evicted.
EvictionScan_StopsEarly(handles) ==
  LET blocked == {n \in 1..Len(order) : ~Evictable(handles, order[n])}
      free == IF blocked = {} THEN Len(order)
              ELSE (CHOOSE n \in blocked : \A m \in blocked : n <= m) - 1
  IN IF excess(handles) < free THEN excess(handles) ELSE free

\* How many entries of order the eviction loop pops: up to the one that makes
\* the excess zero, or all of them.
EvictionScan(handles) ==
  LET evictable(n) == Cardinality({i \in 1..n : Evictable(handles, order[i])})
      enough == {n \in 0..Len(order) : evictable(n) >= excess(handles)}
  IN IF enough = {} THEN Len(order) ELSE CHOOSE n \in enough : \A m \in enough : n <= m

\* Evicted runs leave; the others that were popped go to the back.
Evict(handles) ==
  LET scanned == SubSeq(order, 1, EvictionScan(handles))
      popped == {scanned[i] : i \in DOMAIN scanned}
  IN /\ runs' = [r \in Runs |-> IF r \in popped /\ Evictable(handles, r) THEN None ELSE handles[r]]
     /\ order' = SubSeq(order, Len(scanned) + 1, Len(order))
                   \o retain(scanned, {r \in Runs : ~Evictable(handles, r)})

\* finish: the slot goes to the next run of the queue, unless terminate saw the drain.
Finish(r) ==
  /\ task[r] \in {"promote", "release"}
  /\ LET t == thread_id[r]
         next == next_queued(r)
         released == IF active[t] = r THEN None ELSE active[t]
         handles == [runs EXCEPT ![r].status = "terminal"]
     IN /\ active' = [active EXCEPT ![t] = IF next = None THEN released ELSE next]
        /\ queues' = [queues EXCEPT ![t] = IF next = None THEN @ ELSE Tail(@)]
        /\ task' = [q \in Runs |-> IF q = next THEN "clear" ELSE IF q = r THEN "none" ELSE task[q]]
        /\ Evict([q \in Runs |-> IF q = next /\ handles[q] # None
                                 THEN [handles[q] EXCEPT !.status = "running"] ELSE handles[q]])
  /\ UNCHANGED <<queue_seq, draining, durable, told, bounds, submit, cancel, restore>>

-----------------------------------------------------------------------------
(* Cancellation *)

NewCancel(todo) ==
  [todo |-> todo, signalled |-> {}, cancelled |-> {}, clear |-> {}, fired |-> {}]

\* runs::cancel_run of a run the manager knows.
CancelRun(r) ==
  /\ cancel = None
  /\ cancels < MaxCancels
  /\ cancels' = cancels + 1
  /\ Known(r)
  /\ cancel' = NewCancel(<<[run |-> r, was |-> "named"]>>)
  /\ UNCHANGED <<memory, durable, told, restarts, faults, submit, restore>>

\* The active run of a thread, then the waiting ones.
thread_runs(t) ==
  (IF active[t] = None THEN <<>> ELSE <<[run |-> active[t], was |-> "active"]>>)
    \o [i \in DOMAIN queues[t] |-> [run |-> queues[t][i], was |-> "queued"]]

\* runs::cancel_thread_runs reads the active run and the queue under one lock.
CancelThreadRuns(t) ==
  /\ cancel = None
  /\ cancels < MaxCancels
  /\ cancels' = cancels + 1
  /\ thread_runs(t) # <<>>
  /\ cancel' = NewCancel(thread_runs(t))
  /\ UNCHANGED <<memory, durable, told, restarts, faults, submit, restore>>

\* RunManager::cancel_run, once per run of the request under a lock of its own.
\* A thread's cancellation lists the active run only if it was signalled and a
\* queued one only if it was dequeued.
CancelNext ==
  /\ cancel # None
  /\ cancel.todo # <<>>
  /\ LET r == Head(cancel.todo).run
         was == Head(cancel.todo).was
         rest == [cancel EXCEPT !.todo = Tail(@)]
     IN \/ /\ HasStatus(r, "running")
           /\ runs' = [runs EXCEPT ![r].token = TRUE]
           /\ cancel' = [rest EXCEPT !.fired = @ \cup {r},
                                     !.signalled = IF was = "queued" THEN @ ELSE @ \cup {r}]
           /\ UNCHANGED queues
        \/ /\ HasStatus(r, "pending")
           /\ runs' = [runs EXCEPT ![r].status = "terminal"]
           /\ queues' = queue_without(r)
           /\ cancel' = IF was = "active" THEN rest
                        ELSE [rest EXCEPT !.cancelled = @ \cup {r}, !.clear = @ \cup {r}]
        \/ /\ ~HasStatus(r, "running") /\ ~HasStatus(r, "pending")
           /\ cancel' = rest
           /\ UNCHANGED <<runs, queues>>
  /\ UNCHANGED <<active, order, queue_seq, task, draining, durable, told, bounds, submit, restore>>

CancelClear(r) ==
  /\ cancel # None
  /\ cancel.todo = <<>>
  /\ r \in cancel.clear
  /\ clear_pending_record(r)
  /\ cancel' = [cancel EXCEPT !.clear = @ \ {r}]
  /\ UNCHANGED <<memory, journals, told, restarts, cancels, submit, restore>>

CancelAnswer ==
  /\ cancel # None
  /\ cancel.todo = <<>>
  /\ cancel.clear = {}
  /\ told' = told \cup cancel.cancelled
  /\ cancel' = None
  /\ UNCHANGED <<memory, durable, bounds, submit, restore>>

-----------------------------------------------------------------------------
(* Drain, restart and restore *)

Drain ==
  /\ ~draining
  /\ restarts < MaxRestarts
  /\ draining' = TRUE
  /\ UNCHANGED <<runs, active, queues, order, queue_seq, task,
                 durable, told, bounds, submit, cancel, restore>>

\* The process dies, or exits at the end of its drain, and boots again.
Restart ==
  /\ restarts < MaxRestarts
  /\ restarts' = restarts + 1
  /\ runs' = [r \in Runs |-> None]
  /\ active' = [t \in Threads |-> None]
  /\ queues' = [t \in Threads |-> <<>>]
  /\ order' = <<>>
  /\ queue_seq' = 0
  /\ task' = [r \in Runs |-> "none"]
  /\ draining' = FALSE
  /\ submit' = [r \in Runs |->
       IF submit[r].stage \in {"none", "answered", "queued"}
       THEN submit[r] ELSE [stage |-> "lost", seq |-> 0]]
  /\ cancel' = None
  /\ restore' = Booting
  /\ UNCHANGED <<durable, told, faults, cancels>>

Pending == {r \in Runs : records[r] # None}

\* restore_pending_runs: list the records, unless draining or the listing fails.
RestoreList ==
  /\ restore.stage = "boot"
  /\ \/ /\ ~draining
        /\ restore' = Done([restore EXCEPT
             !.todo = {[run |-> r, seq |-> records[r]] : r \in Pending},
             !.depth = [t \in Threads |-> Cardinality({r \in Pending : thread_id[r] = t})]])
        /\ UNCHANGED faults
     \/ /\ draining
        /\ restore' = NoneLeft
        /\ UNCHANGED faults
     \/ /\ StoreFails
        /\ restore' = NoneLeft
  /\ UNCHANGED <<memory, durable, told, restarts, cancels, submit, cancel>>

\* Fault: records are replayed by run id alone.
before_ById(a, b) == run_id[a.run] < run_id[b.run]

\* pending_runs::sort within a thread.  The order between threads is immaterial.
before(a, b) == a.seq < b.seq \/ (a.seq = b.seq /\ run_id[a.run] < run_id[b.run])

FirstOfThread(a) ==
  \A b \in restore.todo : thread_id[b.run] = thread_id[a.run] /\ b # a => before(a, b)

\* Fault: the dedupe against the journal is missing.
already_ran_Never(r) == FALSE

already_ran(r) == r \in journals

\* restore_one up to the journal read: a run that executed is cleared, a run
\* whose journal cannot be read is left for the next boot.
RestoreCheck(a) ==
  /\ restore.stage = "next"
  /\ a \in restore.todo
  /\ FirstOfThread(a)
  /\ \/ /\ ~already_ran(a.run)
        /\ restore' = [restore EXCEPT !.stage = "insert", !.cur = a.run, !.todo = @ \ {a}]
        /\ UNCHANGED <<records, faults>>
     \/ /\ already_ran(a.run)
        /\ restore' = Done([restore EXCEPT !.todo = @ \ {a}])
        /\ clear_pending_record(a.run)
     \/ /\ StoreFails
        /\ restore' = Done([restore EXCEPT !.todo = @ \ {a}])
        /\ UNCHANGED records
  /\ UNCHANGED <<memory, journals, told, restarts, cancels, submit, cancel>>

RestoreCap(r) ==
  LET d == restore.depth[thread_id[r]] IN IF d > QueueCap THEN d ELSE QueueCap

\* The rest of restore_one: skip a run this process already holds, resolve its
\* admission (which may fail), insert it.
RestoreInsert ==
  /\ restore.stage = "insert"
  /\ LET r == restore.cur
         skip == restore' = Done(restore)
     IN \/ /\ Known(r)
           /\ skip
           /\ UNCHANGED <<runs, active, queues, order, queue_seq, task, faults>>
        \/ /\ ~Known(r)
           /\ StoreFails
           /\ skip
           /\ UNCHANGED <<runs, active, queues, order, queue_seq, task>>
        \/ /\ ~Known(r)
           /\ InsertStarted(r)
           /\ restore' = [restore EXCEPT !.stage = "start"]
           /\ task' = [task EXCEPT ![r] = "clear"]
           /\ UNCHANGED faults
        \/ /\ ~Known(r)
           /\ \/ InsertQueued(r, RestoreCap(r))
              \/ InsertRefused(r, "enqueue", RestoreCap(r))
           /\ skip
           /\ UNCHANGED <<task, faults>>
  /\ UNCHANGED <<draining, durable, told, restarts, cancels, submit, cancel>>

-----------------------------------------------------------------------------
(* The specification *)

ScheduleStep(r) ==
  \/ \E strategy \in {"enqueue", "reject"} : ScheduleInsert(r, strategy)
  \/ SchedulePersist(r)
  \/ ScheduleUndo(r)
  \/ ScheduleCheck(r)
  \/ ScheduleSweep(r)

CancelStep == CancelNext \/ CancelAnswer \/ \E r \in Runs : CancelClear(r)

RestoreStep ==
  \/ RestoreList
  \/ \E a \in restore.todo : RestoreCheck(a)
  \/ RestoreInsert

ServerStep ==
  \/ \E r \in Runs : ScheduleStep(r) \/ SpawnPromoted(r) \/ EndRun(r) \/ Finish(r)
  \/ CancelStep
  \/ RestoreStep

Next ==
  \/ ServerStep
  \/ \E r \in Runs : Schedule(r) \/ FlushJournal(r) \/ CancelRun(r)
  \/ \E t \in Threads : CancelThreadRuns(t)
  \/ Drain
  \/ Restart

Spec == Init /\ [][Next]_vars

\* The server does not stop while one of its tasks can go on, graphs return, and a
\* drained process is replaced.  No task can go on for ever, so this is enough for
\* each of them.
Fairness == WF_vars(ServerStep) /\ WF_vars(draining /\ Restart)

LiveSpec == Spec /\ Fairness

-----------------------------------------------------------------------------
(* Properties *)

\* Every variable has its type.
RunTypeOK ==
  /\ runs \in [Runs -> Handle \cup {None}]
  /\ active \in [Threads -> Runs \cup {None}]
  /\ queues \in [Threads -> Seq(Runs)]
  /\ order \in Seq(Runs)
  /\ queue_seq \in Nat
  /\ task \in [Runs -> TaskStage]
  /\ draining \in BOOLEAN
  /\ submit \in [Runs -> Submission]
  /\ cancel \in CancelRequest \cup {None}
  /\ restore \in RestoreState
  /\ records \in [Runs -> Nat \cup {None}]
  /\ journals \subseteq Runs
  /\ told \subseteq Runs
  /\ restarts \in 0..MaxRestarts
  /\ faults \in 0..MaxFaults
  /\ cancels \in 0..MaxCancels

\* At most one run of a thread executes, through submissions, promotions,
\* cancellations and restores that interleave: a task drives a run only while the
\* run holds its thread's slot, and a slot is held only by a run that some task
\* drives, so no slot is wedged behind a run that is gone.
ThreadExclusive ==
  /\ RunTypeOK
  /\ \A r \in Runs :
       /\ task[r] # "none" => HasStatus(r, "running")
       /\ HasStatus(r, "running") => active[thread_id[r]] = r
  /\ \A t \in Threads : active[t] # None => task[active[t]] # "none"

\* A thread's queue holds exactly its pending runs, each once, and nobody waits
\* behind a free slot unless the process is draining.
QueueSound ==
  /\ \A t \in Threads :
       /\ \A i, j \in DOMAIN queues[t] : queues[t][i] = queues[t][j] => i = j
       /\ queues[t] # <<>> => active[t] # None \/ draining
  /\ \A r \in Runs :
       HasStatus(r, "pending") <=>
         \E t \in Threads : thread_id[r] = t /\ \E i \in DOMAIN queues[t] : queues[t][i] = r

\* A run whose submission was answered, and which still waits, has its record in
\* the store: a crash at any point finds it there.
QueuedDurable ==
  \A r \in Runs : At(r, "queued") /\ HasStatus(r, "pending") => records[r] # None

\* While no delete has failed, a run that left the queue leaves no record behind,
\* except while the promotion, cancellation or submission that clears it is still
\* under way: the next boot must not find runs that already started.
NoStraggler ==
  faults = 0 =>
    \A r \in Runs : Known(r) /\ records[r] # None =>
      \/ HasStatus(r, "pending")
      \/ task[r] = "clear"
      \/ submit[r].stage \in {"check", "sweep"}
      \/ cancel # None /\ r \in cancel.clear

\* A run whose journal is in the store never executes again, whatever record of it
\* was left behind by a lost delete or a crash in the middle of a promotion.
NeverReexecuted ==
  [][\A r \in Runs : task[r] = "none" /\ task'[r] # "none" => r \notin journals]_vars

Restored(r) == ~Known(r) /\ runs'[r] # None /\ restore.cur = r

\* "boot replays survivors into the per-thread FIFO in original order": when a boot
\* takes a run back in, no run of its thread accepted earlier is still to come.
RestoreOrder ==
  [][\A r \in Runs : Restored(r) =>
       \A a \in restore.todo :
         thread_id[a.run] = thread_id[r] /\ ~Known(a.run) => r < a.run]_vars

Leaves(r) == Known(r) /\ runs'[r] = None /\ restarts' = restarts

\* Runs that are active or queued are never evicted: only the rollback of a submission
\* whose record could not be written removes a waiting run.  And when a run finishes,
\* no more runs are retained than the cap unless all of those retained are live:
\* whatever moves and leftovers order has collected, the scan reaches every terminal run.
RetentionSound ==
  [][\A r \in Runs :
       /\ Leaves(r) =>
            \/ At(r, "undo")
            \/ HasStatus(r, "terminal")
            \/ task[r] # "none" /\ task'[r] = "none"
       /\ task[r] \in {"promote", "release"} /\ task'[r] = "none" /\ restarts' = restarts =>
            excess(runs') = 0 \/ \A q \in Runs : ~Evictable(runs', q)]_vars

\* The premise of what is proved of a boot: as long as it restores, no run is evicted.
RetainsUntilRestored ==
  [][restore # NoneLeft => \A r \in Runs : Leaves(r) => At(r, "undo")]_vars

\* The premise of what is proved of the order of a boot: its records come from one process.
RestartsOnce == [](restarts <= 1)

\* Every record in the store leaves it, unless a delete fails: no waiting run is left
\* behind by the run ahead of it, a drain or a restart, as long as graphs return.
RecordsLeave ==
  \A r \in Runs : (records[r] # None) ~> (records[r] = None \/ faults > 0)

-----------------------------------------------------------------------------
(* What the documentation says and the code does not do *)

\* "queued runs are not promoted" once the drain began.
NoPromotionInDrain ==
  [][\A r \in Runs : draining /\ HasStatus(r, "pending") =>
       runs'[r] = None \/ runs'[r].status # "running"]_vars

\* A caller told that its queued run was cancelled never sees it run.
CancelledStaysCancelled ==
  \A r \in told : task[r] = "none"

\* An accepted run is in the queue's records, in this process, or has evidence of
\* its execution in the store.
AcceptedNotForgotten ==
  \A r \in Runs : At(r, "queued") =>
    records[r] # None \/ Known(r) \/ r \in journals \/ r \in told

\* A thread's cancellation lists every run whose token it fired.
CancellationReported ==
  cancel # None => cancel.fired \subseteq cancel.signalled

\* "the oldest terminal runs are evicted": no terminal run older than an evicted
\* one is retained.
OldestEvicted ==
  [][\A r, q \in Runs :
       Leaves(r) /\ HasStatus(q, "terminal") /\ runs'[q] # None /\ ~At(r, "undo")
         => r < q]_vars

=============================================================================
