----------------------------- MODULE Coordination -----------------------------
(***************************************************************************)
(* One coordination pattern of rusty-server (coordination.rs): delegate,   *)
(* fan-out, race or quorum over member tasks, driven forward by passes     *)
(* that rebuild their progress from the journal and the member tasks.      *)
(*                                                                         *)
(* A pass (drive) is started by the submission, by the route that settled  *)
(* a member task, and by every read of the pattern.  Nothing excludes two  *)
(* passes over the same pattern, so every store call of a pass is a step   *)
(* of its own, and a pass may die between any two: its request is dropped, *)
(* a call fails, or the process goes down.  The store is the JSON-file     *)
(* one.  Member tasks are reduced to open and settled; an open task that   *)
(* is cancelled is either still queued, and ends, or leased, and learns of *)
(* it.  Results are told apart by the member they come from.  There is a   *)
(* delegator to tell, and dead tasks are not re-driven.                    *)
(***************************************************************************)
EXTENDS Naturals, Sequences, FiniteSets, FiniteSetsExt

CONSTANTS
  N,         \* the members are 1..N in contract order; a delegation has one
  Contracts, \* the contracts a submission may carry
  Drives,    \* slots for passes under way: bounds how many overlap
  MaxFaults, \* bound: passes that die and submissions the quota defers
  None

Patterns == {"delegate", "fan_out", "fail_fast", "race", "quorum"}

ASSUME CoordAssumption ==
  /\ N \in Nat \ {0}
  /\ Contracts \subseteq [pattern : Patterns, window : Nat \ {0}, k : 1..N]
  /\ MaxFaults \in Nat
  /\ None \notin {"open", "completed", "failed", "cancelled", "unreachable"}

VARIABLES
  contract, \* the contract of the pattern
  tasks,    \* the member tasks in the queue
  rows,     \* pending outbox rows: members, and Outcome for the result message
  message,  \* the result the delegator was sent, or None
  dlq,      \* the dead-lettered result of a race, or None
  journal,  \* the pattern's persisted journal
  record,   \* the persisted CoordinationRecord, None before the submission
  drive,    \* the passes under way, by slot
  faults    \* counted against MaxFaults

vars == <<contract, tasks, rows, message, dlq, journal, record,
          drive, faults>>

Outcome == N + 1   \* its row goes down after those of the members
Members == IF contract.pattern = "delegate" THEN {1} ELSE 1..N
Terminal == {"completed", "failed", "cancelled"}
NoTask == [status |-> None, at |-> 0, signalled |-> FALSE]
NoJournal == [start |-> FALSE, sends |-> {}, receives |-> {}, end |-> None]
NewRecord == [settled |-> FALSE, outcome |-> None]

Fault == faults < MaxFaults /\ faults' = faults + 1

-----------------------------------------------------------------------------
(* What a pass decides from the journal and the member tasks it has read.  *)

Settled(seen) == {m \in Members : seen[m].status \in Terminal}
Completed(seen) == {m \in Members : seen[m].status = "completed"}

\* A member counts as submitted by its task or by its send event.
Submitted(seen, j) == {m \in Members : seen[m].status # None} \cup j.sends

InFlight_Visible(seen, j) == {m \in Members : seen[m].status = "open"}

\* Sends whose rows are still pending are in flight as well.
InFlight(seen, j) == Submitted(seen, j) \ Settled(seen)

Window == IF contract.pattern \in {"fan_out", "fail_fast"} THEN contract.window ELSE N

\* The members this pass submits: in contract order, while the window has room
\* and the quota admits them.
ToSubmit(seen, j, admitted) ==
  LET waiting == Members \ Submitted(seen, j)
      used == Cardinality(InFlight(seen, j))
      room == IF used >= Window THEN 0 ELSE Window - used
  IN {m \in waiting : Cardinality({w \in waiting : w < m}) < Min({room, admitted})}

\* The first n completions by the clock of the task records.
Earliest(seen, n) ==
  {m \in Completed(seen) :
     Cardinality({o \in Completed(seen) : seen[o].at < seen[m].at}) < n}

AllTerminal_Submitted(seen, submitted) == submitted \subseteq Settled(seen)

AllTerminal(seen, submitted) == submitted = Members /\ Settled(seen) = Members

Plan(status, contributing) == [status |-> status, contributing |-> contributing]

\* decide_settle: how the pattern ends, None while it must wait.
DecideSettle(seen, submitted) ==
  LET done == Completed(seen)
      failed == {m \in Members : seen[m].status = "failed"}
      all == AllTerminal(seen, submitted)
  IN CASE contract.pattern = "delegate" ->
            IF seen[1].status \notin Terminal THEN None
            ELSE Plan(seen[1].status, done \cap {1})
       [] contract.pattern \in {"fan_out", "fail_fast"} ->
            IF contract.pattern = "fail_fast" /\ failed # {} THEN Plan("failed", {})
            ELSE IF all THEN Plan("completed", done) ELSE None
       [] contract.pattern = "race" ->
            IF done # {} THEN Plan("completed", Earliest(seen, 1))
            ELSE IF all THEN Plan("failed", {}) ELSE None
       [] contract.pattern = "quorum" ->
            IF Cardinality(done) >= contract.k
            THEN Plan("completed", Earliest(seen, contract.k))
            ELSE IF N - Cardinality(Settled(seen) \ done) < contract.k
            THEN Plan("unreachable", {}) ELSE None

NeedsDlq(plan) == contract.pattern = "race" /\ plan.status = "failed"

\* A member that has not settled is written off as cancelled.
FinalDisposition(task) ==
  IF task.status \in Terminal THEN task.status ELSE "cancelled"

OutcomeOf(plan, seen) ==
  [status |-> plan.status, contributing |-> plan.contributing,
   members |-> [m \in Members |-> FinalDisposition(seen[m])]]

-----------------------------------------------------------------------------
(* The steps of a pass.                                                    *)

Idle(d) == drive[d] = None
At(d, pc) == drive[d] # None /\ drive[d].pc = pc

\* The locals of a pass about to read the journal.
Pass(r) ==
  [pc |-> "journal", record |-> r, dirty |-> FALSE, journal |-> NoJournal,
   seen |-> <<>>, cancels |-> {}, dlq |-> FALSE, rows |-> {}]

\* submit_coordination: the record is created first; over quota, the request ends there.
Submit(d, admitted) ==
  /\ record = None
  /\ Idle(d)
  /\ record' = NewRecord
  /\ admitted \/ faults < MaxFaults
  /\ faults' = IF admitted THEN faults ELSE faults + 1
  /\ drive' = IF admitted THEN [drive EXCEPT ![d] = Pass(NewRecord)] ELSE drive
  /\ UNCHANGED <<contract, tasks, rows, message, dlq, journal>>

\* GET /coordination/{id}, or the route that settled a member: the record is read, and
\* a settled one leaves nothing to do.
Begin(d) ==
  /\ record # None
  /\ ~record.settled
  /\ Idle(d)
  /\ drive' = [drive EXCEPT ![d] = Pass(record)]
  /\ UNCHANGED <<contract, tasks, rows, message, dlq, journal, record, faults>>

ReadJournal(d) ==
  /\ At(d, "journal")
  /\ drive' = [drive EXCEPT ![d].pc = "tasks", ![d].dirty = ~journal.start,
                            ![d].journal = [journal EXCEPT !.start = TRUE]]
  /\ UNCHANGED <<contract, tasks, rows, message, dlq, journal, record, faults>>

ReadTask(d) ==
  /\ At(d, "tasks")
  /\ Len(drive[d].seen) < Cardinality(Members) - 1
  /\ drive' = [drive EXCEPT ![d].seen = Append(@, tasks[Len(@) + 1])]
  /\ UNCHANGED <<contract, tasks, rows, message, dlq, journal, record, faults>>

\* The last member read: submit what is due, journal what settled, settle the pattern.
Decide(d, admitted) ==
  /\ At(d, "tasks")
  /\ Len(drive[d].seen) = Cardinality(Members) - 1
  /\ admitted < N => faults < MaxFaults
  /\ faults' = IF admitted < N THEN faults + 1 ELSE faults
  /\ LET p == [drive[d] EXCEPT !.seen = Append(@, tasks[Len(@) + 1])]
         due == ToSubmit(p.seen, p.journal, admitted)
         submitted == Submitted(p.seen, p.journal) \cup due
         plan == DecideSettle(p.seen, submitted)
         outcome == OutcomeOf(plan, p.seen)
         sent == [p.journal EXCEPT !.sends = @ \cup due, !.receives = @ \cup Settled(p.seen)]
         after == [p EXCEPT !.pc = "commit", !.seen = <<>>]
     IN drive' = [drive EXCEPT ![d] =
          IF p.journal.end # None THEN after
          ELSE IF plan = None
          THEN [after EXCEPT !.journal = sent, !.rows = due,
                             !.dirty = @ \/ sent # p.journal]
          ELSE [after EXCEPT !.journal = [sent EXCEPT !.receives = Members, !.end = outcome],
                             !.record = [settled |-> TRUE, outcome |-> outcome],
                             !.cancels = submitted \ (plan.contributing \cup Settled(p.seen)),
                             !.dlq = NeedsDlq(plan),
                             !.rows = due \cup {Outcome},
                             !.dirty = TRUE]]
  /\ UNCHANGED <<contract, tasks, rows, message, dlq, journal, record>>

\* settle cancels the members that do not contribute, one by one; a task the queue
\* does not know yet is left alone.
CancelMember(d, leased) ==
  /\ At(d, "commit")
  /\ drive[d].cancels # {}
  /\ LET m == Min(drive[d].cancels)
     IN /\ drive' = [drive EXCEPT ![d].cancels = @ \ {m}]
        /\ tasks' = IF tasks[m].status # "open" THEN tasks
                    ELSE IF leased THEN [tasks EXCEPT ![m].signalled = TRUE]
                    ELSE [tasks EXCEPT ![m].status = "cancelled"]
  /\ UNCHANGED <<contract, rows, message, dlq, journal, record, faults>>

DeadLetter(d) ==
  /\ At(d, "commit")
  /\ drive[d].cancels = {}
  /\ drive[d].dlq
  /\ dlq' = IF dlq = None THEN drive[d].record.outcome ELSE dlq
  /\ drive' = [drive EXCEPT ![d].dlq = FALSE]
  /\ UNCHANGED <<contract, tasks, rows, message, journal, record, faults>>

RowsFirst_JournalFirst(d) == TRUE

\* journal_and_enqueue writes the journal once its rows are down.
RowsFirst(d) == drive[d].rows = {}

\* Row by row in contract order.  A row already pending is skipped; the first result sent is the one delivered.
PushRow(d) ==
  /\ At(d, "commit")
  /\ drive[d].cancels = {}
  /\ ~drive[d].dlq
  /\ drive[d].rows # {}
  /\ LET r == Min(drive[d].rows)
     IN /\ rows' = rows \cup {r}
        /\ message' = IF r = Outcome /\ message = None THEN drive[d].record.outcome
                      ELSE message
  /\ drive' = [drive EXCEPT ![d].rows = @ \ {Min(@)}]
  /\ UNCHANGED <<contract, tasks, dlq, journal, record, faults>>

\* The whole journal is replaced, whatever was written since it was read.
WriteJournal(d) ==
  /\ At(d, "commit")
  /\ drive[d].cancels = {}
  /\ ~drive[d].dlq
  /\ RowsFirst(d)
  /\ journal' = IF drive[d].dirty THEN drive[d].journal ELSE journal
  /\ drive' = [drive EXCEPT ![d].pc = "latch", ![d].journal = NoJournal,
                            ![d].dirty = FALSE]
  /\ UNCHANGED <<contract, tasks, rows, message, dlq, record, faults>>

WriteRecord(d) ==
  /\ At(d, "latch")
  /\ record' = drive[d].record
  /\ drive' = [drive EXCEPT ![d] = None]
  /\ UNCHANGED <<contract, tasks, rows, message, dlq, journal, faults>>

\* The request is dropped, a store call fails, or the process dies with it.  A pass
\* that dies before it has decided leaves nothing behind.
DriveDies(d) ==
  /\ At(d, "commit") \/ At(d, "latch")
  /\ Fault
  /\ drive' = [drive EXCEPT ![d] = None]
  /\ UNCHANGED <<contract, tasks, rows, message, dlq, journal, record>>

-----------------------------------------------------------------------------
(* The queue and its workers.                                              *)

\* The relay publishes a row; a task that exists already absorbs it.
Relay(r) ==
  /\ r \in rows
  /\ rows' = rows \ {r}
  /\ tasks' = IF r \in Members /\ tasks[r].status = None
              THEN [tasks EXCEPT ![r].status = "open"] ELSE tasks
  /\ UNCHANGED <<contract, message, dlq, journal, record, drive, faults>>

\* A holder settles its task; the route goes on to drive the pattern (Begin).
Settle(m, how) ==
  /\ tasks[m].status = "open"
  /\ how = "cancelled" => tasks[m].signalled
  /\ tasks' = [tasks EXCEPT ![m].status = how, ![m].at = Cardinality(Settled(tasks)) + 1]
  /\ UNCHANGED <<contract, rows, message, dlq, journal, record, drive, faults>>

\* The claim path finalizes a task past its deadline, and no hook follows; or a client
\* cancels a queued one.
Expire(m) ==
  /\ tasks[m].status = "open"
  /\ tasks' = [tasks EXCEPT ![m].status = "cancelled"]
  /\ UNCHANGED <<contract, rows, message, dlq, journal, record, drive, faults>>

-----------------------------------------------------------------------------
Init ==
  /\ contract \in Contracts
  /\ tasks = [m \in 1..N |-> NoTask]
  /\ rows = {}
  /\ message = None
  /\ dlq = None
  /\ journal = NoJournal
  /\ record = None
  /\ drive = [d \in Drives |-> None]
  /\ faults = 0

DriveStep(d) ==
  \/ ReadJournal(d)
  \/ ReadTask(d)
  \/ \E admitted \in 0..N : Decide(d, admitted)
  \/ \E leased \in BOOLEAN : CancelMember(d, leased)
  \/ DeadLetter(d)
  \/ PushRow(d)
  \/ WriteJournal(d)
  \/ WriteRecord(d)

Work(m) == \E how \in Terminal : Settle(m, how)

Next ==
  \/ \E d \in Drives :
       \/ \E admitted \in BOOLEAN : Submit(d, admitted)
       \/ Begin(d)
       \/ DriveStep(d)
       \/ DriveDies(d)
  \/ \E r \in 1..Outcome : Relay(r)
  \/ \E m \in 1..N : Work(m) \/ Expire(m)

\* The relay and the workers go on, a pass that was started is carried on by its
\* request, and somebody keeps reading the pattern: the code has no timer of its own.
Fairness ==
  /\ \A d \in Drives : WF_vars(DriveStep(d))
  /\ WF_vars(\E d \in Drives : Begin(d))
  /\ WF_vars(\E d \in Drives : Submit(d, TRUE))
  /\ \A r \in 1..Outcome : WF_vars(Relay(r))
  /\ \A m \in 1..N : WF_vars(Work(m))

Spec == Init /\ [][Next]_vars
FairSpec == Spec /\ Fairness

-----------------------------------------------------------------------------
(* Properties.                                                             *)

OutcomeType ==
  [status : {"completed", "failed", "cancelled", "unreachable"},
   contributing : SUBSET Members, members : [Members -> Terminal]]

CoordTypeOK ==
  /\ \A m \in Members : tasks[m].status \in Terminal \cup {"open", None}
  /\ rows \subseteq Members \cup {Outcome}
  /\ journal.sends \subseteq Members
  /\ journal.receives \subseteq Members
  /\ {message, dlq, journal.end} \subseteq OutcomeType \cup {None}
  /\ record # None => record.outcome \in OutcomeType \cup {None}

\* "never a journal claiming submissions that do not exist": every send the
\* journal holds has its task or its pending row, though passes overwrite each
\* other's journal and die anywhere (journal_and_enqueue).
SendsBacked ==
  CoordTypeOK /\ \A m \in journal.sends : m \in rows \/ tasks[m].status # None

\* "The window is the fan-out's backpressure guarantee": members at work or on
\* their way never exceed it, whatever each overlapping pass knew when it counted.
WindowRespected ==
  Cardinality({m \in Members : tasks[m].status = "open"
                                 \/ (m \in rows /\ tasks[m].status = None)}) <= Window

\* Every result recorded anywhere is one the member tasks bear out, although it was
\* computed from tasks read one by one while others settled: who contributed did
\* complete, a race was lost by all, a merge missed nobody, a threshold given up was
\* out of reach (decide_settle).
Justified(o) ==
  /\ \A m \in o.contributing : tasks[m].status = "completed"
  /\ \A m \in Members : o.members[m] # "cancelled" => tasks[m].status = o.members[m]
  /\ CASE contract.pattern = "delegate" -> tasks[1].status = o.status
       [] contract.pattern = "race" ->
            IF o.status = "completed" THEN Cardinality(o.contributing) = 1
            ELSE Settled(tasks) = Members /\ Completed(tasks) = {}
       [] contract.pattern = "quorum" ->
            IF o.status = "completed" THEN Cardinality(o.contributing) = contract.k
            ELSE N - Cardinality(Settled(tasks) \ Completed(tasks)) < contract.k
       [] OTHER ->
            IF o.status = "completed"
            THEN Settled(tasks) = Members /\ o.contributing = Completed(tasks)
            ELSE \E m \in Members : tasks[m].status = "failed"

OutcomeJustified ==
  /\ \A o \in {message, dlq, journal.end} \ {None} : Justified(o)
  /\ record # None /\ record.outcome # None => Justified(record.outcome)
  /\ dlq # None => contract.pattern = "race" /\ dlq.status = "failed"

\* Every pattern ends for good: with readers that come back, it comes to be settled in
\* the journal or in the record and stays so, across passes that die, submissions the
\* quota defers, and members finalized without a hook.
PatternSettles ==
  <>[](record # None /\ (record.settled \/ journal.end # None))

\* "The terminal fact, journaled exactly once": an end that was journaled stays.
EndStands == [][journal.end # None => journal'.end = journal.end]_vars

\* "A crash between them is harmless: the next drive's journal scan rebuilds every
\* latch the record lost": a pass whose scan met the end commits a settled record.
LatchesRebuilt ==
  \A d \in Drives : At(d, "commit") /\ drive[d].journal.end # None => drive[d].record.settled

\* "One fact, three views": the result in the record, the one in the journal and the
\* one the delegator was sent are the same.
OneFact ==
  record # None /\ record.settled /\ journal.end # None =>
    record.outcome = journal.end /\ (message # None => message = journal.end)

\* "the remaining members are cancel-signalled": once a settled pattern has been
\* recorded, a member it wrote off is over, has been told, or was never submitted.
LosersSignalled ==
  record # None /\ record.settled =>
    \A m \in Members \ record.outcome.contributing :
      /\ m \notin rows \/ tasks[m].status # None
      /\ tasks[m].status = "open" => tasks[m].signalled

=============================================================================
