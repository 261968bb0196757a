------------------------------ MODULE Executor ------------------------------
(***************************************************************************)
(* The super-step loop of rusty-core (executor.rs run_inner and            *)
(* execute_super_step, state.rs apply_super_step) on one thread, with its  *)
(* durable inbox and the thread's checkpoints.  The owner starts a run,    *)
(* resumes it from the latest or from an older checkpoint, sends into the  *)
(* inbox, cancels through it or through the token; the process may die     *)
(* between any two steps.                                                  *)
(*                                                                         *)
(* The graph's routers, the nodes' outcomes and what a node costs are      *)
(* inputs.  A state is what it was made of: one block of writes for each   *)
(* super-step merged into it, and the messages delivered to those steps.   *)
(* The steps of the loop between two awaits are one action; the awaits are *)
(* the nodes' results and Checkpointer::put.                               *)
(***************************************************************************)
EXTENDS Inbox

CONSTANTS
  Nodes,        \* node names, ordered as the strings of the code are
  Entry,        \* Graph::entry_point
  Routes,       \* what the outgoing edges of each node may answer
  Gotos,        \* the Command::goto each node may return
  MaxSteps,     \* RunConfig::max_steps
  MaxSegments,  \* bound: how often the thread is run or resumed
  MaxMessages,  \* bound: messages sent
  MaxCancels,   \* bound: typed cancellations
  MaxFaults     \* bound: drains, crashes, failed puts, merge and budget errors

\* An invocation scheduled for a super-step (ActiveTask): scoped is 0 without
\* the input of a Send.
Task == [name : Nodes, scoped : Nat]

ASSUME ExecAssumption ==
  /\ Nodes \subseteq Nat
  /\ Entry \in Nodes
  /\ Routes \in [Nodes -> SUBSET Seq(Task)]
  /\ Gotos \in [Nodes -> SUBSET Seq(Nodes)]
  /\ MaxSteps \in Nat \ {0}
  /\ MaxSegments \in Nat
  /\ MaxMessages \in Nat
  /\ MaxCancels \in Nat
  /\ MaxFaults \in Nat

VARIABLES
  log,       \* the thread's checkpoints in the order they were put
  base,      \* history: the checkpoint the run last restored or wrote, 0 if none
  run,       \* the locals of run_inner
  inbox,     \* the handle the owner holds
  dropped,   \* history: messages cleared by a cancellation without keep_inbox
  forfeited, \* history: messages the code gives up outside a cancellation
  sent,      \* counted against MaxMessages
  segments,  \* counted against MaxSegments
  cancels,   \* counted against MaxCancels
  faults     \* counted against MaxFaults

vars == <<log, base, run, inbox, dropped, forfeited, sent, segments, cancels, faults>>

EmptyState == [writes |-> <<>>, seen |-> <<>>]
NoRun ==
  [pc |-> "idle", state |-> EmptyState, active |-> <<>>, step |-> 0, steps_run |-> 0,
   carried |-> <<>>, turn_start |-> FALSE, delivery |-> <<>>, results |-> <<>>,
   token |-> FALSE, over |-> FALSE]

Names(tasks) == [i \in DOMAIN tasks |-> tasks[i].name]
Plain(names) == [i \in DOMAIN names |-> [name |-> names[i], scoped |-> 0]]

Live == run.pc # "idle"
\* The run future returns: its locals are gone, the owner's inbox stays.
Return == run' = NoRun

Fault == faults < MaxFaults /\ faults' = faults + 1

\* mint_checkpoint and a successful put.  tasks and prev are history.
Checkpoint(step, state, tasks, stamp) ==
  [step |-> step, state |-> state, next |-> Names(tasks), tasks |-> tasks,
   stamp |-> stamp, prev |-> base]

Put(checkpoint) ==
  /\ log' = Append(log, checkpoint)
  /\ base' = Len(log) + 1

-----------------------------------------------------------------------------
(* Starting and resuming.                                                  *)

Loop(state, step, active, carried, over) ==
  [NoRun EXCEPT !.pc = "boundary", !.state = state, !.step = step, !.active = active,
                !.carried = carried, !.turn_start = TRUE, !.over = over]

\* A run without resume: it begins at the entry point, whatever the thread holds.
Start ==
  /\ ~Live
  /\ segments < MaxSegments
  /\ run' = Loop(EmptyState, 0, Plain(<<Entry>>), <<>>, FALSE)
  /\ base' = 0
  /\ segments' = segments + 1
  /\ UNCHANGED <<log, inbox, dropped, forfeited, sent, cancels, faults>>

\* What a resumed loop carries to its first super-step: the undelivered batch of
\* the checkpoint, when the inbox is one that never accepted a send.
Carried(checkpoint) ==
  IF inbox.touched \/ checkpoint.stamp = None THEN <<>>
  ELSE checkpoint.stamp.pending_delivery

\* The active set a checkpoint restores: its node names alone.
Restored(checkpoint) == Plain(checkpoint.next)

\* A run with resume (the latest checkpoint) or checkpoint_id (any of them).
\* over: the journal handed in already holds a spend past the budget.
Resume(c, over) ==
  /\ ~Live
  /\ segments < MaxSegments
  /\ over => faults < MaxFaults
  /\ faults' = IF over THEN faults + 1 ELSE faults
  /\ LET box == Seeded(inbox, log[c].stamp)
         carried == Carried(log[c])
     IN /\ inbox' = box
        /\ run' = IF log[c].next = <<>> THEN NoRun
                  ELSE Loop(log[c].state, log[c].step, Restored(log[c]), carried, over)
        /\ forfeited' = forfeited \cup
             (Stamped(log[c].stamp) \ (Queued(box) \cup ToSet(carried)))
  /\ base' = c
  /\ segments' = segments + 1
  /\ UNCHANGED <<log, dropped, sent, cancels>>

-----------------------------------------------------------------------------
(* The owner and the world.                                                *)

Send(k) ==
  /\ sent < MaxMessages
  /\ CanSend(inbox, k)
  /\ inbox' = Sent(inbox, [id |-> sent + 1, kind |-> k])
  /\ sent' = sent + 1
  /\ UNCHANGED <<log, base, run, dropped, forfeited, segments, cancels, faults>>

Cancel(keep) ==
  /\ cancels < MaxCancels
  /\ inbox' = Cancelled(inbox, keep)
  /\ cancels' = cancels + 1
  /\ UNCHANGED <<log, base, run, dropped, forfeited, sent, segments, faults>>

\* RunConfig::cancellation, fired by the server's drain.
Drain ==
  /\ Live
  /\ ~run.token
  /\ Fault
  /\ run' = [run EXCEPT !.token = TRUE]
  /\ UNCHANGED <<log, base, inbox, dropped, forfeited, sent, segments, cancels>>

\* Between two runs the owner may take a new handle instead of the old one.
NewHandle ==
  /\ ~Live
  /\ inbox # FreshInbox
  /\ inbox' = FreshInbox
  /\ UNCHANGED <<log, base, run, dropped, forfeited, sent, segments, cancels, faults>>

Crash ==
  /\ Live
  /\ Fault
  /\ Return
  /\ inbox' = FreshInbox
  /\ UNCHANGED <<log, base, dropped, forfeited, sent, segments, cancels>>

-----------------------------------------------------------------------------
(* The super-step boundary.                                                *)

AtCeiling_OffByOne == run.steps_run > MaxSteps \/ run.over

AtCeiling == run.steps_run >= MaxSteps \/ run.over

\* The step or spend ceiling: the run suspends; its stamp has no undelivered batch.
Ceiling ==
  /\ run.pc = "boundary"
  /\ AtCeiling
  /\ Put(Checkpoint(run.step, run.state, run.active, Snapshot(inbox, <<>>)))
  /\ forfeited' = forfeited \cup ToSet(run.carried)
  /\ Return
  /\ UNCHANGED <<inbox, dropped, sent, segments, cancels, faults>>

\* A latched cancellation rewrites the boundary checkpoint.
TypedCancel ==
  /\ run.pc = "boundary"
  /\ ~AtCeiling
  /\ inbox.cancel # None
  /\ LET settled == [Settled(inbox) EXCEPT !.cancel = None]
         keep == inbox.cancel
         box == IF keep THEN settled ELSE Cleared(settled)
         delivery == IF keep THEN run.carried ELSE <<>>
     IN /\ inbox' = box
        /\ dropped' = IF keep THEN dropped
                      ELSE dropped \cup Queued(settled) \cup ToSet(run.carried)
        /\ Put(Checkpoint(run.step, run.state, run.active, Snapshot(box, delivery)))
  /\ Return
  /\ UNCHANGED <<forfeited, sent, segments, cancels, faults>>

\* The put of a ceiling or of a cancellation fails: the run ends in the error.
BoundaryPutFails ==
  /\ run.pc = "boundary"
  /\ AtCeiling \/ inbox.cancel # None
  /\ Fault
  /\ LET settled == [Settled(inbox) EXCEPT !.cancel = None]
     IN /\ inbox' = IF AtCeiling THEN inbox
                    ELSE IF inbox.cancel THEN settled ELSE Cleared(settled)
        /\ dropped' = IF AtCeiling \/ inbox.cancel THEN dropped
                      ELSE dropped \cup Queued(settled)
  /\ Return
  /\ UNCHANGED <<log, base, forfeited, sent, segments, cancels>>

Batch_SteeringFirst(box) ==
  box.steering \o run.carried \o
    (IF run.turn_start \/ run.carried # <<>> \/ box.steering # <<>>
     THEN box.injected ELSE <<>>)

\* The batch the step's nodes see: what was carried, the steering, and, when
\* either or the turn woke the loop, the staged injections.
Batch(box) ==
  run.carried \o box.steering \o
    (IF run.turn_start \/ run.carried # <<>> \/ box.steering # <<>>
     THEN box.injected ELSE <<>>)

Drained(box) ==
  [box EXCEPT !.steering = <<>>,
              !.injected = IF run.turn_start \/ run.carried # <<>> \/ box.steering # <<>>
                           THEN <<>> ELSE @]

\* The token is looked at after the batch has left the inbox.
BeginStep ==
  /\ run.pc = "boundary"
  /\ ~AtCeiling
  /\ inbox.cancel = None
  /\ LET box == Settled(inbox)
     IN /\ inbox' = Drained(box)
        /\ run' = IF run.token THEN NoRun
                  ELSE [run EXCEPT !.pc = "step", !.delivery = Batch(box),
                                   !.carried = <<>>, !.turn_start = FALSE,
                                   !.results = <<>>]
  /\ UNCHANGED <<log, base, dropped, forfeited, sent, segments, cancels, faults>>

-----------------------------------------------------------------------------
(* The super-step.                                                         *)

Unfinished == {i \in DOMAIN run.active : \A j \in DOMAIN run.results : run.results[j].index # i}

\* An invocation joins with its output; results are in the order they joined.
NodeOk(i, goto) ==
  /\ run.pc = "step"
  /\ i \in Unfinished
  /\ goto \in Gotos[run.active[i].name]
  /\ run' = [run EXCEPT !.results =
               Append(@, [index |-> i, name |-> run.active[i].name,
                          scoped |-> run.active[i].scoped, goto |-> goto])]
  /\ UNCHANGED <<log, base, inbox, dropped, forfeited, sent, segments, cancels, faults>>

Suspended_Unfinished == Pick(run.active, Unfinished)

\* What a suspension schedules for the resume: every invocation of the step.
Suspended == run.active

\* An invocation interrupts: the step's writes are discarded, its batch is kept.
NodeInterrupt(i) ==
  /\ run.pc = "step"
  /\ i \in Unfinished
  /\ Put(Checkpoint(run.step, run.state, Suspended, Snapshot(inbox, run.delivery)))
  /\ Return
  /\ UNCHANGED <<inbox, dropped, forfeited, sent, segments, cancels, faults>>

\* A node error, a panic, or the failed put of a suspension ends the run.
NodeFails ==
  /\ run.pc = "step"
  /\ Unfinished # {}
  /\ Fault
  /\ Return
  /\ UNCHANGED <<log, base, inbox, dropped, forfeited, sent, segments, cancels>>

Before(a, b) == a.name < b.name \/ (a.name = b.name /\ a.index < b.index)

\* apply_super_step: the writes sorted by node name, those of one node in the
\* order of the active set.
MergeOrder(results) ==
  LET Earlier(r) == {q \in ToSet(results) : Before(q, r)}
  IN [k \in DOMAIN results |->
        CHOOSE r \in ToSet(results) : Cardinality(Earlier(r)) = k - 1]

Merged(results) ==
  [writes |-> Append(run.state.writes,
                [i \in DOMAIN results |->
                   [name |-> MergeOrder(results)[i].name,
                    scoped |-> MergeOrder(results)[i].scoped]]),
   seen |-> run.state.seen \o run.delivery]

\* A plain target is planned once, every Send is an invocation of its own.
Planned(tasks) ==
  Pick(tasks, {i \in DOMAIN tasks :
                 tasks[i].scoped = 0 => \A j \in 1..(i - 1) : tasks[j] # tasks[i]})

\* The nodes that ran, each once, in the order they joined.
Ran(results) ==
  Names(Pick(results, {i \in DOMAIN results :
                         \A j \in 1..(i - 1) : results[j].name # results[i].name}))

\* Command::goto overrides the edges of the whole step.
NextTasks(results, route) ==
  LET gotos == FlattenSeq([i \in DOMAIN results |-> results[i].goto])
      ran == Ran(results)
  IN IF gotos # <<>> THEN Planned(Plain(gotos))
     ELSE Planned(FlattenSeq([i \in DOMAIN ran |-> route[ran[i]]]))

AllJoined_Late == Len(run.results) > Len(run.active)

AllJoined == Len(run.results) = Len(run.active)

RouteChoices ==
  {route \in [{run.active[i].name : i \in DOMAIN run.active} -> UNION {Routes[n] : n \in Nodes}] :
     \A n \in DOMAIN route : route[n] \in Routes[n]}

\* Would the turn end, the follow-ups queued by now start another one.
Extension(box) ==
  IF box.followup = <<>> THEN <<>> ELSE box.followup \o box.injected

Extended(box) ==
  IF box.followup = <<>> THEN box ELSE [box EXCEPT !.followup = <<>>, !.injected = <<>>]

BoundaryStamp_QueuesOnly(box, extension) == Snapshot(box, <<>>)

\* The stamp of a boundary checkpoint: an extension's batch is yet to be delivered.
BoundaryStamp(box, extension) == Snapshot(box, extension)

\* The barrier: merge, route, extend the turn, checkpoint, look at the spend.
Barrier(route, over) ==
  /\ run.pc = "step"
  /\ AllJoined
  /\ over => faults < MaxFaults
  /\ faults' = IF over THEN faults + 1 ELSE faults
  /\ LET state == Merged(run.results)
         routed == NextTasks(run.results, route)
         settled == IF routed = <<>> THEN Settled(inbox) ELSE inbox
         extension == IF routed = <<>> THEN Extension(settled) ELSE <<>>
         box == IF routed = <<>> THEN Extended(settled) ELSE inbox
         next == IF extension # <<>> THEN Plain(<<Entry>>) ELSE routed
     IN /\ inbox' = box
        /\ Put(Checkpoint(run.step, state, next, BoundaryStamp(box, extension)))
        /\ run' = IF over \/ next = <<>> THEN NoRun
                  ELSE [run EXCEPT !.pc = "boundary", !.state = state, !.active = next,
                                   !.step = @ + 1, !.steps_run = @ + 1,
                                   !.carried = extension,
                                   !.turn_start = extension # <<>>,
                                   !.delivery = <<>>, !.results = <<>>]
  /\ UNCHANGED <<dropped, forfeited, sent, segments, cancels>>

\* A merge or routing error, or the put failing once the turn was extended.
BarrierFails ==
  /\ run.pc = "step"
  /\ AllJoined
  /\ Fault
  /\ \/ inbox' = inbox
     \/ inbox' = Extended(Settled(inbox))
  /\ Return
  /\ UNCHANGED <<log, base, dropped, forfeited, sent, segments, cancels>>

-----------------------------------------------------------------------------
Init ==
  /\ log = <<>>
  /\ base = 0
  /\ run = NoRun
  /\ inbox = FreshInbox
  /\ dropped = {}
  /\ forfeited = {}
  /\ sent = 0
  /\ segments = 0
  /\ cancels = 0
  /\ faults = 0

\* The steps of the run future itself.
RunStep ==
  \/ Ceiling
  \/ TypedCancel
  \/ BeginStep
  \/ \E i \in DOMAIN run.active, goto \in UNION {Gotos[n] : n \in Nodes} : NodeOk(i, goto)
  \/ \E i \in DOMAIN run.active : NodeInterrupt(i)
  \/ \E route \in RouteChoices, over \in BOOLEAN : Barrier(route, over)

Environment ==
  \/ Start
  \/ \E c \in DOMAIN log, over \in BOOLEAN : Resume(c, over)
  \/ \E k \in Kinds : Send(k)
  \/ \E keep \in BOOLEAN : Cancel(keep)
  \/ Drain
  \/ NewHandle
  \/ Crash
  \/ BoundaryPutFails
  \/ NodeFails
  \/ BarrierFails

Next == RunStep \/ Environment

\* The owner awaits the run future and the nodes return, so its steps go on.
Spec == Init /\ [][Next]_vars /\ WF_vars(RunStep)

-----------------------------------------------------------------------------
(* Properties.                                                             *)

ExecTypeOK ==
  /\ base \in 0..Len(log)
  /\ inbox \in InboxType
  /\ run.pc \in {"idle", "boundary", "step"}
  /\ run.active \in Seq(Task)
  /\ run.carried \in Seq(Message)
  /\ run.delivery \in Seq(Message)
  /\ run.steps_run \in Nat
  /\ \A c \in DOMAIN log :
       /\ log[c].stamp \in SnapshotType
       /\ log[c].next \in Seq(Nodes)
       /\ log[c].prev \in 0..(c - 1)

\* block is what the invocations of tasks write, node by node, and for one node in the
\* order of tasks: nothing missing, nothing twice.
Canonical(block, tasks) ==
  \E place \in Bijection(DOMAIN block, DOMAIN tasks) :
    /\ \A i \in DOMAIN block : block[i] = tasks[place[i]]
    /\ \A i, j \in DOMAIN block :
         i < j => \/ block[i].name < block[j].name
                  \/ block[i].name = block[j].name /\ place[i] < place[j]

\* Every checkpoint follows the one its run restored or wrote before it in one of
\* two ways: it schedules the same nodes over the same state (a suspension, a
\* ceiling, a cancellation), or it adds the writes of exactly the invocations of the
\* nodes that one scheduled, all of them.  So across interrupts, failures, crashes and
\* resumes no super-step is torn, skipped or merged twice (the transactional barrier
\* and the whole active set re-scheduled by a suspension).  And what a step merges is a
\* function of its active set: in whatever order the invocations finish, a fan-out of
\* one node included, the block is in canonical order (the index sort before
\* apply_super_step).
StepsWhole ==
  [][log' # log =>
       LET c == Last(log')
           state == IF base = 0 THEN EmptyState ELSE log[base].state
           next == IF base = 0 THEN <<Entry>> ELSE log[base].next
       IN \/ c.state = state /\ c.next = next
          \/ /\ c.state.writes # <<>>
             /\ Front(c.state.writes) = state.writes
             /\ next = Names(run.active)
             /\ Canonical(Last(c.state.writes), run.active)]_vars

\* A checkpoint loses no message: what its run held, queued, carried or in
\* delivery, and what the checkpoint before it had stamped, is stamped in it or
\* was delivered to a step merged into its state, unless a cancellation dropped it
\* or the code gave it up where forfeited says so (Inbox::snapshot and the
\* pending_delivery each call adds to it).
CheckpointComplete ==
  [][log' # log =>
       LET c == Last(log')
           held == Queued(inbox) \cup ToSet(run.carried) \cup ToSet(run.delivery)
           stamped == IF base = 0 THEN {} ELSE Stamped(log[base].stamp)
       IN held \cup stamped \subseteq
            Stamped(c.stamp) \cup ToSet(c.state.seen) \cup dropped' \cup forfeited']_vars

\* In every state the run or a checkpoint holds, the messages delivered to merged
\* steps are in intake order kind by kind, and none is there twice: neither a
\* resume, with the old handle or a new one, nor the re-execution of a discarded
\* step delivers a message again or overtakes an earlier one.
SeenInOrder ==
  LET InOrder(seen) ==
        \A i, j \in DOMAIN seen :
          i < j /\ seen[i].kind = seen[j].kind => seen[i].id < seen[j].id
  IN InOrder(run.state.seen) /\ \A c \in DOMAIN log : InOrder(log[c].state.seen)

\* The premise SeenInOrder has over many segments, which is how the documentation of
\* Inbox wants a handle used: the same handle goes to the resume that follows its run.
\* A resume from any other checkpoint gets a handle without settled messages.
KeepsBranch ==
  [][~Live /\ base' # base /\ base' # 0 => Queued(inbox) = {}]_vars

\* No segment passes the step ceiling, follow-up extensions included, and settling
\* never overfills a queue: what is queued and what is pending of a kind stay within
\* its bound together, a queue restored from a stamp included.
WithinBounds ==
  /\ ExecTypeOK
  /\ run.steps_run <= MaxSteps
  /\ \A k \in Kinds : Len(Settled(inbox)[k]) <= MaxQueue

\* With nodes that return, every run ends: a cyclic graph and a stream of follow-ups
\* included, because the step ceiling counts both.
RunEnds == Live ~> ~Live

\* "the suspension checkpoint carries it as the pending delivery the resume
\* re-serves, making the re-executed step see exactly what this attempt saw":
\* a resumed run begins with the batch and the invocations its checkpoint left.
ResumeReserves ==
  [][~Live /\ Live' /\ base' # 0 /\ log[base'].stamp # None =>
       /\ run'.carried = log[base'].stamp.pending_delivery
       /\ run'.active = log[base'].tasks]_vars

=============================================================================
