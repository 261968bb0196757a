------------------------------ MODULE Triggers ------------------------------
(***************************************************************************)
(* Webhook triggers of rusty-server (triggers.rs) over the file store      *)
(* (server_store.rs): signed deliveries, the event log, repeats inside the *)
(* repeat window, debounced bursts and their flush tasks, replays, and the *)
(* registry's update, delete and create beside them.                       *)
(*                                                                         *)
(* There is one trigger.  A request makes at most one event, so a request  *)
(* names its event; a burst is flushed by the task <<q>> where q made its  *)
(* first event.  A store call is one step, everything between two awaits   *)
(* belongs to the step before it, and a dropped connection may end a       *)
(* request at any await.  Signatures are valid; refused deliveries change  *)
(* nothing and are left out.  A debounce window may close at any time; the *)
(* clock is there for the repeat window.                                   *)
(***************************************************************************)
EXTENDS Naturals, Sequences, SequencesExt, FiniteSets

CONSTANTS
  Reqs,        \* webhook deliveries and replays
  Bytes,       \* signed bodies
  Canonical,   \* Canonical[b]: the body that b's parsed payload serialises to
  Configs,     \* trigger records: [enabled, debounce, repeat]
  Drafts,      \* the records a trigger may be created with
  Window,      \* repeat_window_ms, in ticks: 0 is less than a tick
  MaxBatch,    \* MAX_DEBOUNCE_BATCH
  MaxEvents,   \* MAX_EVENTS_PER_TRIGGER
  MaxNow,      \* bound: the clock
  MaxTrouble,  \* bound: faults, restarts, updates and deletions together
  None

ASSUME TriggersAssumption ==
  /\ IsFiniteSet(Reqs)
  /\ Canonical \in [Bytes -> Bytes]
  /\ \A b \in Bytes : Canonical[Canonical[b]] = Canonical[b]
  /\ Configs \subseteq [enabled : BOOLEAN, debounce : BOOLEAN, repeat : BOOLEAN]
  /\ Drafts \subseteq Configs
  /\ Window \in Nat
  /\ MaxBatch \in Nat \ {0}
  /\ MaxEvents \in Nat \ {0}
  /\ MaxNow \in Nat /\ MaxTrouble \in Nat
  /\ None \notin Reqs \cup Bytes \cup Configs

Flushes == {<<q>> : q \in Reqs}
Procs == Reqs \cup Flushes

\* A request is not a flush task.
ASSUME ProcAssumption == Reqs \cap Flushes = {}

VARIABLES
  trigger,  \* durable: the trigger record, or None
  log,      \* the event log in memory, oldest first
  disk,     \* durable: the event files
  buffer,   \* trigger_debounce: the pending burst [ids, generation], or None
  timers,   \* armed flush tasks: [event, generation]
  proc,     \* requests and flush tasks
  admin,    \* the registry request being served, or None
  runs,     \* durable: accepted runs, each with the event_ids of its metadata
  now,      \* the clock, in ticks
  faults,   \* failed writes, failed actions and dropped requests so far
  restarts, \* restarts so far
  updates,  \* updates so far
  deletes   \* deletions so far

vars == <<trigger, log, disk, buffer, timers, proc, admin, runs, now,
          faults, restarts, updates, deletes>>
bounds == <<restarts, updates, deletes>>

Spare == faults + restarts + updates + deletes < MaxTrouble
Fault == Spare /\ faults' = faults + 1

\* Locals of a request or a flush task.
Idle == [pc |-> "idle", next |-> None, hash |-> None, payload |-> None, snap |-> None,
         ids |-> <<>>, of |-> None, status |-> None, run |-> None, read |-> None,
         created |-> 0, acked |-> FALSE, seen |-> {}]

At(p, pc) == proc[p].pc = pc
Goto(p, pc) == proc' = [proc EXCEPT ![p].pc = pc]
Ended == {"idle", "done"}

\* What is remembered of a request that has ended.
End(p, acked) ==
  [Idle EXCEPT !.pc = "done", !.hash = proc[p].hash, !.snap = proc[p].snap,
               !.created = proc[p].created, !.seen = proc[p].seen, !.acked = acked]

Init ==
  /\ trigger \in Drafts
  /\ log = <<>>
  /\ disk = {}
  /\ buffer = None
  /\ timers = {}
  /\ proc = [p \in Procs |-> Idle]
  /\ admin = None
  /\ runs = {}
  /\ now = 0
  /\ faults = 0
  /\ restarts = 0
  /\ updates = 0
  /\ deletes = 0

-----------------------------------------------------------------------------
(* The event log.                                                          *)

\* The record a request's event has in the log; "of" is duplicate_of or replayed_from.
Event(q, status) ==
  [id |-> q, hash |-> proc[q].hash, payload |-> proc[q].payload, status |-> status,
   run |-> proc[q].run, created |-> proc[q].created, of |-> proc[q].of]

Logged(q) == {i \in DOMAIN log : log[i].id = q}

Upserted(e) ==
  IF Logged(e.id) = {} THEN Append(log, e)
  ELSE [i \in DOMAIN log |-> IF log[i].id = e.id THEN e ELSE log[i]]

\* append_trigger_event: the index first, then the file, then retention.
append_trigger_event(e) ==
  LET all == Upserted(e)
      over == IF Len(all) > MaxEvents THEN Len(all) - MaxEvents ELSE 0
      dropped == {all[i].id : i \in 1..over}
  IN /\ log' = SubSeq(all, over + 1, Len(all))
     /\ disk' = {x \in disk : x.id # e.id /\ x.id \notin dropped}
                  \cup (IF e.id \in dropped THEN {} ELSE {e})

\* The file write fails: the index already has the event, and the file is as it was
\* or torn, which the next load skips.
AppendFails(e) ==
  /\ Fault
  /\ log' = Upserted(e)
  /\ disk' \in {disk, {x \in disk : x.id # e.id}}

-----------------------------------------------------------------------------
(* bump_counters: the whole record is read and written back.               *)

\* After the counters: the answer, the action or the log.
Bumped(p) ==
  IF proc[p].next = "done" THEN End(p, p \in Reqs)
  ELSE [proc[p] EXCEPT !.pc = proc[p].next, !.read = None]

BumpRead(p) ==
  /\ At(p, "bump")
  /\ proc' = [proc EXCEPT ![p] = IF trigger = None THEN Bumped(p)
                                 ELSE [@ EXCEPT !.pc = "bumping", !.read = trigger]]
  /\ UNCHANGED <<trigger, log, disk, buffer, timers, admin, runs, now, faults, bounds>>

BumpWrite(p) ==
  /\ At(p, "bumping")
  /\ \/ trigger' = proc[p].read /\ UNCHANGED faults
     \/ Fault /\ UNCHANGED trigger
  /\ proc' = [proc EXCEPT ![p] = Bumped(p)]
  /\ UNCHANGED <<log, disk, buffer, timers, admin, runs, now, bounds>>

-----------------------------------------------------------------------------
(* webhook.                                                                *)

\* The trigger is found, the signature verifies and it is enabled.
webhook(q, b) ==
  /\ At(q, "idle")
  /\ trigger # None
  /\ trigger.enabled
  /\ proc' = [proc EXCEPT ![q] =
       [@ EXCEPT !.pc = "lookup", !.hash = b, !.payload = Canonical[b],
                 !.snap = trigger, !.ids = <<q>>,
                 !.seen = {r \in Reqs : proc[r].acked /\ proc[r].hash = b}]]
  /\ UNCHANGED <<trigger, log, disk, buffer, timers, admin, runs, now, faults, bounds>>

\* The events a delivery may repeat.
Repeatable_Run(q) ==
  {i \in DOMAIN log :
     /\ proc[q].snap.repeat
     /\ log[i].hash = proc[q].hash
     /\ log[i].created + Window >= now
     /\ log[i].status \in {"executed", "coalesced"}}

Repeatable(q) ==
  {i \in DOMAIN log :
     /\ proc[q].snap.repeat
     /\ log[i].hash = proc[q].hash
     /\ log[i].created + Window >= now
     /\ log[i].status \in {"pending", "executed", "coalesced"}}

repeat_of(q) ==
  /\ At(q, "lookup")
  /\ \/ /\ Repeatable(q) # {}
        /\ LET latest == {i \in Repeatable(q) :
                            \A j \in Repeatable(q) : log[j].created <= log[i].created}
               original == log[CHOOSE i \in latest : \A j \in latest : j <= i]
           IN proc' = [proc EXCEPT ![q].pc = "duplicate", ![q].created = now,
                                   ![q].of = original.id, ![q].run = original.run]
     \/ /\ Repeatable(q) = {}
        /\ proc' = [proc EXCEPT ![q].pc = IF proc[q].snap.debounce THEN "buffer" ELSE "bump",
                                ![q].next = "execute", ![q].created = now]
  /\ UNCHANGED <<trigger, log, disk, buffer, timers, admin, runs, now, faults, bounds>>

LogDuplicate(q) ==
  /\ At(q, "duplicate")
  /\ \/ /\ append_trigger_event(Event(q, "duplicate"))
        /\ proc' = [proc EXCEPT ![q].pc = "bump", ![q].next = "done"]
        /\ UNCHANGED faults
     \/ AppendFails(Event(q, "duplicate")) /\ proc' = [proc EXCEPT ![q] = End(q, FALSE)]
  /\ UNCHANGED <<trigger, buffer, timers, admin, runs, now, bounds>>

\* buffer_event, first half: the pending event is logged.
LogPending(q) ==
  /\ At(q, "buffer")
  /\ \/ append_trigger_event(Event(q, "pending")) /\ Goto(q, "push") /\ UNCHANGED faults
     \/ AppendFails(Event(q, "pending")) /\ proc' = [proc EXCEPT ![q] = End(q, FALSE)]
  /\ UNCHANGED <<trigger, buffer, timers, admin, runs, now, bounds>>

Burst == IF buffer = None THEN [ids |-> <<>>, generation |-> 0] ELSE buffer

\* A drained burst becomes the flush task of its first event.
Spawned(ps, b) == [ps EXCEPT ![<<Head(b.ids)>>] = [@ EXCEPT !.pc = "reload", !.ids = b.ids]]

\* buffer_event, second half: push, and flush at the batch cap or arm a flush.
Push(q) ==
  /\ At(q, "push")
  /\ LET pushed == [ids |-> Append(Burst.ids, q), generation |-> Burst.generation + 1]
         bumping == [proc EXCEPT ![q].pc = "bump", ![q].next = "done"]
     IN IF Len(pushed.ids) >= MaxBatch
          THEN /\ buffer' = None
               /\ proc' = Spawned(bumping, pushed)
               /\ UNCHANGED timers
          ELSE /\ buffer' = pushed
               /\ timers' = timers \cup {[event |-> q, generation |-> pushed.generation]}
               /\ proc' = bumping
  /\ UNCHANGED <<trigger, log, disk, admin, runs, now, faults, bounds>>

-----------------------------------------------------------------------------
(* Replays, and the action shared by deliveries, replays and flushes.      *)

replay_event(q, i) ==
  /\ At(q, "idle")
  /\ trigger # None
  /\ trigger.enabled
  /\ proc' = [proc EXCEPT ![q] =
       [@ EXCEPT !.pc = "execute", !.hash = log[i].payload, !.payload = log[i].payload,
                 !.snap = trigger, !.ids = <<q>>, !.of = log[i].id]]
  /\ UNCHANGED <<trigger, log, disk, buffer, timers, admin, runs, now, faults, bounds>>

\* execute_action: one accepted run for all the events, or an error.
execute_action_Optimistic(p) ==
  /\ At(p, "execute")
  /\ \/ /\ runs' = runs \cup {[id |-> p, events |-> Range(proc[p].ids)]}
        /\ UNCHANGED faults
     \/ Fault /\ UNCHANGED runs
  /\ proc' = [proc EXCEPT ![p] =
       [@ EXCEPT !.created = now, !.run = p,
                 !.status = IF p \in Flushes THEN "coalesced" ELSE "executed",
                 !.pc = IF p \in Flushes THEN "fetch" ELSE "bump",
                 !.next = IF p \in Flushes THEN "done" ELSE "log"]]
  /\ UNCHANGED <<trigger, log, disk, buffer, timers, admin, now, bounds>>

execute_action(p) ==
  /\ At(p, "execute")
  /\ LET started == [proc[p] EXCEPT !.created = now]
         done == IF p \in Flushes THEN "coalesced" ELSE "executed"
     IN \/ /\ runs' = runs \cup {[id |-> p, events |-> Range(proc[p].ids)]}
           /\ proc' = [proc EXCEPT ![p] =
                [started EXCEPT !.status = done, !.run = p,
                                !.pc = IF p \in Flushes THEN "fetch" ELSE "bump",
                                !.next = IF p \in Flushes THEN "done" ELSE "log"]]
           /\ UNCHANGED faults
        \/ /\ Fault
           /\ proc' = [proc EXCEPT ![p] =
                [started EXCEPT !.status = "failed",
                                !.pc = IF p \in Flushes THEN "fetch" ELSE "log"]]
           /\ UNCHANGED runs
  /\ UNCHANGED <<trigger, log, disk, buffer, timers, admin, now, bounds>>

\* The tail of execute_and_log: the event is logged with its final status.
LogOutcome(q) ==
  /\ At(q, "log")
  /\ LET e == Event(q, proc[q].status)
     IN \/ /\ append_trigger_event(e)
           /\ proc' = [proc EXCEPT ![q] = End(q, e.status = "executed")]
           /\ UNCHANGED faults
        \/ AppendFails(e) /\ proc' = [proc EXCEPT ![q] = End(q, FALSE)]
  /\ UNCHANGED <<trigger, buffer, timers, admin, runs, now, bounds>>

-----------------------------------------------------------------------------
(* The flush of a burst.                                                   *)

\* A flush task wakes and drains the burst if its generation still matches.
arm_flush_Keeps(t) ==
  /\ timers' = timers \ {t}
  /\ IF buffer # None /\ Burst.generation = t.generation
       THEN proc' = Spawned(proc, buffer) /\ UNCHANGED buffer
       ELSE UNCHANGED <<buffer, proc>>
  /\ UNCHANGED <<trigger, log, disk, admin, runs, now, faults, bounds>>

arm_flush_Full(t) ==
  /\ IF buffer # None /\ Burst.generation = t.generation
       THEN IF Len(buffer.ids) >= MaxBatch
              THEN buffer' = None /\ proc' = Spawned(proc, buffer) /\ timers' = timers \ {t}
              ELSE UNCHANGED <<buffer, proc, timers>>
       ELSE timers' = timers \ {t} /\ UNCHANGED <<buffer, proc>>
  /\ UNCHANGED <<trigger, log, disk, admin, runs, now, faults, bounds>>

arm_flush(t) ==
  /\ timers' = timers \ {t}
  /\ IF buffer # None /\ Burst.generation = t.generation
       THEN buffer' = None /\ proc' = Spawned(proc, buffer)
       ELSE UNCHANGED <<buffer, proc>>
  /\ UNCHANGED <<trigger, log, disk, admin, runs, now, faults, bounds>>

\* flush_buffer reads the trigger again.
flush_buffer(f) ==
  /\ At(f, "reload")
  /\ IF trigger # None /\ trigger.enabled
       THEN Goto(f, "execute")
       ELSE proc' = [proc EXCEPT ![f].pc = "fetch", ![f].status = "failed"]
  /\ UNCHANGED <<trigger, log, disk, buffer, timers, admin, runs, now, faults, bounds>>

\* The task moves on to the next event of its burst; after the last one a run is
\* counted.
Advanced(f) ==
  LET rest == Tail(proc[f].ids)
  IN IF rest = <<>> /\ proc[f].status = "failed" THEN End(f, FALSE)
     ELSE [proc[f] EXCEPT !.ids = rest, !.read = None,
                          !.pc = IF rest = <<>> THEN "bump" ELSE "fetch"]

\* transition_events: each event is read, and written with the outcome.
FetchEvent(f) ==
  /\ At(f, "fetch")
  /\ LET found == Logged(Head(proc[f].ids))
     IN proc' = [proc EXCEPT ![f] =
          IF found = {} THEN Advanced(f)
          ELSE [@ EXCEPT !.pc = "store", !.read = log[CHOOSE i \in found : TRUE]]]
  /\ UNCHANGED <<trigger, log, disk, buffer, timers, admin, runs, now, faults, bounds>>

StoreEvent(f) ==
  /\ At(f, "store")
  /\ LET e == [proc[f].read EXCEPT !.status = proc[f].status, !.run = proc[f].run]
     IN \/ append_trigger_event(e) /\ UNCHANGED faults
        \/ AppendFails(e)
  /\ proc' = [proc EXCEPT ![f] = Advanced(f)]
  /\ UNCHANGED <<trigger, buffer, timers, admin, runs, now, bounds>>

-----------------------------------------------------------------------------
(* The registry.                                                           *)

\* update_trigger reads the record, changes fields of it and writes it back.
UpdateRead(c) ==
  /\ admin = None
  /\ trigger # None
  /\ c # trigger
  /\ Spare
  /\ updates' = updates + 1
  /\ admin' = [op |-> "update", record |-> c]
  /\ UNCHANGED <<trigger, log, disk, buffer, timers, proc, runs, now, faults,
                 restarts, deletes>>

UpdateWrite ==
  /\ admin # None
  /\ admin.op = "update"
  /\ trigger' = admin.record
  /\ admin' = None
  /\ UNCHANGED <<log, disk, buffer, timers, proc, runs, now, faults, bounds>>

\* delete_trigger: the record and its event log go in the store; removing the event
\* files may fail.
DeleteRecord ==
  /\ admin = None
  /\ trigger # None
  /\ Spare
  /\ deletes' = deletes + 1
  /\ trigger' = None
  /\ log' = <<>>
  /\ \/ disk' = {} /\ UNCHANGED faults
     \/ Fault /\ UNCHANGED disk
  /\ admin' = [op |-> "delete", record |-> None]
  /\ UNCHANGED <<buffer, timers, proc, runs, now, restarts, updates>>

\* ... and then the burst in memory.
DropBurst ==
  /\ admin # None
  /\ admin.op = "delete"
  /\ buffer' = None
  /\ admin' = None
  /\ UNCHANGED <<trigger, log, disk, timers, proc, runs, now, faults, bounds>>

\* create_trigger under the id of a deleted one.
create_trigger(c) ==
  /\ admin = None
  /\ trigger = None
  /\ trigger' = c
  /\ UNCHANGED <<log, disk, buffer, timers, proc, admin, runs, now, faults, bounds>>

-----------------------------------------------------------------------------
(* The environment.                                                        *)

Tick ==
  /\ now < MaxNow
  /\ now' = now + 1
  /\ UNCHANGED <<trigger, log, disk, buffer, timers, proc, admin, runs, faults, bounds>>

\* The connection closes and the handler's future is dropped at an await.
Dropped(q) ==
  /\ proc[q].pc \notin Ended
  /\ Fault
  /\ proc' = [proc EXCEPT ![q] = End(q, FALSE)]
  /\ UNCHANGED <<trigger, log, disk, buffer, timers, admin, runs, now, bounds>>

\* Crash or drain, and reload: bursts and tasks are gone, the log is the event files
\* by created_at and then by event id, which is random.
Restart ==
  /\ Spare
  /\ restarts' = restarts + 1
  /\ log' \in {s \in SetToSeqs(disk) :
                 \A i, j \in DOMAIN s : i < j => s[i].created <= s[j].created}
  /\ buffer' = None
  /\ timers' = {}
  /\ proc' = [p \in Procs |-> IF proc[p].pc \in Ended THEN proc[p]
                              ELSE End(p, FALSE)]
  /\ admin' = None
  /\ UNCHANGED <<trigger, disk, runs, now, faults, updates, deletes>>

-----------------------------------------------------------------------------
Request(q) ==
  \/ repeat_of(q)
  \/ LogDuplicate(q)
  \/ LogPending(q)
  \/ Push(q)
  \/ LogOutcome(q)

Flush(f) ==
  \/ flush_buffer(f)
  \/ FetchEvent(f)
  \/ StoreEvent(f)

Shared(p) ==
  \/ execute_action(p)
  \/ BumpRead(p)
  \/ BumpWrite(p)

Registry ==
  \/ \E c \in Configs : UpdateRead(c)
  \/ \E c \in Drafts : create_trigger(c)
  \/ UpdateWrite
  \/ DeleteRecord
  \/ DropBurst

Next ==
  \/ \E q \in Reqs :
       \/ \E b \in Bytes : webhook(q, b)
       \/ \E i \in DOMAIN log : replay_event(q, i)
       \/ Request(q)
       \/ Dropped(q)
  \/ \E f \in Flushes : Flush(f)
  \/ \E p \in Procs : Shared(p)
  \/ \E t \in timers : arm_flush(t)
  \/ Registry
  \/ Tick
  \/ Restart

Spec == Init /\ [][Next]_vars

\* Spawned flush tasks run on and sleeping ones wake; nothing else is promised.
FairSpec ==
  /\ Spec
  /\ \A f \in Flushes : WF_vars(Flush(f) \/ Shared(f))
  /\ \A q \in Reqs : WF_vars(\E t \in timers : t.event = q /\ arm_flush(t))

-----------------------------------------------------------------------------
(* Properties.                                                             *)

EventRecord ==
  [id : Reqs, hash : Bytes, payload : Bytes,
   status : {"pending", "executed", "failed", "coalesced", "duplicate"},
   run : Procs \cup {None}, created : 0..MaxNow, of : Reqs \cup {None}]

\* Log and files hold well-formed events, each event once, within the retention cap
\* but for one whose file write failed (append_trigger_event) and those a failed
\* removal left for the next load (delete_trigger); a burst stays below the batch cap
\* (buffer_event).
TriggerTypeOK ==
  /\ trigger \in Configs \cup {None}
  /\ log \in Seq(EventRecord)
  /\ \A q \in Reqs : Cardinality(Logged(q)) <= 1
  /\ deletes = 0 => Len(log) <= MaxEvents + faults
  /\ disk \subseteq EventRecord
  /\ \A x, y \in disk : x.id = y.id => x = y
  /\ buffer = None \/ (Len(buffer.ids) \in 1..(MaxBatch - 1) /\ Range(buffer.ids) \subseteq Reqs)
  /\ timers \subseteq [event : Reqs, generation : 1..MaxBatch]

Ran(q) == \E r \in runs : q \in r.events

\* An event takes part in at most one run, though several flush tasks of one trigger
\* sleep at once and a generation number comes back after a drain (arm_flush,
\* buffer_event): a replay runs under an event of its own.
RunOnce ==
  \A r, s \in runs : r.events \cap s.events # {} => r = s

\* What the log and the files say of an event is what happened: executed and
\* coalesced events name the run that has them, failed and duplicate ones took part
\* in no run, and a duplicate names a run of its original (execute_and_log,
\* transition_events, webhook).
LogTruthful ==
  TriggerTypeOK /\ \A e \in Range(log) \cup disk :
    /\ e.status \in {"executed", "coalesced"} =>
         \E r \in runs : r.id = e.run /\ e.id \in r.events
    /\ e.status \in {"failed", "duplicate"} => ~Ran(e.id)
    /\ e.status = "duplicate" /\ e.run # None =>
         \E r \in runs : r.id = e.run /\ e.of \in r.events

\* A delivery acknowledged before its retry arrives is not run a second time inside
\* the repeat window, whether it was buffered or run at once, was flushed meanwhile
\* or the server restarted, unless the trigger and with it the log was deleted, the
\* server restarted after a write that may have torn the delivery's file, or more events
\* came than the log keeps.
RetryNotRerun ==
  Cardinality(Reqs) <= MaxEvents /\ deletes = 0 /\ (faults = 0 \/ restarts = 0) =>
    \A q \in Reqs : \A r \in proc[q].seen :
      /\ proc[q].snap.repeat
      /\ Ran(q)
      /\ Ran(r)
      => proc[r].created + Window < proc[q].created

Sleeping == {t \in timers : buffer # None /\ t.generation = buffer.generation}

\* A pending event is about to run: its request is about to push it, it is in the
\* burst and a flush task of the burst's generation sleeps, or a flush task holds it.
\* Only a restart, a deletion or a fault leaves one behind (buffer_event, arm_flush).
PendingHeld ==
  faults = 0 /\ restarts = 0 /\ deletes = 0 =>
    \A i \in DOMAIN log :
      log[i].status = "pending" =>
        LET q == log[i].id
        IN \/ At(q, "push")
           \/ buffer # None /\ q \in Range(buffer.ids) /\ Sleeping # {}
           \/ \E f \in Flushes : proc[f].pc \notin Ended /\ q \in Range(proc[f].ids)

Pending(q) == \E i \in DOMAIN log : log[i].id = q /\ log[i].status = "pending"

\* A buffered event leaves pending when its window closes, whatever else arrives,
\* unless the server restarts, the trigger is deleted or a write fails: the newest
\* flush task always drains.
BurstFires ==
  \A q \in Reqs :
    buffer # None /\ q \in Range(Burst.ids) /\ Pending(q)
      ~> (~Pending(q) \/ restarts > 0 \/ deletes > 0)

-----------------------------------------------------------------------------
(* Claims of the documentation that do not hold of the code.               *)

\* "A trigger with `repeat_window_ms` treats a delivery whose signed bytes match an
\* event it already ran inside the window as a `duplicate` of that event: [...] never
\* a second run": two deliveries of the same bytes inside the window share one run.
NeverSecondRun ==
  \A i, j \in DOMAIN log :
    /\ {log[i].status, log[j].status} \subseteq {"executed", "coalesced"}
    /\ log[i].of = None /\ log[j].of = None
    /\ log[i].hash = log[j].hash
    /\ log[j].created \in log[i].created..(log[i].created + Window)
    => log[i].run = log[j].run

\* A duplicate repeats an event that was "run (or about to run). Failed originals
\* [...] don't count": no acknowledged duplicate is of an event that failed.
DuplicateAnswered ==
  \A i, j \in DOMAIN log :
    log[i].status = "duplicate" /\ log[j].id = log[i].of => log[j].status # "failed"

\* A deleted trigger comes back only when it is created again: bump_counters skips a
\* trigger "deleted between receipt and bookkeeping".
DeleteStands ==
  [][trigger = None /\ trigger' # None => UNCHANGED proc]_vars

\* "flush tasks older than the current generation exit without draining (a newer push
\* re-armed the window)": the burst is drained by the flush task of its newest event.
NewestDrains ==
  [][\A t \in timers \ timers' :
       restarts' = restarts /\ buffer # None /\ buffer' = None
         => t.event = Last(Burst.ids)]_vars

\* "Every received event is recorded": an event that ran is in the log.
RunsLogged ==
  \A r \in runs : proc[r.id].pc = "done" /\ deletes = 0 =>
    \A q \in r.events : Logged(q) # {}
=============================================================================
