--------------------------- MODULE TriggersProofs ---------------------------
(***************************************************************************)
(* Theorems about Triggers, for any number of requests, bodies and faults, *)
(* any batch cap, retention cap and repeat window.                         *)
(*                                                                         *)
(* An event that may still run is in one place: its request, the burst, or *)
(* a flush task (Custody).  From there it can only move on or be given up, *)
(* so an event that has not run and is nowhere is spent for good, which is *)
(* what "failed" and "duplicate" in the log stand for (Told).  A retry is  *)
(* recognised because the log never loses the event of an acknowledged     *)
(* delivery, nor its hash and time (Filed, Stamped).                       *)
(***************************************************************************)
EXTENDS Triggers, TLAPS, FiniteSetTheorems, FunctionTheorems, SequenceTheorems,
        WellFoundedInduction

USE TriggersAssumption, ProcAssumption

-----------------------------------------------------------------------------
(* The invariant. *)

RequestStages == {"idle", "lookup", "duplicate", "buffer", "push", "bump", "bumping",
                  "execute", "log", "done"}
FlushStages == {"idle", "reload", "execute", "fetch", "store", "bump", "bumping", "done"}

Local ==
  [pc : RequestStages \cup FlushStages, next : {"done", "execute", "log", None},
   hash : Bytes \cup {None}, payload : Bytes \cup {None}, snap : Configs \cup {None},
   ids : Seq(Reqs), of : Reqs \cup {None}, status : {"executed", "coalesced", "failed", None},
   run : Procs \cup {None}, read : Configs \cup EventRecord \cup {None},
   created : 0..MaxNow, acked : BOOLEAN, seen : SUBSET Reqs]

BurstType == [ids : Seq(Reqs), generation : Nat]

Typed ==
  /\ trigger \in Configs \cup {None}
  /\ log \in Seq(EventRecord)
  /\ disk \subseteq EventRecord /\ IsFiniteSet(disk)
  /\ buffer # None => /\ buffer \in BurstType
                      /\ buffer.generation = Len(buffer.ids)
                      /\ buffer.generation \in 1..(MaxBatch - 1)
  /\ timers \subseteq [event : Reqs, generation : 1..MaxBatch]
  /\ proc \in [Procs -> Local]
  /\ admin # None /\ admin.op = "update" => admin.record \in Configs
  /\ now \in 0..MaxNow
  /\ faults \in Nat /\ restarts \in Nat /\ updates \in Nat /\ deletes \in Nat

\* Each event is logged once and has one file; while nothing was deleted a file's
\* event is in the log, and while nothing failed either, the files are the log.
Indexed ==
  /\ \A i, j \in DOMAIN log : log[i].id = log[j].id => i = j
  /\ \A x, y \in disk : x.id = y.id => x = y
  /\ deletes = 0 => /\ Len(log) <= MaxEvents + faults
                    /\ \A x \in disk : \E i \in DOMAIN log : log[i].id = x.id
  /\ deletes = 0 /\ faults = 0 => \A i \in DOMAIN log : log[i] \in disk

\* The events a request or a flush task may still run.
Carries(p) ==
  IF p \in Reqs
  THEN IF \/ At(p, "idle") \/ At(p, "lookup") \/ At(p, "buffer") \/ At(p, "push")
          \/ At(p, "execute")
          \/ (At(p, "bump") \/ At(p, "bumping")) /\ proc[p].next = "execute"
       THEN {p} ELSE {}
  ELSE IF At(p, "reload") \/ At(p, "execute") THEN Range(proc[p].ids) ELSE {}

Buffered == IF buffer = None THEN {} ELSE Range(buffer.ids)

Held(q) == q \in Buffered \/ \E p \in Procs : q \in Carries(p)

\* An event that may run is in one place and has not run; one that ran, ran once.
Custody ==
  /\ \A r \in runs : r.events \subseteq Reqs
  /\ \A q \in Reqs :
       /\ \A p, s \in Procs : q \in Carries(p) /\ q \in Carries(s) => p = s
       /\ q \in Buffered => \A p \in Procs : q \notin Carries(p)
       /\ Held(q) => ~Ran(q)
       /\ \A r, s \in runs : q \in r.events /\ q \in s.events => r = s

\* The event has not run and never will.
Spent(q) == ~Ran(q) /\ ~Held(q)

RanAs(run, q) == \E r \in runs : r.id = run /\ q \in r.events

\* What a record of the log or a file says.
Told(e) ==
  /\ e.status \in {"executed", "coalesced"} => RanAs(e.run, e.id)
  /\ e.status \in {"failed", "duplicate"} => Spent(e.id)
  /\ e.status = "duplicate" /\ e.run # None => RanAs(e.run, e.of)
  /\ e.status = "pending" => e.run = None

Counting(p, next) == (At(p, "bump") \/ At(p, "bumping")) /\ proc[p].next = next

\* A request about to log an outcome.
Settling(q) == At(q, "log") \/ Counting(q, "log")

RequestTrue(q) ==
  /\ proc[q].pc \in RequestStages
  /\ At(q, "idle") => proc[q] = Idle
  /\ ~At(q, "idle") /\ ~At(q, "done") =>
       proc[q].hash \in Bytes /\ proc[q].payload \in Bytes /\ proc[q].ids = <<q>>
  /\ At(q, "bump") \/ At(q, "bumping") => proc[q].next \in {"done", "execute", "log"}
  /\ At(q, "lookup") \/ At(q, "buffer") => proc[q].run = None
  /\ At(q, "duplicate") => Spent(q) /\ (proc[q].run # None => RanAs(proc[q].run, proc[q].of))
  /\ Settling(q) => /\ proc[q].status \in {"executed", "failed"}
                    /\ proc[q].status = "executed" => RanAs(proc[q].run, q)
                    /\ proc[q].status = "failed" => Spent(q)

FlushTrue(f) ==
  /\ proc[f].pc \in FlushStages
  /\ At(f, "idle") => proc[f] = Idle
  /\ At(f, "bump") \/ At(f, "bumping") => proc[f].next = "done"
  /\ At(f, "reload") \/ At(f, "execute") => proc[f].ids # <<>>
  /\ At(f, "fetch") \/ At(f, "store") =>
       /\ proc[f].ids # <<>>
       /\ proc[f].status \in {"coalesced", "failed"}
       /\ proc[f].status = "coalesced" =>
            /\ proc[f].next = "done"
            /\ \A i \in DOMAIN proc[f].ids : RanAs(proc[f].run, proc[f].ids[i])
       /\ proc[f].status = "failed" => \A i \in DOMAIN proc[f].ids : Spent(proc[f].ids[i])
  /\ At(f, "store") => proc[f].read \in EventRecord /\ proc[f].read.id = Head(proc[f].ids)

Truth ==
  /\ \A i \in DOMAIN log : Told(log[i])
  /\ \A x \in disk : Told(x)
  /\ \A q \in Reqs : RequestTrue(q)
  /\ \A f \in Flushes : FlushTrue(f)
  /\ \A p \in Procs : At(p, "bumping") => proc[p].read \in Configs

IInv == Typed /\ Indexed /\ Custody /\ Truth

\* The request has logged its event and will not touch it again.
Logging(q) == At(q, "push") \/ Counting(q, "done") \/ At(q, "done")

\* A record has the hash and the time its request has kept.
Stamped(e) ==
  Logging(e.id) /\ proc[e.id].hash = e.hash /\ proc[e.id].created = e.created

\* The event of a logged or acknowledged delivery is in the log, unless it is spent.
Filed(q) ==
  Spent(q) \/ \E i \in DOMAIN log :
                log[i].id = q /\ log[i].status \in {"pending", "executed", "coalesced"}

Stamps ==
  /\ \A i \in DOMAIN log : Stamped(log[i])
  /\ \A x \in disk : Stamped(x)
  /\ \A f \in Flushes : At(f, "store") => Stamped(proc[f].read)

Lossless == Cardinality(Reqs) <= MaxEvents /\ deletes = 0 /\ (faults = 0 \/ restarts = 0)

\* Past the lookup, an acknowledged delivery it repeats is spent or too old.
Heeded(q) ==
  \A r \in proc[q].seen :
    Spent(r) \/ proc[r].created + Window < proc[q].created

\* It has told, or may tell, its sender that the event is logged.
Claims(q) == At(q, "push") \/ Counting(q, "done") \/ proc[q].acked

\* It is past the lookup of a trigger with a repeat window.
Past(q) == ~At(q, "idle") /\ ~At(q, "lookup") /\ proc[q].snap.repeat

RetryInv ==
  /\ Stamps
  /\ \A q \in Reqs : proc[q].created <= now
  /\ \A q \in Reqs : proc[q].acked => At(q, "done")
  /\ \A q \in Reqs : \A r \in proc[q].seen : proc[r].acked /\ proc[r].hash = proc[q].hash
  /\ Lossless => \A q \in Reqs : /\ Claims(q) => Filed(q)
                                 /\ Past(q) => Spent(q) \/ Heeded(q)

-----------------------------------------------------------------------------
(* The event log. *)

LEMMA RecordTyped ==
  ASSUME NEW s \in Seq(EventRecord)
  PROVE  \A i \in DOMAIN s : s[i] \in EventRecord
OBVIOUS

\* The index with e in its place, or at the end.
LEMMA UpsertedFacts ==
  ASSUME Typed, Indexed, NEW e \in EventRecord
  PROVE  /\ Upserted(e) \in Seq(EventRecord)
         /\ \A i, j \in DOMAIN Upserted(e) : Upserted(e)[i].id = Upserted(e)[j].id => i = j
         /\ Len(Upserted(e)) <= Len(log) + 1
         /\ \A i \in DOMAIN Upserted(e) :
              \/ Upserted(e)[i] = e
              \/ Upserted(e)[i].id # e.id /\ \E j \in DOMAIN log : Upserted(e)[i] = log[j]
         /\ \E i \in DOMAIN Upserted(e) : Upserted(e)[i] = e
         /\ \A j \in DOMAIN log : log[j].id # e.id =>
              \E i \in DOMAIN Upserted(e) : Upserted(e)[i] = log[j]
<1>1. log \in Seq(EventRecord) /\ \A i, j \in DOMAIN log : log[i].id = log[j].id => i = j
  BY DEF Typed, Indexed
<1>2. CASE Logged(e.id) = {}
  <2>1. Upserted(e) = Append(log, e)
    BY <1>2 DEF Upserted
  <2>2. \A i \in DOMAIN log : log[i].id # e.id
    BY <1>2 DEF Logged
  <2>3. /\ Append(log, e) \in Seq(EventRecord)
        /\ Len(Append(log, e)) = Len(log) + 1
        /\ \A i \in 1..(Len(log) + 1) : Append(log, e)[i] = IF i = Len(log) + 1 THEN e ELSE log[i]
    BY <1>1, AppendProperties
  <2>4. /\ DOMAIN Append(log, e) = 1..(Len(log) + 1) /\ DOMAIN log = 1..Len(log) /\ Len(log) \in Nat
    BY <1>1, <2>3
  <2> QED BY <1>1, <2>1, <2>2, <2>3, <2>4
<1>3. CASE Logged(e.id) # {}
  <2> DEFINE all == [i \in DOMAIN log |-> IF log[i].id = e.id THEN e ELSE log[i]]
  <2>1. Upserted(e) = all
    BY <1>3 DEF Upserted
  <2>2. DOMAIN log = 1..Len(log) /\ Len(log) \in Nat
    BY <1>1
  <2>3. \A i \in DOMAIN log : all[i] \in EventRecord
    BY <1>1, RecordTyped
  <2>4. all \in Seq(EventRecord) /\ Len(all) = Len(log) /\ DOMAIN all = DOMAIN log
    BY <2>2, <2>3
  <2>5. PICK k \in DOMAIN log : log[k].id = e.id
    BY <1>3 DEF Logged
  <2>6. \A i \in DOMAIN log : all[i] = IF log[i].id = e.id THEN e ELSE log[i]
    OBVIOUS
  <2> HIDE DEF all
  <2> QED BY <1>1, <2>1, <2>2, <2>4, <2>5, <2>6
<1> QED BY <1>2, <1>3

\* The files after an append.
LEMMA AppendFacts ==
  ASSUME Typed, Indexed, NEW e \in EventRecord, append_trigger_event(e),
         deletes' = deletes, faults' = faults
  PROVE  /\ log' \in Seq(EventRecord)
         /\ disk' \subseteq EventRecord /\ IsFiniteSet(disk')
         /\ Indexed'
         /\ \A i \in DOMAIN log' : log'[i] = e \/ \E j \in DOMAIN log : log'[i] = log[j]
         /\ \A x \in disk' : x = e \/ x \in disk
<1> DEFINE all == Upserted(e)
           over == IF Len(all) > MaxEvents THEN Len(all) - MaxEvents ELSE 0
           dropped == {all[i].id : i \in 1..over}
<1>1. /\ log' = SubSeq(all, over + 1, Len(all))
      /\ disk' = {x \in disk : x.id # e.id /\ x.id \notin dropped}
                   \cup (IF e.id \in dropped THEN {} ELSE {e})
  BY DEF append_trigger_event
<1>2. /\ all \in Seq(EventRecord)
      /\ \A i, j \in DOMAIN all : all[i].id = all[j].id => i = j
      /\ Len(all) <= Len(log) + 1
      /\ \A i \in DOMAIN all :
           all[i] = e \/ (all[i].id # e.id /\ \E j \in DOMAIN log : all[i] = log[j])
      /\ \E i \in DOMAIN all : all[i] = e
      /\ \A j \in DOMAIN log : log[j].id # e.id => \E i \in DOMAIN all : all[i] = log[j]
  BY UpsertedFacts
<1> HIDE DEF all
<1>3. over \in Nat /\ Len(all) \in Nat /\ over <= Len(all) /\ Len(all) - over <= MaxEvents
      /\ (Len(all) <= MaxEvents => over = 0)
  BY <1>2
<1> HIDE DEF over
<1>4. /\ log' \in Seq(EventRecord) /\ Len(log') = Len(all) - over
      /\ \A i \in 1..(Len(all) - over) : log'[i] = all[over + i]
  <2>1. over + 1 \in 1..(Len(all) + 1) /\ Len(all) \in over..Len(all)
    BY <1>3
  <2>2. /\ log' \in Seq(EventRecord)
        /\ Len(log') = IF over + 1 <= Len(all) THEN Len(all) - (over + 1) + 1 ELSE 0
        /\ \A i \in 1..(Len(all) - (over + 1) + 1) : log'[i] = all[over + 1 + i - 1]
    BY <1>1, <1>2, <1>3, <2>1, SubSeqProperties
  <2>3. Len(all) - (over + 1) + 1 = Len(all) - over
    BY <1>3
  <2>4. \A i \in 1..(Len(all) - over) : over + 1 + i - 1 = over + i
    BY <1>3
  <2>5. Len(log') = Len(all) - over
    BY <1>3, <2>2
  <2> QED BY <2>2, <2>3, <2>4, <2>5
<1>5. DOMAIN log' = 1..(Len(all) - over) /\ DOMAIN all = 1..Len(all)
  BY <1>2, <1>4
<1>6. \A i \in DOMAIN log' : over + i \in DOMAIN all /\ over + i > over /\ log'[i] = all[over + i]
  BY <1>3, <1>4, <1>5
<1>7. \A i \in DOMAIN all : i > over => i - over \in DOMAIN log' /\ log'[i - over] = all[i]
  BY <1>3, <1>5, <1>6
<1>8. \A i \in DOMAIN all : i > over <=> all[i].id \notin dropped
  <2>1. \A i \in DOMAIN all : all[i].id \in dropped <=> \E k \in 1..over : all[k].id = all[i].id
    OBVIOUS
  <2>2. \A k \in 1..over : k \in DOMAIN all
    BY <1>3, <1>5
  <2>3. \A i \in DOMAIN all : all[i].id \in dropped <=> i \in 1..over
    BY <1>2, <2>1, <2>2
  <2> QED BY <1>3, <1>5, <2>3
<1>9. \A x \in disk' : \/ x = e /\ e.id \notin dropped
                       \/ x \in disk /\ x.id # e.id /\ x.id \notin dropped
  BY <1>1
<1>10. e.id \notin dropped => e \in disk'
  BY <1>1
<1>11. \A x \in disk : x.id # e.id /\ x.id \notin dropped => x \in disk'
  BY <1>1
<1> HIDE DEF dropped
<1>12. disk' \subseteq EventRecord /\ IsFiniteSet(disk')
  <2>1. IsFiniteSet(disk \cup {e})
    BY FS_AddElement DEF Typed
  <2>2. disk' \subseteq disk \cup {e}
    BY <1>9
  <2> QED BY <2>1, <2>2, FS_Subset DEF Typed
<1>13. \A i \in DOMAIN log' : log'[i] = e \/ \E j \in DOMAIN log : log'[i] = log[j]
  BY <1>2, <1>6
<1>14. Indexed'
  <2>1. \A i, j \in DOMAIN log' : log'[i].id = log'[j].id => i = j
    <3> SUFFICES ASSUME NEW i \in DOMAIN log', NEW j \in DOMAIN log', log'[i].id = log'[j].id
                 PROVE  i = j
      OBVIOUS
    <3>1. over + i = over + j
      BY <1>2, <1>6
    <3> QED BY <3>1, <1>3, <1>5
  <2>2. \A x, y \in disk' : x.id = y.id => x = y
    BY <1>9 DEF Indexed
  <2>3. ASSUME deletes = 0
        PROVE  /\ Len(log') <= MaxEvents + faults
               /\ \A x \in disk' : \E i \in DOMAIN log' : log'[i].id = x.id
    <3>1. Len(log') <= MaxEvents + faults
      BY <1>3, <1>4 DEF Typed
    <3>2. ASSUME NEW x \in disk' PROVE \E i \in DOMAIN log' : log'[i].id = x.id
      <4>1. \E i \in DOMAIN all : all[i].id = x.id
        BY <1>2, <1>9, <2>3 DEF Indexed
      <4>2. x.id \notin dropped
        BY <1>9
      <4> QED BY <1>7, <1>8, <4>1, <4>2
    <3> QED BY <3>1, <3>2
  <2>4. ASSUME deletes = 0, faults = 0, NEW i \in DOMAIN log'
        PROVE  log'[i] \in disk'
    <3>1. log'[i].id \notin dropped
      BY <1>6, <1>8
    <3>2. CASE log'[i] = e
      BY <1>10, <3>1, <3>2
    <3>3. CASE log'[i].id # e.id /\ \E j \in DOMAIN log : log'[i] = log[j]
      BY <1>11, <2>4, <3>1, <3>3 DEF Indexed
    <3> QED BY <1>2, <1>6, <3>2, <3>3
  <2>5. deletes' = 0 => /\ Len(log') <= MaxEvents + faults'
                        /\ \A x \in disk' : \E i \in DOMAIN log' : log'[i].id = x.id
    BY <2>3
  <2>6. deletes' = 0 /\ faults' = 0 => \A i \in DOMAIN log' : log'[i] \in disk'
    BY <2>4
  <2> QED BY <2>1, <2>2, <2>5, <2>6 DEF Indexed
<1> QED BY <1>4, <1>9, <1>12, <1>13, <1>14

LEMMA AppendFailsFacts ==
  ASSUME Typed, Indexed, NEW e \in EventRecord, AppendFails(e), deletes' = deletes
  PROVE  /\ log' \in Seq(EventRecord)
         /\ disk' \subseteq EventRecord /\ IsFiniteSet(disk')
         /\ faults' = faults + 1
         /\ Indexed'
         /\ \A i \in DOMAIN log' : log'[i] = e \/ \E j \in DOMAIN log : log'[i] = log[j]
         /\ \A x \in disk' : x \in disk
<1>1. log' = Upserted(e) /\ faults' = faults + 1 /\ disk' \subseteq disk
  BY DEF AppendFails, Fault
<1>2. IsFiniteSet(disk') /\ disk' \subseteq EventRecord
  BY <1>1, FS_Subset DEF Typed
<1>3. Indexed'
  <2>1. \A x \in disk : (\E i \in DOMAIN log : log[i].id = x.id) =>
          \E i \in DOMAIN log' : log'[i].id = x.id
    <3> SUFFICES ASSUME NEW x \in disk, NEW i \in DOMAIN log, log[i].id = x.id
                 PROVE  \E k \in DOMAIN log' : log'[k].id = x.id
      OBVIOUS
    <3>1. CASE x.id = e.id
      <4>1. \E k \in DOMAIN log' : log'[k] = e
        BY <1>1, UpsertedFacts
      <4> QED BY <3>1, <4>1
    <3>2. CASE x.id # e.id
      <4>1. \E k \in DOMAIN log' : log'[k] = log[i]
        BY <1>1, <3>2, UpsertedFacts
      <4> QED BY <4>1
    <3> QED BY <3>1, <3>2
  <2>2. Len(log') <= Len(log) + 1 /\ Len(log) \in Nat /\ Len(log') \in Nat
    BY <1>1, UpsertedFacts DEF Typed
  <2>3. deletes = 0 => Len(log') <= MaxEvents + faults'
    BY <1>1, <2>2 DEF Indexed, Typed
  <2>4. faults' # 0
    BY <1>1 DEF Typed
  <2>5. \A i, j \in DOMAIN log' : log'[i].id = log'[j].id => i = j
    BY <1>1, UpsertedFacts
  <2> QED BY <1>1, <2>1, <2>3, <2>4, <2>5 DEF Indexed
<1> QED BY <1>1, <1>2, <1>3, UpsertedFacts

-----------------------------------------------------------------------------
(* Custody. *)

\* Who does not move carries what it carried.
LEMMA CarriesSame ==
  ASSUME NEW s \in Procs, proc'[s] = proc[s]
  PROVE  Carries(s)' = Carries(s)
BY DEF Carries, At

LEMMA CarriesOf ==
  ASSUME proc \in [Procs -> Local], NEW p \in Procs
  PROVE  Carries(p) \subseteq Reqs
<1>1. proc[p].ids \in Seq(Reqs)
  BY DEF Local
<1>2. \A i \in DOMAIN proc[p].ids : proc[p].ids[i] \in Reqs
  BY <1>1
<1> QED BY <1>2 DEF Carries, Range

\* Nothing comes from nowhere: a spent event stays spent.
LEMMA SpentStays ==
  ASSUME \A q \in Reqs : Held(q)' => Held(q),
         \A q \in Reqs : Ran(q)' => Ran(q) \/ Held(q)
  PROVE  \A q \in Reqs : Spent(q) => Spent(q)'
BY DEF Spent

\* What every step keeps: the invariant, and spent events spent.
Kept == IInv' /\ \A q \in Reqs : Spent(q) => Spent(q)'

\* Steps that only let events go.
Shrinks ==
  /\ runs' = runs
  /\ Buffered' \subseteq Buffered
  /\ \A p \in Procs : Carries(p)' \subseteq Carries(p)

LEMMA ShrinksHeld ==
  ASSUME Shrinks
  PROVE  /\ \A q \in Reqs : Held(q)' => Held(q)
         /\ \A q \in Reqs : Ran(q)' <=> Ran(q)
         /\ \A q \in Reqs : Spent(q) => Spent(q)'
<1>1. \A q \in Reqs : Held(q)' => Held(q)
  BY DEF Shrinks, Held
<1>2. \A q \in Reqs : Ran(q)' <=> Ran(q)
  BY DEF Shrinks, Ran
<1> QED BY <1>1, <1>2, SpentStays

LEMMA ShrinksCustody ==
  ASSUME Custody, Shrinks
  PROVE  Custody'
<1>1. \A q \in Reqs : (Held(q)' => Held(q)) /\ (Ran(q)' <=> Ran(q))
  BY ShrinksHeld
<1>2. \A q \in Reqs : \A p \in Procs : q \in Carries(p)' => q \in Carries(p)
  BY DEF Shrinks
<1>3. \A q \in Reqs : q \in Buffered' => q \in Buffered
  BY DEF Shrinks
<1>4. runs' = runs
  BY DEF Shrinks
<1> QED BY <1>1, <1>2, <1>3, <1>4 DEF Custody

-----------------------------------------------------------------------------
(* What was true stays true. *)

\* Runs are not taken back.
LEMMA RanAsStays ==
  ASSUME runs \subseteq runs'
  PROVE  \A x, q : RanAs(x, q) => RanAs(x, q)'
BY DEF RanAs

LEMMA ToldStays ==
  ASSUME runs \subseteq runs', \A q \in Reqs : Spent(q) => Spent(q)'
  PROVE  \A e \in EventRecord : Told(e) => Told(e)'
<1>1. \A e \in EventRecord : e.id \in Reqs
  BY DEF EventRecord
<1> QED BY <1>1, RanAsStays DEF Told

LEMMA OthersStay ==
  ASSUME runs \subseteq runs', \A q \in Reqs : Spent(q) => Spent(q)',
         proc \in [Procs -> Local], NEW s \in Procs, proc'[s] = proc[s]
  PROVE  /\ s \in Reqs /\ RequestTrue(s) => RequestTrue(s)'
         /\ FlushTrue(s) => FlushTrue(s)'
<1>1. proc[s].ids \in Seq(Reqs)
  BY DEF Local
<1>2. \A i \in DOMAIN proc[s].ids : proc[s].ids[i] \in Reqs
  BY <1>1
<1>3. \A pc : At(s, pc)' <=> At(s, pc)
  BY DEF At
<1>4. s \in Reqs /\ RequestTrue(s) => RequestTrue(s)'
  BY <1>3, RanAsStays DEF RequestTrue, Settling, Counting
<1>5. FlushTrue(s) => FlushTrue(s)'
  BY <1>2, <1>3, RanAsStays DEF FlushTrue
<1> QED BY <1>4, <1>5

-----------------------------------------------------------------------------
(* One process moves. *)

\* The step of p to the locals l, which let go of events and gain none.
Moves(p, l) ==
  /\ proc' = [proc EXCEPT ![p] = l]
  /\ UNCHANGED <<buffer, timers, admin, runs, now, restarts, updates, deletes>>

LEMMA MovesFacts ==
  ASSUME Typed, NEW p \in Procs, NEW l \in Local, Moves(p, l)
  PROVE  /\ proc' \in [Procs -> Local] /\ proc'[p] = l
         /\ \A s \in Procs \ {p} : proc'[s] = proc[s] /\ Carries(s)' = Carries(s)
         /\ Carries(p)' \subseteq Carries(p) => Shrinks
<1>1. proc' \in [Procs -> Local] /\ proc'[p] = l /\ \A s \in Procs \ {p} : proc'[s] = proc[s]
  BY DEF Typed, Moves
<1>2. \A s \in Procs \ {p} : Carries(s)' = Carries(s)
  BY <1>1, CarriesSame
<1>3. Buffered' = Buffered /\ runs' = runs
  BY DEF Moves, Buffered
<1> QED BY <1>1, <1>2, <1>3 DEF Shrinks

\* What p carried and lets go is spent.
LEMMA LetGo ==
  ASSUME IInv, NEW p \in Procs, NEW l \in Local, Moves(p, l), Carries(p)' = {}
  PROVE  \A q \in Carries(p) : Spent(q)'
<1> SUFFICES ASSUME NEW q \in Carries(p) PROVE Spent(q)'
  OBVIOUS
<1>1. q \in Reqs
  BY CarriesOf DEF IInv, Typed
<1>2. \A s \in Procs \ {p} : Carries(s)' = Carries(s)
  BY MovesFacts DEF IInv
<1>3. Buffered' = Buffered /\ runs' = runs
  BY DEF Moves, Buffered
<1>4. q \notin Buffered /\ ~Ran(q) /\ \A s \in Procs \ {p} : q \notin Carries(s)
  BY <1>1 DEF IInv, Custody, Held
<1>5. ~Ran(q)'
  BY <1>3, <1>4 DEF Ran
<1>6. ~Held(q)'
  BY <1>2, <1>3, <1>4 DEF Held
<1> QED BY <1>5, <1>6 DEF Spent

LEMMA MovesKeep ==
  ASSUME IInv, NEW p \in Procs, NEW l \in Local, Moves(p, l),
         Carries(p)' \subseteq Carries(p),
         p \in Reqs => RequestTrue(p)',
         p \in Flushes => FlushTrue(p)',
         l.pc = "bumping" => l.read \in Configs,
         trigger' \in Configs \cup {None}, faults' \in Nat,
         log' \in Seq(EventRecord), disk' \subseteq EventRecord, IsFiniteSet(disk'), Indexed',
         \A i \in DOMAIN log' : (\E j \in DOMAIN log : log'[i] = log[j]) \/ Told(log[i])',
         \A x \in disk' : x \in disk \/ Told(x)'
  PROVE  Kept
<1>1. Typed /\ Indexed /\ Custody /\ Truth
  BY DEF IInv
<1>2. /\ proc' \in [Procs -> Local] /\ proc'[p] = l
      /\ \A s \in Procs \ {p} : proc'[s] = proc[s] /\ Carries(s)' = Carries(s)
      /\ Shrinks
  BY <1>1, MovesFacts
<1>3. Typed'
  BY <1>1, <1>2 DEF Typed, Moves
<1>4. Custody'
  BY <1>1, <1>2, ShrinksCustody
<1>5. runs \subseteq runs' /\ \A q \in Reqs : Spent(q) => Spent(q)'
  BY <1>2, ShrinksHeld DEF Shrinks
<1>6. Truth'
  <2>1. (\A i \in DOMAIN log : Told(log[i]))'
    <3> SUFFICES ASSUME NEW i \in DOMAIN log', NEW j \in DOMAIN log, log'[i] = log[j]
                 PROVE  Told(log[i])'
      OBVIOUS
    <3>1. PICK e \in EventRecord : e = log[j]
      BY <1>1, RecordTyped DEF Typed
    <3>2. Told(e)'
      BY <1>1, <1>5, <3>1, ToldStays DEF Truth
    <3>3. e = log'[i]
      BY <3>1
    <3> QED BY <3>2, <3>3 DEF Told
  <2>2. (\A x \in disk : Told(x))'
    <3> SUFFICES ASSUME NEW x \in disk', x \in disk PROVE Told(x)'
      OBVIOUS
    <3> QED BY <1>1, <1>5, ToldStays DEF Truth, Typed
  <2>3. (\A q \in Reqs : RequestTrue(q))'
    <3> SUFFICES ASSUME NEW q \in Reqs PROVE RequestTrue(q)'
      OBVIOUS
    <3>1. CASE q = p
      BY <3>1
    <3>2. CASE q # p
      BY <1>1, <1>2, <1>5, <3>2, OthersStay DEF Truth, Typed, Procs
    <3> QED BY <3>1, <3>2
  <2>4. (\A f \in Flushes : FlushTrue(f))'
    <3> SUFFICES ASSUME NEW f \in Flushes PROVE FlushTrue(f)'
      OBVIOUS
    <3>1. CASE f = p
      BY <3>1
    <3>2. CASE f # p
      BY <1>1, <1>2, <1>5, <3>2, OthersStay DEF Truth, Typed, Procs
    <3> QED BY <3>1, <3>2
  <2>5. (\A s \in Procs : At(s, "bumping") => proc[s].read \in Configs)'
    BY <1>1, <1>2 DEF Truth, At
  <2> QED BY <2>1, <2>2, <2>3, <2>4, <2>5 DEF Truth
<1> QED BY <1>1, <1>3, <1>4, <1>5, <1>6 DEF IInv, Kept

\* As above, with the log and the files as they are.
LEMMA MovesQuietly ==
  ASSUME IInv, NEW p \in Procs, NEW l \in Local, Moves(p, l), UNCHANGED <<log, disk>>,
         Carries(p)' \subseteq Carries(p),
         p \in Reqs => RequestTrue(p)',
         p \in Flushes => FlushTrue(p)',
         l.pc = "bumping" => l.read \in Configs,
         trigger' \in Configs \cup {None}, faults' \in Nat, faults' >= faults
  PROVE  Kept
<1>1. log' \in Seq(EventRecord) /\ disk' \subseteq EventRecord /\ IsFiniteSet(disk')
  BY DEF IInv, Typed
<1>2. faults' = 0 => faults = 0
  BY DEF IInv, Typed
<1>3. Len(log) \in Nat /\ faults \in Nat
  BY DEF IInv, Typed
<1>4. deletes' = deletes /\ log' = log /\ disk' = disk
  BY DEF Moves
<1>5. deletes = 0 => Len(log) <= MaxEvents + faults'
  BY <1>3 DEF IInv, Indexed
<1>6. Indexed'
  BY <1>2, <1>4, <1>5 DEF IInv, Indexed
<1> QED BY <1>1, <1>6, MovesKeep

-----------------------------------------------------------------------------
(* Requests and flush tasks, step by step. *)

LEMMA IdleTyped == Idle \in Local
<1>1. <<>> \in Seq(Reqs) /\ {} \in SUBSET Reqs /\ 0 \in 0..MaxNow
  OBVIOUS
<1>2. FALSE \in BOOLEAN
  BY Zenon
<1> QED BY <1>1, <1>2 DEF Idle, Local, RequestStages

LEMMA EndTyped ==
  ASSUME proc \in [Procs -> Local], NEW p \in Procs, NEW acked, acked \in BOOLEAN
  PROVE  /\ End(p, acked) \in Local
         /\ End(p, acked).pc = "done"
<1>1. /\ proc[p].hash \in Bytes \cup {None} /\ proc[p].snap \in Configs \cup {None}
      /\ proc[p].created \in 0..MaxNow /\ proc[p].seen \in SUBSET Reqs
  BY DEF Local
<1> DEFINE l == [Idle EXCEPT !.pc = "done", !.hash = proc[p].hash, !.snap = proc[p].snap,
                             !.created = proc[p].created, !.seen = proc[p].seen]
<1>2. l \in Local /\ l.pc = "done"
  BY <1>1, IdleTyped DEF Local, RequestStages
<1>3. End(p, acked) = [l EXCEPT !.acked = acked]
  BY DEF End, Idle
<1> HIDE DEF l
<1>4. [l EXCEPT !.acked = acked] \in Local
  BY <1>2 DEF Local
<1>5. [l EXCEPT !.acked = acked].pc = "done"
  BY <1>2 DEF Local
<1> QED BY <1>3, <1>4, <1>5

\* A request or task that is over.
LEMMA OverTrue ==
  ASSUME NEW p \in Procs, proc'[p].pc = "done"
  PROVE  /\ p \in Reqs => RequestTrue(p)'
         /\ p \in Flushes => FlushTrue(p)'
         /\ Carries(p)' = {}
<1>1. \A pc : At(p, pc)' <=> pc = "done"
  BY DEF At
<1>2. p \in Reqs => RequestTrue(p)'
  BY <1>1 DEF RequestTrue, RequestStages, Settling, Counting
<1>3. p \in Flushes => FlushTrue(p)'
  BY <1>1 DEF FlushTrue, FlushStages
<1>4. Carries(p)' = {}
  BY <1>1 DEF Carries
<1> QED BY <1>2, <1>3, <1>4

\* The step after the counters.
LEMMA BumpedStep ==
  ASSUME IInv, NEW p \in Procs, At(p, "bump") \/ At(p, "bumping"), Moves(p, Bumped(p))
  PROVE  /\ Bumped(p) \in Local
         /\ Carries(p)' \subseteq Carries(p)
         /\ p \in Reqs => RequestTrue(p)'
         /\ p \in Flushes => FlushTrue(p)'
         /\ Bumped(p).pc # "bumping"
<1>1. proc \in [Procs -> Local] /\ proc[p] \in Local
  BY DEF IInv, Typed
<1>2. CASE proc[p].next = "done"
  <2>1. Bumped(p) = End(p, p \in Reqs)
    BY <1>2 DEF Bumped
  <2>2. (p \in Reqs) \in BOOLEAN
    OBVIOUS
  <2>3. Bumped(p) \in Local /\ Bumped(p).pc = "done"
    BY <1>1, <2>1, <2>2, EndTyped
  <2>4. proc'[p].pc = "done"
    BY <1>1, <2>3 DEF Moves
  <2> QED BY <2>3, <2>4, OverTrue
<1>3. CASE proc[p].next # "done"
  <2>1. Bumped(p) = [proc[p] EXCEPT !.pc = proc[p].next, !.read = None]
    BY <1>3 DEF Bumped
  <2>2. p \notin Flushes
    BY <1>3 DEF IInv, Truth, FlushTrue
  <2>3. p \in Reqs /\ RequestTrue(p)
    BY <2>2 DEF Procs, IInv, Truth
  <2>4. proc[p].next \in {"execute", "log"}
    BY <1>1, <1>3, <2>3 DEF RequestTrue, Local
  <2>5. Bumped(p) \in Local
    BY <1>1, <2>1, <2>4 DEF Local, RequestStages
  <2>6. proc'[p] = Bumped(p)
    BY <1>1 DEF Moves
  <2>7. /\ proc'[p].pc = proc[p].next /\ proc'[p].hash = proc[p].hash
        /\ proc'[p].payload = proc[p].payload /\ proc'[p].ids = proc[p].ids
        /\ proc'[p].status = proc[p].status /\ proc'[p].run = proc[p].run
    BY <1>1, <2>1, <2>6 DEF Local
  <2>8. \A pc : At(p, pc)' <=> pc = proc[p].next
    BY <2>7 DEF At
  <2>9. Carries(p)' \subseteq Carries(p)
    BY <2>3, <2>4, <2>8 DEF Carries
  <2>10. Shrinks
    BY <2>5, <2>9, MovesFacts DEF IInv
  <2>11. runs \subseteq runs' /\ \A q \in Reqs : Spent(q) => Spent(q)'
    BY <2>10, ShrinksHeld DEF Shrinks
  <2>12. RequestTrue(p)'
    <3>1. proc[p].next = "log" => Settling(p)
      BY DEF Settling, Counting
    <3>2. Settling(p)' <=> proc[p].next = "log"
      BY <2>4, <2>8 DEF Settling, Counting
    <3>3. proc'[p].hash \in Bytes /\ proc'[p].payload \in Bytes /\ proc'[p].ids = <<p>>
      BY <2>3, <2>7 DEF RequestTrue, At
    <3>4. Settling(p)' => /\ proc'[p].status \in {"executed", "failed"}
                          /\ proc'[p].status = "executed" => RanAs(proc[p].run, p)'
                          /\ proc'[p].status = "failed" => Spent(p)'
      <4>1. PICK x : x = proc[p].run
        OBVIOUS
      <4>2. x = proc'[p].run
        BY <2>7, <4>1
      <4>3. Settling(p)' => /\ proc[p].status \in {"executed", "failed"}
                            /\ proc[p].status = "executed" => RanAs(x, p)'
                            /\ proc[p].status = "failed" => Spent(p)'
        BY <2>3, <2>11, <3>1, <3>2, <4>1, RanAsStays DEF RequestTrue
      <4> QED BY <2>7, <4>2, <4>3 DEF RanAs
    <3> QED BY <2>4, <2>7, <2>8, <3>3, <3>4 DEF RequestTrue, RequestStages
  <2>13. Bumped(p).pc # "bumping"
    BY <2>4, <2>6, <2>7
  <2> QED BY <2>2, <2>5, <2>9, <2>12, <2>13
<1> QED BY <1>2, <1>3

LEMMA BumpSteps ==
  ASSUME IInv, NEW p \in Procs, BumpRead(p) \/ BumpWrite(p)
  PROVE  Kept
<1>1. proc \in [Procs -> Local] /\ proc[p] \in Local /\ faults \in Nat /\ trigger \in Configs \cup {None}
  BY DEF IInv, Typed
<1>2. CASE BumpRead(p) /\ trigger # None
  <2> DEFINE l == [proc[p] EXCEPT !.pc = "bumping", !.read = trigger]
  <2>1. At(p, "bump") /\ Moves(p, l) /\ UNCHANGED <<trigger, log, disk, faults>>
    BY <1>2 DEF BumpRead, Moves, bounds
  <2>2. l \in Local /\ l.pc = "bumping" /\ l.read \in Configs
    BY <1>1, <1>2 DEF Local, RequestStages
  <2>3. /\ proc'[p].pc = "bumping" /\ proc'[p].next = proc[p].next /\ proc'[p].hash = proc[p].hash
        /\ proc'[p].payload = proc[p].payload /\ proc'[p].ids = proc[p].ids
        /\ proc'[p].status = proc[p].status /\ proc'[p].run = proc[p].run
    BY <1>1, <2>1 DEF Local, Moves
  <2>4. \A pc : At(p, pc)' <=> pc = "bumping"
    BY <2>3 DEF At
  <2>5. \A pc : At(p, pc) <=> pc = "bump"
    BY <2>1 DEF At
  <2>6. Carries(p)' = Carries(p)
    BY <2>3, <2>4, <2>5 DEF Carries
  <2> HIDE DEF l
  <2>7. Shrinks
    BY <2>1, <2>2, <2>6, MovesFacts DEF IInv
  <2>8. runs \subseteq runs' /\ \A q \in Reqs : Spent(q) => Spent(q)'
    BY <2>7, ShrinksHeld DEF Shrinks
  <2>9. p \in Reqs => RequestTrue(p)'
    <3> SUFFICES ASSUME p \in Reqs PROVE RequestTrue(p)'
      OBVIOUS
    <3>1. RequestTrue(p)
      BY DEF IInv, Truth
    <3>2. Settling(p)' <=> Settling(p)
      BY <2>3, <2>4, <2>5 DEF Settling, Counting
    <3>3. RanAs(proc[p].run, p) => RanAs(proc[p].run, p)'
      BY <2>3, <2>8 DEF RanAs
    <3> QED BY <2>3, <2>4, <2>5, <2>8, <3>1, <3>2, <3>3 DEF RequestTrue, RequestStages
  <2>10. p \in Flushes => FlushTrue(p)'
    BY <2>3, <2>4, <2>5 DEF IInv, Truth, FlushTrue, FlushStages
  <2> QED BY <1>1, <2>1, <2>2, <2>6, <2>9, <2>10, MovesQuietly
<1>3. CASE BumpRead(p) /\ trigger = None
  <2>1. At(p, "bump") /\ Moves(p, Bumped(p)) /\ UNCHANGED <<trigger, log, disk, faults>>
    BY <1>3 DEF BumpRead, Moves, bounds
  <2> QED BY <1>1, <2>1, BumpedStep, MovesQuietly
<1>4. CASE BumpWrite(p)
  <2>1. /\ At(p, "bumping") /\ Moves(p, Bumped(p)) /\ UNCHANGED <<log, disk>>
        /\ trigger' \in {trigger, proc[p].read} /\ faults' \in {faults, faults + 1}
    BY <1>4 DEF BumpWrite, Moves, bounds, Fault
  <2>2. proc[p].read \in Configs
    BY <2>1 DEF IInv, Truth
  <2>3. trigger' \in Configs \cup {None} /\ faults' \in Nat /\ faults' >= faults
    BY <1>1, <2>1, <2>2
  <2> QED BY <2>1, <2>3, BumpedStep, MovesQuietly
<1> QED BY <1>2, <1>3, <1>4

\* A step that also writes e to the log.
LEMMA MovesLogging ==
  ASSUME IInv, NEW p \in Procs, NEW l \in Local, Moves(p, l), NEW e \in EventRecord,
         (append_trigger_event(e) /\ faults' = faults) \/ AppendFails(e),
         trigger' = trigger,
         Carries(p)' \subseteq Carries(p),
         p \in Reqs => RequestTrue(p)',
         p \in Flushes => FlushTrue(p)',
         l.pc # "bumping",
         Told(e)'
  PROVE  Kept
<1>1. Typed /\ Indexed /\ deletes' = deletes
  BY DEF IInv, Moves
<1>2. /\ log' \in Seq(EventRecord)
      /\ disk' \subseteq EventRecord /\ IsFiniteSet(disk')
      /\ Indexed'
      /\ \A i \in DOMAIN log' : log'[i] = e \/ \E j \in DOMAIN log : log'[i] = log[j]
      /\ \A x \in disk' : x = e \/ x \in disk
  BY <1>1, AppendFacts, AppendFailsFacts
<1>3. faults' \in Nat /\ trigger' \in Configs \cup {None}
  BY <1>1 DEF Typed, AppendFails, Fault
<1>4. \A i \in DOMAIN log' : (\E j \in DOMAIN log : log'[i] = log[j]) \/ Told(log[i])'
  BY <1>2 DEF Told
<1>5. \A x \in disk' : x \in disk \/ Told(x)'
  BY <1>2
<1> QED BY <1>2, <1>3, <1>4, <1>5, MovesKeep

\* Where a request's record stands.
LEMMA RequestAt ==
  ASSUME IInv, NEW q \in Reqs
  PROVE  /\ q \in Procs /\ q \notin Flushes
         /\ proc \in [Procs -> Local] /\ proc[q] \in Local
         /\ RequestTrue(q)
BY DEF IInv, Typed, Truth, Procs

LEMMA EventTyped ==
  ASSUME IInv, NEW q \in Reqs, ~At(q, "idle"), ~At(q, "done"),
         NEW status \in {"pending", "executed", "failed", "coalesced", "duplicate"}
  PROVE  /\ Event(q, status) \in EventRecord
         /\ Event(q, status).id = q /\ Event(q, status).status = status
         /\ Event(q, status).run = proc[q].run /\ Event(q, status).of = proc[q].of
         /\ Event(q, status).hash = proc[q].hash /\ Event(q, status).created = proc[q].created
<1>1. /\ proc[q].hash \in Bytes /\ proc[q].payload \in Bytes
      /\ proc[q].run \in Procs \cup {None} /\ proc[q].of \in Reqs \cup {None}
      /\ proc[q].created \in 0..MaxNow
  BY RequestAt DEF RequestTrue, Local
<1> QED BY <1>1 DEF Event, EventRecord

\* The locals of a request after a step that keeps its hash, payload and ids.
LEMMA WebhookSteps ==
  ASSUME IInv, NEW q \in Reqs, \E b \in Bytes : webhook(q, b)
  PROVE  Kept
<1>1. PICK b \in Bytes : webhook(q, b)
  OBVIOUS
<1>2. q \in Procs /\ q \notin Flushes /\ proc \in [Procs -> Local] /\ proc[q] = Idle /\ proc[q] \in Local
  BY <1>1, RequestAt DEF RequestTrue, webhook
<1> DEFINE seen == {r \in Reqs : proc[r].acked /\ proc[r].hash = b}
           l == [proc[q] EXCEPT !.pc = "lookup", !.hash = b, !.payload = Canonical[b],
                                !.snap = trigger, !.ids = <<q>>, !.seen = seen]
<1>3. Moves(q, l) /\ UNCHANGED <<trigger, log, disk, faults>>
  BY <1>1 DEF webhook, Moves, bounds
<1>4. seen \in SUBSET Reqs /\ Canonical[b] \in Bytes /\ <<q>> \in Seq(Reqs)
  OBVIOUS
<1>5. trigger \in Configs \cup {None} /\ faults \in Nat
  BY DEF IInv, Typed
<1> HIDE DEF seen
<1>6. l \in Local
  BY <1>2, <1>4, <1>5 DEF Local, RequestStages
<1>7. /\ l.pc = "lookup" /\ l.hash \in Bytes /\ l.payload \in Bytes /\ l.ids = <<q>>
      /\ l.run = None
  BY <1>2, <1>4 DEF Local, Idle
<1> HIDE DEF l
<1>8. proc'[q] = l
  BY <1>2, <1>3 DEF Moves
<1>9. \A pc : At(q, pc)' <=> pc = "lookup"
  BY <1>7, <1>8 DEF At
<1>10. Carries(q)' \subseteq Carries(q)
  BY <1>1, <1>9 DEF Carries, webhook
<1>11. RequestTrue(q)'
  BY <1>7, <1>8, <1>9 DEF RequestTrue, RequestStages, Settling, Counting
<1> QED BY <1>2, <1>3, <1>5, <1>6, <1>7, <1>10, <1>11, MovesQuietly

LEMMA ReplaySteps ==
  ASSUME IInv, NEW q \in Reqs, \E i \in DOMAIN log : replay_event(q, i)
  PROVE  Kept
<1>1. PICK i \in DOMAIN log : replay_event(q, i)
  OBVIOUS
<1>2. q \in Procs /\ q \notin Flushes /\ proc \in [Procs -> Local] /\ proc[q] = Idle /\ proc[q] \in Local
  BY <1>1, RequestAt DEF RequestTrue, replay_event
<1> DEFINE l == [proc[q] EXCEPT !.pc = "execute", !.hash = log[i].payload, !.payload = log[i].payload,
                                !.snap = trigger, !.ids = <<q>>, !.of = log[i].id]
<1>3. Moves(q, l) /\ UNCHANGED <<trigger, log, disk, faults>>
  BY <1>1 DEF replay_event, Moves, bounds
<1>4. log[i].payload \in Bytes /\ log[i].id \in Reqs /\ <<q>> \in Seq(Reqs)
  <2>1. log[i] \in EventRecord
    BY RecordTyped DEF IInv, Typed
  <2> QED BY <2>1 DEF EventRecord
<1>5. trigger \in Configs \cup {None} /\ faults \in Nat
  BY DEF IInv, Typed
<1>6. l \in Local
  BY <1>2, <1>4, <1>5 DEF Local, RequestStages
<1>7. l.pc = "execute" /\ l.hash \in Bytes /\ l.payload \in Bytes /\ l.ids = <<q>>
  BY <1>2, <1>4 DEF Local, Idle
<1> HIDE DEF l
<1>8. proc'[q] = l
  BY <1>2, <1>3 DEF Moves
<1>9. \A pc : At(q, pc)' <=> pc = "execute"
  BY <1>7, <1>8 DEF At
<1>10. Carries(q)' \subseteq Carries(q)
  BY <1>1, <1>9 DEF Carries, replay_event
<1>11. RequestTrue(q)'
  BY <1>7, <1>8, <1>9 DEF RequestTrue, RequestStages, Settling, Counting
<1> QED BY <1>2, <1>3, <1>5, <1>6, <1>7, <1>10, <1>11, MovesQuietly

LEMMA DroppedSteps ==
  ASSUME IInv, NEW q \in Reqs, Dropped(q)
  PROVE  Kept
<1>1. q \in Procs /\ q \notin Flushes /\ proc \in [Procs -> Local] /\ faults \in Nat
      /\ trigger \in Configs \cup {None}
  BY RequestAt DEF IInv, Typed
<1>2. End(q, FALSE) \in Local /\ End(q, FALSE).pc = "done"
  BY <1>1, EndTyped
<1>3. Moves(q, End(q, FALSE)) /\ UNCHANGED <<trigger, log, disk>> /\ faults' = faults + 1
  BY DEF Dropped, Fault, Moves, bounds
<1>4. proc'[q].pc = "done"
  BY <1>1, <1>2, <1>3 DEF Moves
<1>5. faults' \in Nat /\ faults' >= faults
  BY <1>1, <1>3
<1> QED BY <1>1, <1>2, <1>3, <1>4, <1>5, OverTrue, MovesQuietly

\* A bounded set of numbers has a greatest member.
LEMMA Greatest ==
  ASSUME NEW n \in Nat, NEW S \in SUBSET (0..n), S # {}
  PROVE  \E m \in S : \A k \in S : k <= m
<1> DEFINE below == {n - k : k \in S}
<1>1. below \in SUBSET Nat /\ below # {}
  <2>1. \A k \in S : n - k \in Nat
    OBVIOUS
  <2>2. \A k \in S : n - k \in below
    OBVIOUS
  <2> QED BY <2>1, <2>2
<1>2. PICK d \in below : \A x \in below : <<x, d>> \notin OpToRel(<, Nat)
  BY <1>1, NatLessThanWellFounded, WFMin
<1>3. \A x \in below : ~(x < d)
  BY <1>1, <1>2 DEF OpToRel
<1>4. PICK m \in S : d = n - m
  OBVIOUS
<1>5. \A k \in S : ~(n - k < n - m)
  BY <1>3, <1>4
<1> HIDE DEF below
<1>6. \A k \in S : k \in Nat
  OBVIOUS
<1>7. \A k \in S : k <= m
  BY <1>5, <1>6
<1> QED BY <1>7, Zenon

\* The event a repeat answers with.
LEMMA OriginalIn ==
  ASSUME Typed, NEW q \in Reqs, Repeatable(q) # {}
  PROVE  LET latest == {i \in Repeatable(q) :
                          \A j \in Repeatable(q) : log[j].created <= log[i].created}
         IN (CHOOSE i \in latest : \A j \in latest : j <= i) \in Repeatable(q)
<1> DEFINE R == Repeatable(q)
           latest == {i \in R : \A j \in R : log[j].created <= log[i].created}
<1>1. R \subseteq DOMAIN log /\ DOMAIN log = 1..Len(log) /\ Len(log) \in Nat
  BY DEF Repeatable, Typed
<1>2. \A i \in R : log[i].created \in 0..MaxNow
  BY <1>1, RecordTyped DEF Typed, EventRecord
<1> HIDE DEF R
<1>3. latest # {}
  <2> DEFINE times == {log[i].created : i \in R}
  <2>1. times \in SUBSET (0..MaxNow) /\ times # {}
    BY <1>2 DEF R
  <2>2. PICK t \in times : \A x \in times : x <= t
    BY <2>1, Greatest
  <2> QED BY <2>2
<1>4. latest \in SUBSET (0..Len(log))
  BY <1>1
<1> HIDE DEF latest
<1>5. \E i \in latest : \A j \in latest : j <= i
  BY <1>1, <1>3, <1>4, Greatest
<1>6. (CHOOSE i \in latest : \A j \in latest : j <= i) \in latest
  BY <1>5
<1> QED BY <1>6 DEF latest, R

LEMMA RepeatSteps ==
  ASSUME IInv, NEW q \in Reqs, repeat_of(q)
  PROVE  Kept
<1>1. /\ q \in Procs /\ q \notin Flushes /\ proc \in [Procs -> Local] /\ proc[q] \in Local
      /\ RequestTrue(q) /\ At(q, "lookup")
  BY RequestAt DEF repeat_of
<1>2. trigger \in Configs \cup {None} /\ faults \in Nat /\ now \in 0..MaxNow
  BY DEF IInv, Typed
<1>3. proc[q].hash \in Bytes /\ proc[q].payload \in Bytes /\ proc[q].ids = <<q>> /\ proc[q].run = None
  BY <1>1 DEF RequestTrue, At
<1>4. q \in Carries(q)
  BY <1>1 DEF Carries
<1>5. CASE Repeatable(q) # {}
  <2> DEFINE latest == {i \in Repeatable(q) :
                          \A j \in Repeatable(q) : log[j].created <= log[i].created}
             k == CHOOSE i \in latest : \A j \in latest : j <= i
             l == [proc[q] EXCEPT !.pc = "duplicate", !.created = now, !.of = log[k].id,
                                  !.run = log[k].run]
  <2>1. k \in Repeatable(q)
    BY <1>5, OriginalIn DEF IInv
  <2>2. Moves(q, l) /\ UNCHANGED <<trigger, log, disk, faults>>
    BY <1>1, <1>5 DEF repeat_of, Moves, bounds
  <2> HIDE DEF k
  <2>3. k \in DOMAIN log /\ log[k].status \in {"pending", "executed", "coalesced"}
    BY <2>1 DEF Repeatable
  <2>4. log[k] \in EventRecord
    BY <2>3, RecordTyped DEF IInv, Typed
  <2>5. log[k].id \in Reqs /\ log[k].run \in Procs \cup {None}
    BY <2>4 DEF EventRecord
  <2>6. l \in Local
    BY <1>1, <1>2, <2>5 DEF Local, RequestStages
  <2>7. /\ l.pc = "duplicate" /\ l.hash = proc[q].hash /\ l.payload = proc[q].payload
        /\ l.ids = proc[q].ids /\ l.of = log[k].id /\ l.run = log[k].run
    BY <1>1 DEF Local
  <2> HIDE DEF l
  <2>8. proc'[q] = l
    BY <1>1, <2>2 DEF Moves
  <2>9. \A pc : At(q, pc)' <=> pc = "duplicate"
    BY <2>7, <2>8 DEF At
  <2>10. Carries(q)' = {}
    BY <2>9 DEF Carries
  <2>11. Spent(q)'
    BY <1>1, <1>4, <2>2, <2>6, <2>10, LetGo
  <2>12. log[k].run # None => RanAs(log[k].run, log[k].id)
    BY <2>3 DEF IInv, Truth, Told
  <2>13. proc'[q].run # None => RanAs(proc[q].run, proc[q].of)'
    BY <2>2, <2>7, <2>8, <2>12 DEF RanAs, Moves
  <2>14. RequestTrue(q)'
    BY <1>3, <2>7, <2>8, <2>9, <2>11, <2>13 DEF RequestTrue, RequestStages, Settling, Counting
  <2> QED BY <1>1, <1>2, <2>2, <2>6, <2>7, <2>10, <2>14, MovesQuietly
<1>6. CASE Repeatable(q) = {}
  <2> DEFINE pc == IF proc[q].snap.debounce THEN "buffer" ELSE "bump"
             l == [proc[q] EXCEPT !.pc = pc, !.next = "execute", !.created = now]
  <2>1. Moves(q, l) /\ UNCHANGED <<trigger, log, disk, faults>>
    BY <1>1, <1>6 DEF repeat_of, Moves, bounds
  <2>2. pc \in {"buffer", "bump"}
    OBVIOUS
  <2> HIDE DEF pc
  <2>3. l \in Local
    BY <1>1, <1>2, <2>2 DEF Local, RequestStages
  <2>4. /\ l.pc = pc /\ l.next = "execute" /\ l.hash = proc[q].hash /\ l.payload = proc[q].payload
        /\ l.ids = proc[q].ids /\ l.run = proc[q].run
    BY <1>1 DEF Local
  <2> HIDE DEF l
  <2>5. proc'[q] = l
    BY <1>1, <2>1 DEF Moves
  <2>6. \A x : At(q, x)' <=> x = pc
    BY <2>4, <2>5 DEF At
  <2>7. Carries(q)' \subseteq Carries(q)
    BY <1>4 DEF Carries
  <2>8. RequestTrue(q)'
    BY <1>3, <2>2, <2>4, <2>5, <2>6 DEF RequestTrue, RequestStages, Settling, Counting
  <2>9. l.pc # "bumping"
    BY <2>2, <2>4
  <2> QED BY <1>1, <1>2, <2>1, <2>3, <2>7, <2>8, <2>9, MovesQuietly
<1> QED BY <1>5, <1>6

\* The event's record is written as duplicate, pending or settled.
LEMMA LogSteps ==
  ASSUME IInv, NEW q \in Reqs, LogDuplicate(q) \/ LogPending(q) \/ LogOutcome(q)
  PROVE  Kept
<1>1. /\ q \in Procs /\ q \notin Flushes /\ proc \in [Procs -> Local] /\ proc[q] \in Local
      /\ RequestTrue(q)
  BY RequestAt
<1>2. ASSUME NEW status \in {"pending", "executed", "failed", "duplicate"}, NEW l \in Local,
             ~At(q, "idle"), ~At(q, "done"), Moves(q, l), trigger' = trigger,
             \/ append_trigger_event(Event(q, status)) /\ faults' = faults
             \/ AppendFails(Event(q, status)),
             \/ l.pc = "done"
             \/ /\ l.pc = "push" /\ At(q, "buffer")
                /\ l.hash = proc[q].hash /\ l.payload = proc[q].payload /\ l.ids = proc[q].ids
             \/ /\ l.pc = "bump" /\ l.next = "done"
                /\ l.hash = proc[q].hash /\ l.payload = proc[q].payload /\ l.ids = proc[q].ids,
             status = "pending" => proc[q].run = None,
             status = "executed" => RanAs(proc[q].run, q),
             status \in {"failed", "duplicate"} => Spent(q),
             status = "duplicate" /\ proc[q].run # None => RanAs(proc[q].run, proc[q].of)
      PROVE  Kept
  <2>1. proc'[q] = l
    BY <1>1, <1>2 DEF Moves
  <2>2. \A pc : At(q, pc)' <=> pc = l.pc
    BY <2>1 DEF At
  <2>3. l.pc \in {"done", "push", "bump"} /\ (l.pc = "bump" => l.next = "done")
    BY <1>2
  <2>4. Carries(q)' \subseteq Carries(q)
    BY <1>2, <2>1, <2>2, <2>3 DEF Carries
  <2>5. RequestTrue(q)'
    <3>1. proc[q].hash \in Bytes /\ proc[q].payload \in Bytes /\ proc[q].ids = <<q>>
      BY <1>1, <1>2 DEF RequestTrue
    <3> QED BY <1>2, <2>1, <2>2, <2>3, <3>1 DEF RequestTrue, RequestStages, Settling, Counting
  <2>6. Shrinks
    BY <1>1, <1>2, <2>4, MovesFacts DEF IInv
  <2>7. Spent(q) => Spent(q)'
    BY <2>6, ShrinksHeld
  <2>8. PICK e \in EventRecord : e = Event(q, status)
    BY <1>2, EventTyped
  <2>9. e.id = q /\ e.status = status /\ e.run = proc[q].run /\ e.of = proc[q].of
    BY <1>2, <2>8, EventTyped
  <2>10. runs' = runs
    BY <1>2 DEF Moves
  <2>11. Told(e)'
    <3>1. RanAs(e.run, e.id)' <=> RanAs(e.run, e.id)
      BY <2>10 DEF RanAs
    <3>2. RanAs(e.run, e.of)' <=> RanAs(e.run, e.of)
      BY <2>10 DEF RanAs
    <3> QED BY <1>2, <2>7, <2>9, <3>1, <3>2 DEF Told
  <2>12. (append_trigger_event(e) /\ faults' = faults) \/ AppendFails(e)
    BY <1>2, <2>8
  <2> QED BY <1>1, <1>2, <2>3, <2>4, <2>5, <2>11, <2>12, MovesLogging
<1>3. End(q, FALSE) \in Local /\ End(q, FALSE).pc = "done"
  BY <1>1, EndTyped
<1> DEFINE bump == [proc[q] EXCEPT !.pc = "bump", !.next = "done"]
           push == [proc[q] EXCEPT !.pc = "push"]
<1>4. /\ bump \in Local /\ bump.pc = "bump" /\ bump.next = "done" /\ bump.hash = proc[q].hash
      /\ bump.payload = proc[q].payload /\ bump.ids = proc[q].ids
  BY <1>1 DEF Local, RequestStages
<1>5. /\ push \in Local /\ push.pc = "push" /\ push.hash = proc[q].hash
      /\ push.payload = proc[q].payload /\ push.ids = proc[q].ids
  BY <1>1 DEF Local, RequestStages
<1>6. CASE LogDuplicate(q)
  <2>1. At(q, "duplicate") /\ ~At(q, "idle") /\ ~At(q, "done") /\ trigger' = trigger
    BY <1>6 DEF LogDuplicate, At
  <2>2. Spent(q) /\ (proc[q].run # None => RanAs(proc[q].run, proc[q].of))
    BY <1>1, <2>1 DEF RequestTrue
  <2>3. CASE append_trigger_event(Event(q, "duplicate")) /\ faults' = faults /\ Moves(q, bump)
    <3> HIDE DEF bump
    <3> QED BY <1>2, <1>4, <2>1, <2>2, <2>3
  <2>4. CASE AppendFails(Event(q, "duplicate")) /\ Moves(q, End(q, FALSE))
    BY <1>2, <1>3, <2>1, <2>2, <2>4
  <2> QED BY <1>6, <2>3, <2>4 DEF LogDuplicate, Moves, bounds
<1>7. CASE LogPending(q)
  <2>1. At(q, "buffer") /\ ~At(q, "idle") /\ ~At(q, "done") /\ trigger' = trigger
    BY <1>7 DEF LogPending, At
  <2>2. proc[q].run = None
    BY <1>1, <2>1 DEF RequestTrue
  <2>3. CASE append_trigger_event(Event(q, "pending")) /\ faults' = faults /\ Moves(q, push)
    <3> HIDE DEF push
    <3> QED BY <1>2, <1>5, <2>1, <2>2, <2>3
  <2>4. CASE AppendFails(Event(q, "pending")) /\ Moves(q, End(q, FALSE))
    BY <1>2, <1>3, <2>1, <2>2, <2>4
  <2> QED BY <1>7, <2>3, <2>4 DEF LogPending, Moves, bounds, Goto
<1>8. CASE LogOutcome(q)
  <2>1. At(q, "log") /\ ~At(q, "idle") /\ ~At(q, "done") /\ trigger' = trigger
    BY <1>8 DEF LogOutcome, At
  <2>2. /\ proc[q].status \in {"executed", "failed"}
        /\ proc[q].status = "executed" => RanAs(proc[q].run, q)
        /\ proc[q].status = "failed" => Spent(q)
    BY <1>1, <2>1 DEF RequestTrue, Settling
  <2>3. PICK status : status = proc[q].status
    OBVIOUS
  <2>4. PICK acked : acked = (Event(q, proc[q].status).status = "executed")
    OBVIOUS
  <2>5. acked \in BOOLEAN
    BY <2>4
  <2>6. End(q, acked) \in Local /\ End(q, acked).pc = "done"
    BY <1>1, <2>5, EndTyped
  <2>7. CASE append_trigger_event(Event(q, status)) /\ faults' = faults /\ Moves(q, End(q, acked))
    BY <1>2, <2>1, <2>2, <2>3, <2>6, <2>7
  <2>8. CASE AppendFails(Event(q, status)) /\ Moves(q, End(q, FALSE))
    BY <1>2, <1>3, <2>1, <2>2, <2>3, <2>8
  <2> QED BY <1>8, <2>3, <2>4, <2>7, <2>8 DEF LogOutcome, Moves, bounds
<1> QED BY <1>6, <1>7, <1>8

\* Where a flush task's record stands.
LEMMA FlushAt ==
  ASSUME IInv, NEW f \in Flushes
  PROVE  /\ f \in Procs /\ f \notin Reqs
         /\ proc \in [Procs -> Local] /\ proc[f] \in Local
         /\ FlushTrue(f)
         /\ proc[f].ids \in Seq(Reqs)
         /\ trigger \in Configs \cup {None} /\ faults \in Nat
<1>1. f \in Procs /\ f \notin Reqs
  BY DEF Procs
<1>2. proc[f] \in Local /\ proc \in [Procs -> Local]
  BY <1>1 DEF IInv, Typed
<1> QED BY <1>1, <1>2 DEF IInv, Typed, Truth, Local

LEMMA FlushBufferSteps ==
  ASSUME IInv, NEW f \in Flushes, flush_buffer(f)
  PROVE  Kept
<1>1. /\ f \in Procs /\ f \notin Reqs /\ proc \in [Procs -> Local] /\ proc[f] \in Local
      /\ FlushTrue(f) /\ proc[f].ids \in Seq(Reqs)
      /\ trigger \in Configs \cup {None} /\ faults \in Nat
  BY FlushAt
<1>2. At(f, "reload") /\ proc[f].ids # <<>> /\ UNCHANGED <<trigger, log, disk, faults>>
  BY <1>1 DEF flush_buffer, FlushTrue
<1>3. Carries(f) = Range(proc[f].ids)
  BY <1>1, <1>2 DEF Carries
<1>4. CASE Goto(f, "execute")
  <2> DEFINE l == [proc[f] EXCEPT !.pc = "execute"]
  <2>1. Moves(f, l)
    BY <1>4 DEF flush_buffer, Moves, bounds, Goto
  <2>2. l \in Local /\ l.pc = "execute" /\ l.ids = proc[f].ids
    BY <1>1 DEF Local, RequestStages
  <2> HIDE DEF l
  <2>3. proc'[f] = l
    BY <1>1, <2>1 DEF Moves
  <2>4. \A pc : At(f, pc)' <=> pc = "execute"
    BY <2>2, <2>3 DEF At
  <2>5. Carries(f)' \subseteq Carries(f)
    BY <1>1, <1>3, <2>2, <2>3 DEF Carries
  <2>6. FlushTrue(f)'
    BY <1>2, <2>2, <2>3, <2>4 DEF FlushTrue, FlushStages
  <2> QED BY <1>1, <1>2, <2>1, <2>2, <2>5, <2>6, MovesQuietly
<1>5. CASE proc' = [proc EXCEPT ![f].pc = "fetch", ![f].status = "failed"]
  <2> DEFINE l == [proc[f] EXCEPT !.pc = "fetch", !.status = "failed"]
  <2>1. Moves(f, l)
    BY <1>5 DEF flush_buffer, Moves, bounds
  <2>2. l \in Local /\ l.pc = "fetch" /\ l.status = "failed" /\ l.ids = proc[f].ids
    BY <1>1 DEF Local, FlushStages
  <2> HIDE DEF l
  <2>3. proc'[f] = l
    BY <1>1, <2>1 DEF Moves
  <2>4. \A pc : At(f, pc)' <=> pc = "fetch"
    BY <2>2, <2>3 DEF At
  <2>5. Carries(f)' = {}
    BY <1>1, <2>4 DEF Carries
  <2>6. \A q \in Carries(f) : Spent(q)'
    BY <1>1, <2>1, <2>2, <2>5, LetGo
  <2>7. \A i \in DOMAIN proc[f].ids : proc[f].ids[i] \in Carries(f)
    BY <1>3 DEF Range
  <2>8. (\A i \in DOMAIN proc[f].ids : Spent(proc[f].ids[i]))'
    BY <2>2, <2>3, <2>6, <2>7
  <2>9. FlushTrue(f)'
    BY <1>2, <2>2, <2>3, <2>4, <2>8 DEF FlushTrue, FlushStages
  <2> QED BY <1>1, <1>2, <2>1, <2>2, <2>5, <2>9, MovesQuietly
<1> QED BY <1>4, <1>5 DEF flush_buffer

\* The rest of the burst.
LEMMA AdvancedStep ==
  ASSUME IInv, NEW f \in Flushes, At(f, "fetch") \/ At(f, "store"), Moves(f, Advanced(f))
  PROVE  /\ Advanced(f) \in Local
         /\ Carries(f)' \subseteq Carries(f)
         /\ FlushTrue(f)'
         /\ Advanced(f).pc # "bumping"
<1>1. /\ f \in Procs /\ f \notin Reqs /\ proc \in [Procs -> Local] /\ proc[f] \in Local
      /\ FlushTrue(f) /\ proc[f].ids \in Seq(Reqs)
  BY FlushAt
<1>2. proc[f].ids # <<>> /\ proc[f].status \in {"coalesced", "failed"}
  BY <1>1 DEF FlushTrue
<1> DEFINE rest == Tail(proc[f].ids)
<1>3. /\ rest \in Seq(Reqs)
      /\ \A i \in DOMAIN rest : i + 1 \in DOMAIN proc[f].ids /\ rest[i] = proc[f].ids[i + 1]
  BY <1>1, <1>2
<1> HIDE DEF rest
<1>4. CASE rest = <<>> /\ proc[f].status = "failed"
  <2>1. Advanced(f) = End(f, FALSE)
    BY <1>4 DEF Advanced, rest
  <2>2. Advanced(f) \in Local /\ Advanced(f).pc = "done"
    BY <1>1, <2>1, EndTyped
  <2>3. proc'[f].pc = "done"
    BY <1>1, <2>2 DEF Moves
  <2> QED BY <1>1, <2>2, <2>3, OverTrue
<1>5. CASE ~(rest = <<>> /\ proc[f].status = "failed")
  <2> DEFINE pc == IF rest = <<>> THEN "bump" ELSE "fetch"
             l == [proc[f] EXCEPT !.ids = rest, !.read = None, !.pc = pc]
  <2>1. Advanced(f) = l
    BY <1>5 DEF Advanced, rest
  <2>2. /\ pc \in {"bump", "fetch"} /\ (pc = "bump" => proc[f].status = "coalesced")
        /\ (pc = "fetch" => rest # <<>>)
    BY <1>2, <1>5
  <2> HIDE DEF pc
  <2>3. l \in Local
    BY <1>1, <1>3, <2>2 DEF Local, FlushStages
  <2>4. /\ l.pc = pc /\ l.ids = rest /\ l.next = proc[f].next /\ l.status = proc[f].status
        /\ l.run = proc[f].run
    BY <1>1 DEF Local
  <2> HIDE DEF l
  <2>5. proc'[f] = l
    BY <1>1, <2>1 DEF Moves
  <2>6. \A x : At(f, x)' <=> x = pc
    BY <2>4, <2>5 DEF At
  <2>7. Carries(f)' = {}
    BY <1>1, <2>2, <2>6 DEF Carries
  <2>8. Shrinks
    BY <1>1, <2>1, <2>3, <2>7, MovesFacts DEF IInv
  <2>9. runs' = runs /\ \A q \in Reqs : Spent(q) => Spent(q)'
    BY <2>8, ShrinksHeld DEF Shrinks
  <2>10. proc[f].status = "coalesced" =>
           /\ proc[f].next = "done"
           /\ \A i \in DOMAIN rest : RanAs(proc[f].run, rest[i])
    BY <1>1, <1>3 DEF FlushTrue
  <2>11. proc[f].status = "failed" => \A i \in DOMAIN rest : rest[i] \in Reqs /\ Spent(rest[i])
    BY <1>1, <1>3 DEF FlushTrue
  <2>12. proc[f].status = "coalesced" =>
           (\A i \in DOMAIN proc[f].ids : RanAs(proc[f].run, proc[f].ids[i]))'
    BY <2>4, <2>5, <2>9, <2>10 DEF RanAs
  <2>13. proc[f].status = "failed" => (\A i \in DOMAIN proc[f].ids : Spent(proc[f].ids[i]))'
    BY <2>4, <2>5, <2>9, <2>11
  <2>14. FlushTrue(f)'
    BY <1>2, <2>2, <2>4, <2>5, <2>6, <2>10, <2>12, <2>13 DEF FlushTrue, FlushStages
  <2>15. l.pc # "bumping"
    BY <2>2, <2>4
  <2> QED BY <2>1, <2>3, <2>7, <2>14, <2>15
<1> QED BY <1>4, <1>5

LEMMA FetchSteps ==
  ASSUME IInv, NEW f \in Flushes, FetchEvent(f)
  PROVE  Kept
<1>1. /\ f \in Procs /\ f \notin Reqs /\ proc \in [Procs -> Local] /\ proc[f] \in Local
      /\ FlushTrue(f) /\ proc[f].ids \in Seq(Reqs)
      /\ trigger \in Configs \cup {None} /\ faults \in Nat
  BY FlushAt
<1>2. At(f, "fetch") /\ proc[f].ids # <<>> /\ UNCHANGED <<trigger, log, disk, faults>>
  BY <1>1 DEF FetchEvent, FlushTrue
<1>3. CASE Logged(Head(proc[f].ids)) = {}
  <2>1. Moves(f, Advanced(f))
    BY <1>3 DEF FetchEvent, Moves, bounds
  <2> QED BY <1>1, <1>2, <2>1, AdvancedStep, MovesQuietly
<1>4. CASE Logged(Head(proc[f].ids)) # {}
  <2> DEFINE k == CHOOSE i \in Logged(Head(proc[f].ids)) : TRUE
             l == [proc[f] EXCEPT !.pc = "store", !.read = log[k]]
  <2>1. Moves(f, l)
    BY <1>4 DEF FetchEvent, Moves, bounds
  <2>2. k \in DOMAIN log /\ log[k].id = Head(proc[f].ids)
    BY <1>4 DEF Logged
  <2> HIDE DEF k
  <2>3. log[k] \in EventRecord
    BY <2>2, RecordTyped DEF IInv, Typed
  <2>4. l \in Local
    BY <1>1, <2>3 DEF Local, FlushStages
  <2>5. /\ l.pc = "store" /\ l.read = log[k] /\ l.ids = proc[f].ids /\ l.next = proc[f].next
        /\ l.status = proc[f].status /\ l.run = proc[f].run
    BY <1>1 DEF Local
  <2> HIDE DEF l
  <2>6. proc'[f] = l
    BY <1>1, <2>1 DEF Moves
  <2>7. \A pc : At(f, pc)' <=> pc = "store"
    BY <2>5, <2>6 DEF At
  <2>8. Carries(f)' = {}
    BY <1>1, <2>7 DEF Carries
  <2>9. Shrinks
    BY <1>1, <2>1, <2>4, <2>8, MovesFacts DEF IInv
  <2>10. runs' = runs /\ \A q \in Reqs : Spent(q) => Spent(q)'
    BY <2>9, ShrinksHeld DEF Shrinks
  <2>11. \A i \in DOMAIN proc[f].ids : proc[f].ids[i] \in Reqs
    BY <1>1
  <2>12. proc[f].status = "coalesced" =>
           (\A i \in DOMAIN proc[f].ids : RanAs(proc[f].run, proc[f].ids[i]))'
    BY <1>1, <1>2, <2>5, <2>6, <2>10 DEF RanAs, FlushTrue
  <2>13. proc[f].status = "failed" => (\A i \in DOMAIN proc[f].ids : Spent(proc[f].ids[i]))'
    BY <1>1, <1>2, <2>5, <2>6, <2>10, <2>11 DEF FlushTrue
  <2>14. FlushTrue(f)'
    BY <1>1, <1>2, <2>2, <2>3, <2>5, <2>6, <2>7, <2>12, <2>13 DEF FlushTrue, FlushStages
  <2> QED BY <1>1, <1>2, <2>1, <2>4, <2>5, <2>8, <2>14, MovesQuietly
<1> QED BY <1>3, <1>4

\* The outcome written over the record that was read.
LEMMA StoreSteps ==
  ASSUME IInv, NEW f \in Flushes, StoreEvent(f)
  PROVE  Kept
<1>1. /\ f \in Procs /\ f \notin Reqs /\ proc \in [Procs -> Local] /\ proc[f] \in Local
      /\ FlushTrue(f) /\ proc[f].ids \in Seq(Reqs)
      /\ trigger \in Configs \cup {None} /\ faults \in Nat
  BY FlushAt
<1>2. At(f, "store") /\ Moves(f, Advanced(f)) /\ trigger' = trigger
  BY DEF StoreEvent, Moves, bounds
<1>3. /\ proc[f].ids # <<>> /\ proc[f].status \in {"coalesced", "failed"}
      /\ proc[f].read \in EventRecord /\ proc[f].read.id = Head(proc[f].ids)
  BY <1>1, <1>2 DEF FlushTrue
<1>4. PICK e : e = [proc[f].read EXCEPT !.status = proc[f].status, !.run = proc[f].run]
  OBVIOUS
<1>5. proc[f].run \in Procs \cup {None}
  BY <1>1 DEF Local
<1>6. /\ e \in EventRecord /\ e.id = proc[f].ids[1] /\ 1 \in DOMAIN proc[f].ids
      /\ e.status = proc[f].status /\ e.run = proc[f].run /\ e.id \in Reqs
  <2>1. /\ e \in EventRecord /\ e.status = proc[f].status /\ e.run = proc[f].run
        /\ e.id = proc[f].read.id
    BY <1>3, <1>4, <1>5 DEF EventRecord
  <2>2. 1 \in DOMAIN proc[f].ids /\ Head(proc[f].ids) = proc[f].ids[1] /\ proc[f].ids[1] \in Reqs
    BY <1>1, <1>3
  <2> QED BY <1>3, <2>1, <2>2
<1>7. (append_trigger_event(e) /\ faults' = faults) \/ AppendFails(e)
  BY <1>4 DEF StoreEvent
<1>8. /\ Advanced(f) \in Local /\ Carries(f)' \subseteq Carries(f) /\ FlushTrue(f)'
      /\ Advanced(f).pc # "bumping"
  BY <1>2, AdvancedStep
<1>9. Shrinks
  BY <1>1, <1>2, <1>8, MovesFacts DEF IInv
<1>10. runs' = runs /\ (Spent(e.id) => Spent(e.id)')
  BY <1>6, <1>9, ShrinksHeld DEF Shrinks
<1>11. Told(e)'
  <2>1. e.status = "coalesced" => RanAs(e.run, e.id)
    BY <1>1, <1>2, <1>6 DEF FlushTrue
  <2>2. e.status = "failed" => Spent(e.id)
    BY <1>1, <1>2, <1>6 DEF FlushTrue
  <2>3. RanAs(e.run, e.id)' <=> RanAs(e.run, e.id)
    BY <1>10 DEF RanAs
  <2> QED BY <1>3, <1>6, <1>10, <2>1, <2>2, <2>3 DEF Told
<1> QED BY <1>1, <1>2, <1>6, <1>7, <1>8, <1>11, MovesLogging

-----------------------------------------------------------------------------
(* Runs, bursts, the registry and restarts. *)

\* What the log, the files and the others say, whoever moves.
LEMMA TruthStays ==
  ASSUME IInv, runs \subseteq runs', \A q \in Reqs : Spent(q) => Spent(q)',
         \A i \in DOMAIN log' : (\E j \in DOMAIN log : log'[i] = log[j]) \/ log'[i] \in disk,
         disk' \subseteq disk,
         \A p \in Procs : \/ proc'[p] = proc[p]
                          \/ /\ p \in Reqs => RequestTrue(p)'
                             /\ p \in Flushes => FlushTrue(p)'
                             /\ proc'[p].pc # "bumping"
  PROVE  Truth'
<1>1. Typed /\ Truth /\ proc \in [Procs -> Local]
  BY DEF IInv, Typed
<1>2. (\A i \in DOMAIN log : Told(log[i]))'
  <2> SUFFICES ASSUME NEW i \in DOMAIN log' PROVE Told(log[i])'
    OBVIOUS
  <2>1. PICK e : e = log'[i]
    OBVIOUS
  <2>2. e \in EventRecord /\ Told(e)
    BY <1>1, <2>1, RecordTyped DEF Typed, Truth
  <2>3. Told(e)'
    BY <2>2, ToldStays
  <2> QED BY <2>1, <2>3 DEF Told
<1>3. (\A x \in disk : Told(x))'
  BY <1>1, ToldStays DEF Truth, Typed
<1>4. (\A q \in Reqs : RequestTrue(q))'
  <2> SUFFICES ASSUME NEW q \in Reqs PROVE RequestTrue(q)'
    OBVIOUS
  <2>1. q \in Procs /\ RequestTrue(q)
    BY <1>1 DEF Procs, Truth
  <2> QED BY <1>1, <2>1, OthersStay
<1>5. (\A f \in Flushes : FlushTrue(f))'
  <2> SUFFICES ASSUME NEW f \in Flushes PROVE FlushTrue(f)'
    OBVIOUS
  <2>1. f \in Procs /\ FlushTrue(f)
    BY <1>1 DEF Procs, Truth
  <2> QED BY <1>1, <2>1, OthersStay
<1>6. (\A p \in Procs : At(p, "bumping") => proc[p].read \in Configs)'
  BY <1>1 DEF Truth, At
<1> QED BY <1>2, <1>3, <1>4, <1>5, <1>6 DEF Truth

\* Who executes runs the events it carries.
LEMMA ExecuteCarries ==
  ASSUME IInv, NEW p \in Procs, At(p, "execute")
  PROVE  Range(proc[p].ids) = Carries(p)
<1>1. CASE p \in Reqs
  <2>1. proc[p].ids = <<p>>
    BY <1>1, RequestAt DEF RequestTrue, At
  <2>2. Range(<<p>>) = {p}
    BY DEF Range
  <2> QED BY <1>1, <2>1, <2>2 DEF Carries
<1>2. CASE p \notin Reqs
  BY <1>2 DEF Carries
<1> QED BY <1>1, <1>2

\* The locals after the action.
Failing(p) ==
  [proc[p] EXCEPT !.created = now, !.status = "failed",
                  !.pc = IF p \in Flushes THEN "fetch" ELSE "log"]

Running(p) ==
  [proc[p] EXCEPT !.created = now,
                  !.status = IF p \in Flushes THEN "coalesced" ELSE "executed",
                  !.run = p,
                  !.pc = IF p \in Flushes THEN "fetch" ELSE "bump",
                  !.next = IF p \in Flushes THEN "done" ELSE "log"]

LEMMA ExecuteFails ==
  ASSUME IInv, NEW p \in Procs, execute_action(p), runs' = runs, Fault,
         proc' = [proc EXCEPT ![p] = Failing(p)]
  PROVE  Kept
<1>1. /\ proc \in [Procs -> Local] /\ proc[p] \in Local /\ now \in 0..MaxNow
      /\ trigger \in Configs \cup {None} /\ faults \in Nat
  BY DEF IInv, Typed
<1>2. At(p, "execute") /\ UNCHANGED <<trigger, log, disk>> /\ faults' = faults + 1
  BY DEF execute_action, Fault
<1> DEFINE pc == IF p \in Flushes THEN "fetch" ELSE "log"
           l == [proc[p] EXCEPT !.created = now, !.status = "failed", !.pc = pc]
<1>3. Moves(p, l)
  BY DEF execute_action, Moves, bounds, Failing
<1>4. pc \in {"fetch", "log"} /\ (p \in Flushes => pc = "fetch") /\ (p \in Reqs => pc = "log")
  OBVIOUS
<1> HIDE DEF pc
<1>5. l \in Local
  BY <1>1, <1>4 DEF Local, RequestStages, FlushStages
<1>6. /\ l.pc = pc /\ l.status = "failed" /\ l.ids = proc[p].ids /\ l.hash = proc[p].hash
      /\ l.payload = proc[p].payload
  BY <1>1 DEF Local
<1> HIDE DEF l
<1>7. proc'[p] = l
  BY <1>1, <1>3 DEF Moves
<1>8. \A x : At(p, x)' <=> x = pc
  BY <1>6, <1>7 DEF At
<1>9. Carries(p)' = {}
  BY <1>4, <1>8 DEF Carries
<1>10. \A q \in Carries(p) : Spent(q)'
  BY <1>3, <1>5, <1>9, LetGo
<1>11. p \in Reqs => RequestTrue(p)'
  <2> SUFFICES ASSUME p \in Reqs PROVE RequestTrue(p)'
    OBVIOUS
  <2>1. Spent(p)'
    BY <1>2, <1>10 DEF Carries
  <2>2. proc[p].hash \in Bytes /\ proc[p].payload \in Bytes /\ proc[p].ids = <<p>>
    BY <1>2, RequestAt DEF RequestTrue, At
  <2>3. pc = "log"
    BY <1>4
  <2> QED BY <1>6, <1>7, <1>8, <2>1, <2>2, <2>3 DEF RequestTrue, RequestStages, Settling, Counting
<1>12. p \in Flushes => FlushTrue(p)'
  <2> SUFFICES ASSUME p \in Flushes PROVE FlushTrue(p)'
    OBVIOUS
  <2>1. proc[p].ids # <<>>
    BY <1>2, FlushAt DEF FlushTrue
  <2>2. \A i \in DOMAIN proc[p].ids : proc[p].ids[i] \in Carries(p)
    <3>1. Range(proc[p].ids) = Carries(p)
      BY <1>2, ExecuteCarries
    <3> QED BY <3>1 DEF Range
  <2>3. (\A i \in DOMAIN proc[p].ids : Spent(proc[p].ids[i]))'
    BY <1>6, <1>7, <1>10, <2>2
  <2>4. pc = "fetch"
    BY <1>4
  <2> QED BY <1>6, <1>7, <1>8, <2>1, <2>3, <2>4 DEF FlushTrue, FlushStages
<1>13. faults' \in Nat /\ faults' >= faults /\ l.pc # "bumping" /\ trigger' \in Configs \cup {None}
  BY <1>1, <1>2, <1>4, <1>6
<1> QED BY <1>2, <1>3, <1>5, <1>9, <1>11, <1>12, <1>13, MovesQuietly

LEMMA ExecuteRuns ==
  ASSUME IInv, NEW p \in Procs, execute_action(p), faults' = faults,
         runs' = runs \cup {[id |-> p, events |-> Range(proc[p].ids)]},
         proc' = [proc EXCEPT ![p] = Running(p)]
  PROVE  Kept
<1>1. /\ proc \in [Procs -> Local] /\ proc[p] \in Local /\ now \in 0..MaxNow
      /\ Typed /\ Indexed /\ Custody
  BY DEF IInv, Typed
<1>2. At(p, "execute") /\ UNCHANGED <<trigger, log, disk, buffer, timers, admin, now, restarts,
                                      updates, deletes>>
  BY DEF execute_action, bounds
<1> DEFINE status == IF p \in Flushes THEN "coalesced" ELSE "executed"
           pc == IF p \in Flushes THEN "fetch" ELSE "bump"
           next == IF p \in Flushes THEN "done" ELSE "log"
           l == [proc[p] EXCEPT !.created = now, !.status = status, !.run = p, !.pc = pc,
                                !.next = next]
<1>3. /\ p \in Flushes => status = "coalesced" /\ pc = "fetch" /\ next = "done"
      /\ p \in Reqs => status = "executed" /\ pc = "bump" /\ next = "log"
      /\ status \in {"coalesced", "executed"} /\ pc \in {"fetch", "bump"} /\ next \in {"done", "log"}
  OBVIOUS
<1>4. proc' = [proc EXCEPT ![p] = l]
  BY DEF Running
<1> HIDE DEF status, pc, next
<1>5. l \in Local
  <2> DEFINE m == [proc[p] EXCEPT !.created = now, !.run = p]
  <2>1. m \in Local
    BY <1>1 DEF Local
  <2>2. l = [m EXCEPT !.status = status, !.pc = pc, !.next = next]
    BY <1>1 DEF Local
  <2> HIDE DEF m
  <2>3. pc \in RequestStages \cup FlushStages
    BY <1>3 DEF RequestStages, FlushStages
  <2>4. [m EXCEPT !.status = status, !.pc = pc, !.next = next] \in Local
    BY <1>3, <2>1, <2>3 DEF Local
  <2> QED BY <2>2, <2>4
<1>6. /\ l.pc = pc /\ l.next = next /\ l.status = status /\ l.run = p /\ l.ids = proc[p].ids
      /\ l.hash = proc[p].hash /\ l.payload = proc[p].payload
  BY <1>1 DEF Local
<1> HIDE DEF l
<1>7. proc' \in [Procs -> Local] /\ proc'[p] = l /\ \A s \in Procs \ {p} : proc'[s] = proc[s]
  BY <1>1, <1>4, <1>5
<1>8. \A x : At(p, x)' <=> x = pc
  BY <1>6, <1>7 DEF At
<1>9. Carries(p)' = {}
  BY <1>3, <1>6, <1>7, <1>8 DEF Carries, Procs
<1>10. \A s \in Procs \ {p} : Carries(s)' = Carries(s)
  BY <1>7, CarriesSame
<1>11. Buffered' = Buffered
  BY <1>2 DEF Buffered
<1>12. PICK r : r = [id |-> p, events |-> Range(proc[p].ids)]
  OBVIOUS
<1>13. r.id = p /\ r.events = Carries(p) /\ runs' = runs \cup {r} /\ Carries(p) \subseteq Reqs
  BY <1>1, <1>2, <1>12, ExecuteCarries, CarriesOf
<1>14. \A q \in Reqs : /\ Held(q)' => Held(q) /\ q \notin Carries(p)
                       /\ q \in Carries(p) => Held(q)
                       /\ Ran(q)' <=> Ran(q) \/ q \in Carries(p)
  <2> SUFFICES ASSUME NEW q \in Reqs
               PROVE  /\ Held(q)' => Held(q) /\ q \notin Carries(p)
                      /\ q \in Carries(p) => Held(q)
                      /\ Ran(q)' <=> Ran(q) \/ q \in Carries(p)
    OBVIOUS
  <2>1. Held(q)' => Held(q) /\ q \notin Carries(p)
    BY <1>1, <1>9, <1>10, <1>11 DEF Held, Custody
  <2>2. q \in Carries(p) => Held(q)
    BY DEF Held
  <2>3. Ran(q)' <=> Ran(q) \/ q \in Carries(p)
    BY <1>13 DEF Ran
  <2> QED BY <2>1, <2>2, <2>3
<1>15. Custody'
  <2>1. \A x \in runs' : x.events \subseteq Reqs
    BY <1>1, <1>13 DEF Custody
  <2> SUFFICES ASSUME NEW q \in Reqs
               PROVE  /\ \A s, t \in Procs : q \in Carries(s)' /\ q \in Carries(t)' => s = t
                      /\ q \in Buffered' => \A s \in Procs : q \notin Carries(s)'
                      /\ Held(q)' => ~Ran(q)'
                      /\ \A s, t \in runs' : q \in s.events /\ q \in t.events => s = t
    BY <2>1 DEF Custody
  <2>2. \A s \in Procs : q \in Carries(s)' => q \in Carries(s)
    BY <1>9, <1>10
  <2>3. Held(q)' => ~Ran(q)'
    BY <1>1, <1>14 DEF Custody
  <2>4. ASSUME NEW s \in runs', NEW t \in runs', q \in s.events, q \in t.events
        PROVE  s = t
    <3>1. CASE s \in runs /\ t \in runs
      BY <1>1, <2>4, <3>1 DEF Custody
    <3>2. CASE q \in Carries(p)
      <4>1. ~Ran(q)
        BY <1>1, <1>14, <3>2 DEF Custody
      <4> QED BY <1>13, <2>4, <4>1 DEF Ran
    <3> QED BY <1>13, <2>4, <3>1, <3>2
  <2> QED BY <1>1, <1>11, <2>2, <2>3, <2>4 DEF Custody
<1>16. runs \subseteq runs' /\ \A q \in Reqs : Spent(q) => Spent(q)'
  BY <1>13, <1>14, SpentStays
<1>17. \A q \in Carries(p) : RanAs(p, q)'
  BY <1>13 DEF RanAs
<1>18. p \in Reqs => RequestTrue(p)'
  <2> SUFFICES ASSUME p \in Reqs PROVE RequestTrue(p)'
    OBVIOUS
  <2>1. RanAs(p, p)'
    BY <1>2, <1>17 DEF Carries
  <2>2. proc[p].hash \in Bytes /\ proc[p].payload \in Bytes /\ proc[p].ids = <<p>>
    BY <1>2, RequestAt DEF RequestTrue, At
  <2>3. pc = "bump" /\ next = "log" /\ status = "executed"
    BY <1>3
  <2>4. RanAs(proc[p].run, p)'
    BY <1>6, <1>7, <2>1
  <2> QED BY <1>6, <1>7, <1>8, <2>2, <2>3, <2>4 DEF RequestTrue, RequestStages, Settling, Counting
<1>19. p \in Flushes => FlushTrue(p)'
  <2> SUFFICES ASSUME p \in Flushes PROVE FlushTrue(p)'
    OBVIOUS
  <2>1. proc[p].ids # <<>>
    BY <1>2, FlushAt DEF FlushTrue
  <2>2. \A i \in DOMAIN proc[p].ids : proc[p].ids[i] \in Carries(p)
    <3>1. Range(proc[p].ids) = Carries(p)
      BY <1>2, ExecuteCarries
    <3> QED BY <3>1 DEF Range
  <2>3. (\A i \in DOMAIN proc[p].ids : RanAs(proc[p].run, proc[p].ids[i]))'
    BY <1>6, <1>7, <1>17, <2>2
  <2>4. pc = "fetch" /\ next = "done" /\ status = "coalesced"
    BY <1>3
  <2> QED BY <1>6, <1>7, <1>8, <2>1, <2>3, <2>4 DEF FlushTrue, FlushStages
<1>20. Truth'
  <2>1. proc'[p].pc # "bumping"
    BY <1>3, <1>6, <1>7
  <2> QED BY <1>2, <1>7, <1>16, <1>18, <1>19, <2>1, TruthStays
<1>21. Typed'
  BY <1>1, <1>2, <1>7 DEF Typed
<1>22. Indexed'
  BY <1>1, <1>2 DEF Indexed
<1> QED BY <1>15, <1>16, <1>20, <1>21, <1>22 DEF IInv, Kept

LEMMA ExecuteSteps ==
  ASSUME IInv, NEW p \in Procs, execute_action(p)
  PROVE  Kept
<1>1. proc[p] \in Local
  BY DEF IInv, Typed
<1> DEFINE started == [proc[p] EXCEPT !.created = now]
           done == IF p \in Flushes THEN "coalesced" ELSE "executed"
<1>2. Failing(p) = [started EXCEPT !.status = "failed", !.pc = IF p \in Flushes THEN "fetch" ELSE "log"]
  BY <1>1 DEF Failing, Local
<1>3. Running(p) = [started EXCEPT !.status = done, !.run = p,
                                   !.pc = IF p \in Flushes THEN "fetch" ELSE "bump",
                                   !.next = IF p \in Flushes THEN "done" ELSE "log"]
  BY <1>1 DEF Running, Local
<1>4. \/ Fault /\ runs' = runs /\ proc' = [proc EXCEPT ![p] = Failing(p)]
      \/ /\ faults' = faults
         /\ runs' = runs \cup {[id |-> p, events |-> Range(proc[p].ids)]}
         /\ proc' = [proc EXCEPT ![p] = Running(p)]
  BY <1>2, <1>3 DEF execute_action
<1> QED BY <1>4, ExecuteFails, ExecuteRuns

LEMMA BurstFacts ==
  ASSUME Typed
  PROVE  /\ Burst.ids \in Seq(Reqs)
         /\ Burst.generation = Len(Burst.ids)
         /\ Len(Burst.ids) \in 0..(MaxBatch - 1)
         /\ Buffered = Range(Burst.ids)
         /\ buffer # None => Burst = buffer /\ Burst.ids # <<>>
<1>1. CASE buffer = None
  <2>1. Burst.ids = <<>> /\ Burst.generation = 0
    BY <1>1 DEF Burst
  <2>2. <<>> \in Seq(Reqs) /\ Len(<<>>) = 0 /\ Range(<<>>) = {}
    BY DEF Range
  <2>3. Buffered = {}
    BY <1>1 DEF Buffered
  <2> QED BY <1>1, <2>1, <2>2, <2>3
<1>2. CASE buffer # None
  <2>1. Burst = buffer /\ Buffered = Range(buffer.ids)
    BY <1>2 DEF Burst, Buffered
  <2>2. /\ buffer.ids \in Seq(Reqs) /\ buffer.generation = Len(buffer.ids)
        /\ buffer.generation \in 1..(MaxBatch - 1)
    BY <1>2 DEF Typed, BurstType
  <2>3. buffer.ids # <<>>
    BY <2>2
  <2> QED BY <2>1, <2>2, <2>3
<1> QED BY <1>1, <1>2

LEMMA SpawnedFacts ==
  ASSUME NEW ps \in [Procs -> Local], NEW b, b.ids \in Seq(Reqs), b.ids # <<>>,
         NEW f, f = <<Head(b.ids)>>
  PROVE  /\ f \in Flushes /\ f \in Procs /\ f \notin Reqs
         /\ Spawned(ps, b) \in [Procs -> Local]
         /\ Spawned(ps, b)[f].pc = "reload" /\ Spawned(ps, b)[f].ids = b.ids
         /\ \A s \in Procs \ {f} : Spawned(ps, b)[s] = ps[s]
<1>1. Head(b.ids) \in Reqs
  OBVIOUS
<1>2. f \in Flushes /\ f \in Procs /\ f \notin Reqs
  BY <1>1 DEF Flushes, Procs
<1> DEFINE m == [ps[f] EXCEPT !.pc = "reload", !.ids = b.ids]
<1>3. Spawned(ps, b) = [ps EXCEPT ![f] = m]
  BY <1>2 DEF Spawned
<1>4. m \in Local /\ m.pc = "reload" /\ m.ids = b.ids
  <2>1. ps[f] \in Local
    BY <1>2
  <2>2. PICK ids \in Seq(Reqs) : ids = b.ids
    OBVIOUS
  <2>3. PICK l \in Local : l = ps[f]
    BY <2>1
  <2>4. "reload" \in RequestStages \cup FlushStages
    BY DEF FlushStages
  <2>5. [l EXCEPT !.pc = "reload", !.ids = ids] \in Local
    BY <2>4 DEF Local
  <2>6. [l EXCEPT !.pc = "reload", !.ids = ids].pc = "reload"
    BY DEF Local
  <2>7. [l EXCEPT !.pc = "reload", !.ids = ids].ids = ids
    BY DEF Local
  <2> QED BY <2>2, <2>3, <2>5, <2>6, <2>7
<1> HIDE DEF m
<1> QED BY <1>2, <1>3, <1>4

LEMMA SpawnTrue ==
  ASSUME NEW f \in Flushes, proc'[f].pc = "reload", proc'[f].ids # <<>>
  PROVE  FlushTrue(f)' /\ Carries(f)' = Range(proc'[f].ids)
<1>1. \A pc : At(f, pc)' <=> pc = "reload"
  BY DEF At
<1>2. f \notin Reqs
  OBVIOUS
<1> QED BY <1>1, <1>2 DEF FlushTrue, FlushStages, Carries

\* A drained burst is carried by its flush task.
LEMMA ArmSteps ==
  ASSUME IInv, NEW t \in timers, arm_flush(t)
  PROVE  Kept
<1>1. Typed /\ Indexed /\ Custody /\ Truth /\ proc \in [Procs -> Local]
  BY DEF IInv, Typed
<1>2. /\ UNCHANGED <<trigger, log, disk, admin, runs, now, faults, restarts, updates, deletes>>
      /\ timers' = timers \ {t}
  BY DEF arm_flush, bounds
<1>3. Indexed'
  BY <1>1, <1>2 DEF Indexed
<1>4. CASE buffer' = None /\ proc' = Spawned(proc, buffer) /\ buffer # None
  <2>1. buffer.ids \in Seq(Reqs) /\ buffer.ids # <<>> /\ Buffered = Range(buffer.ids)
    BY <1>1, <1>4, BurstFacts
  <2>2. PICK f : f = <<Head(buffer.ids)>>
    OBVIOUS
  <2>3. /\ f \in Flushes /\ f \in Procs /\ f \notin Reqs /\ proc' \in [Procs -> Local]
        /\ proc'[f].pc = "reload" /\ proc'[f].ids = buffer.ids
        /\ \A s \in Procs \ {f} : proc'[s] = proc[s]
    BY <1>1, <1>4, <2>1, <2>2, SpawnedFacts
  <2>4. FlushTrue(f)' /\ Carries(f)' = Buffered
    BY <2>1, <2>3, SpawnTrue
  <2>5. \A s \in Procs \ {f} : Carries(s)' = Carries(s)
    BY <2>3, CarriesSame
  <2>6. Buffered' = {}
    BY <1>4 DEF Buffered
  <2>7. \A q \in Reqs : (Held(q)' => Held(q)) /\ (Ran(q)' <=> Ran(q))
    BY <1>2, <2>4, <2>5, <2>6 DEF Held, Ran
  <2>8. Custody'
    <3> SUFFICES ASSUME NEW q \in Reqs
                 PROVE  /\ \A s, u \in Procs : q \in Carries(s)' /\ q \in Carries(u)' => s = u
                        /\ Held(q)' => ~Ran(q)'
      BY <1>1, <1>2, <2>6 DEF Custody
    <3>1. Held(q)' => ~Ran(q)'
      BY <1>1, <2>7 DEF Custody
    <3>2. \A s, u \in Procs : q \in Carries(s)' /\ q \in Carries(u)' => s = u
      BY <1>1, <2>4, <2>5 DEF Custody
    <3> QED BY <3>1, <3>2
  <2>9. runs \subseteq runs' /\ \A q \in Reqs : Spent(q) => Spent(q)'
    BY <1>2, <2>7, SpentStays
  <2>10. Truth'
    BY <1>2, <2>3, <2>4, <2>9, TruthStays
  <2>11. Typed'
    BY <1>1, <1>2, <1>4, <2>3 DEF Typed
  <2> QED BY <1>3, <2>8, <2>9, <2>10, <2>11 DEF IInv, Kept
<1>5. CASE UNCHANGED <<buffer, proc>>
  <2>1. \A p \in Procs : Carries(p)' = Carries(p)
    BY <1>5, CarriesSame
  <2>2. Shrinks
    BY <1>2, <1>5, <2>1 DEF Shrinks, Buffered
  <2>3. Custody' /\ runs \subseteq runs' /\ \A q \in Reqs : Spent(q) => Spent(q)'
    BY <1>1, <1>2, <2>2, ShrinksCustody, ShrinksHeld
  <2>4. Truth'
    BY <1>2, <1>5, <2>3, TruthStays
  <2>5. Typed'
    BY <1>1, <1>2, <1>5 DEF Typed
  <2> QED BY <1>3, <2>3, <2>4, <2>5 DEF IInv, Kept
<1> QED BY <1>4, <1>5 DEF arm_flush

\* The event moves from its request to the burst, or with the burst to its flush task.
LEMMA PushSteps ==
  ASSUME IInv, NEW q \in Reqs, Push(q)
  PROVE  Kept
<1>1. /\ q \in Procs /\ q \notin Flushes /\ proc \in [Procs -> Local] /\ proc[q] \in Local
      /\ RequestTrue(q) /\ At(q, "push") /\ Typed /\ Indexed /\ Custody /\ Truth
  BY RequestAt DEF Push, IInv
<1>2. UNCHANGED <<trigger, log, disk, admin, runs, now, faults, restarts, updates, deletes>>
  BY DEF Push, bounds
<1>3. proc[q].hash \in Bytes /\ proc[q].payload \in Bytes /\ proc[q].ids = <<q>>
  BY <1>1 DEF RequestTrue, At
<1>4. Carries(q) = {q}
  BY <1>1 DEF Carries
<1>5. Indexed'
  BY <1>1, <1>2 DEF Indexed
<1> DEFINE ids == Append(Burst.ids, q)
           pushed == [ids |-> ids, generation |-> Burst.generation + 1]
           l == [proc[q] EXCEPT !.pc = "bump", !.next = "done"]
           bumping == [proc EXCEPT ![q] = l]
<1>6. /\ ids \in Seq(Reqs) /\ ids # <<>> /\ Len(ids) = Burst.generation + 1
      /\ Len(ids) \in 1..MaxBatch /\ Range(ids) = Buffered \cup {q}
  <2>1. /\ Burst.ids \in Seq(Reqs) /\ Burst.generation = Len(Burst.ids)
        /\ Len(Burst.ids) \in 0..(MaxBatch - 1) /\ Buffered = Range(Burst.ids)
    BY <1>1, BurstFacts
  <2>2. PICK s \in Seq(Reqs) : s = Burst.ids
    BY <2>1
  <2>3. Append(s, q) \in Seq(Reqs) /\ Len(Append(s, q)) = Len(s) + 1 /\ Len(s) \in Nat
    BY <2>2
  <2>4. Append(s, q) # <<>>
    BY <2>3
  <2>5. /\ DOMAIN Append(s, q) = 1..(Len(s) + 1) /\ DOMAIN s = 1..Len(s)
        /\ \A i \in 1..(Len(s) + 1) : Append(s, q)[i] = IF i = Len(s) + 1 THEN q ELSE s[i]
    BY <2>2, <2>3, AppendProperties
  <2>6. Range(Append(s, q)) = Range(s) \cup {q}
    BY <2>3, <2>5 DEF Range
  <2> QED BY <2>1, <2>2, <2>3, <2>4, <2>6
<1>7. pushed.ids = ids /\ pushed.generation = Len(ids) /\ pushed \in BurstType
  BY <1>6 DEF BurstType
<1>8. /\ l \in Local /\ l.pc = "bump" /\ l.next = "done" /\ l.hash = proc[q].hash
      /\ l.payload = proc[q].payload /\ l.ids = proc[q].ids
  BY <1>1 DEF Local, RequestStages
<1>9. bumping \in [Procs -> Local] /\ bumping[q] = l /\ \A s \in Procs \ {q} : bumping[s] = proc[s]
  BY <1>1, <1>8
<1>10. \/ /\ buffer' = None /\ proc' = Spawned(bumping, pushed) /\ timers' = timers
       \/ /\ Len(ids) < MaxBatch /\ buffer' = pushed /\ proc' = bumping
          /\ timers' = timers \cup {[event |-> q, generation |-> Len(ids)]}
  <2>1. bumping = [proc EXCEPT ![q].pc = "bump", ![q].next = "done"]
    BY <1>1
  <2> HIDE DEF bumping, l, ids
  <2>2. ~(Len(ids) >= MaxBatch) => Len(ids) < MaxBatch
    BY <1>6
  <2> QED BY <1>7, <2>1, <2>2 DEF Push, ids
<1> HIDE DEF l, bumping, pushed, ids
<1>11. \A s \in Procs \ {q} : q \notin Carries(s)
  BY <1>1, <1>4 DEF Custody
<1>12. q \notin Buffered
  BY <1>1, <1>4 DEF Custody
<1>13. ASSUME proc'[q] = l
       PROVE  RequestTrue(q)' /\ Carries(q)' = {}
  <2>1. \A pc : At(q, pc)' <=> pc = "bump"
    BY <1>8, <1>13 DEF At
  <2> QED BY <1>3, <1>8, <1>13, <2>1 DEF RequestTrue, RequestStages, Settling, Counting, Carries
<1>14. CASE buffer' = None /\ proc' = Spawned(bumping, pushed) /\ timers' = timers
  <2>1. PICK f : f = <<Head(pushed.ids)>>
    OBVIOUS
  <2>2. /\ f \in Flushes /\ f \in Procs /\ f \notin Reqs /\ proc' \in [Procs -> Local]
        /\ proc'[f].pc = "reload" /\ proc'[f].ids = ids
        /\ \A s \in Procs \ {f} : proc'[s] = bumping[s]
    BY <1>6, <1>7, <1>9, <1>14, <2>1, SpawnedFacts
  <2>3. f # q /\ proc'[q] = l /\ \A s \in Procs \ {f, q} : proc'[s] = proc[s]
    BY <1>1, <1>9, <2>2
  <2>4. FlushTrue(f)' /\ Carries(f)' = Buffered \cup {q}
    BY <1>6, <2>2, SpawnTrue
  <2>5. \A s \in Procs \ {f, q} : Carries(s)' = Carries(s)
    BY <2>3, CarriesSame
  <2>6. RequestTrue(q)' /\ Carries(q)' = {}
    BY <1>13, <2>3
  <2>7. Buffered' = {}
    BY <1>14 DEF Buffered
  <2>8. \A x \in Reqs : (Held(x)' => Held(x)) /\ (Ran(x)' <=> Ran(x))
    BY <1>1, <1>2, <1>4, <2>4, <2>5, <2>6, <2>7 DEF Held, Ran
  <2>9. Custody'
    <3> SUFFICES ASSUME NEW x \in Reqs
                 PROVE  /\ \A s, u \in Procs : x \in Carries(s)' /\ x \in Carries(u)' => s = u
                        /\ Held(x)' => ~Ran(x)'
      BY <1>1, <1>2, <2>7 DEF Custody
    <3>1. Held(x)' => ~Ran(x)'
      BY <1>1, <2>8 DEF Custody
    <3>2. \A s \in Procs : x \in Carries(s)' /\ s # f => x \in Carries(s) /\ x # q /\ x \notin Buffered
      BY <1>1, <1>11, <2>5, <2>6 DEF Custody
    <3>3. \A s, u \in Procs : x \in Carries(s)' /\ x \in Carries(u)' => s = u
      BY <1>1, <2>4, <3>2 DEF Custody
    <3> QED BY <3>1, <3>3
  <2>10. runs \subseteq runs' /\ \A x \in Reqs : Spent(x) => Spent(x)'
    BY <1>2, <2>8, SpentStays
  <2>11. Truth'
    <3>1. proc'[q].pc # "bumping" /\ proc'[f].pc # "bumping"
      BY <1>8, <2>2, <2>3
    <3> QED BY <1>1, <1>2, <2>2, <2>3, <2>4, <2>6, <2>10, <3>1, TruthStays
  <2>12. Typed'
    BY <1>1, <1>2, <1>14, <2>2 DEF Typed
  <2> QED BY <1>5, <2>9, <2>10, <2>11, <2>12 DEF IInv, Kept
<1>15. CASE /\ Len(ids) < MaxBatch /\ buffer' = pushed /\ proc' = bumping
            /\ timers' = timers \cup {[event |-> q, generation |-> Len(ids)]}
  <2>1. proc'[q] = l /\ \A s \in Procs \ {q} : proc'[s] = proc[s] /\ Carries(s)' = Carries(s)
    BY <1>1, <1>9, <1>15, CarriesSame
  <2>2. RequestTrue(q)' /\ Carries(q)' = {}
    BY <1>13, <2>1
  <2>3. Buffered' \subseteq Buffered \cup {q}
    BY <1>6, <1>7, <1>15 DEF Buffered
  <2>4. \A x \in Reqs : (Held(x)' => Held(x)) /\ (Ran(x)' <=> Ran(x))
    BY <1>1, <1>2, <1>4, <2>1, <2>2, <2>3 DEF Held, Ran
  <2>5. Custody'
    <3> SUFFICES ASSUME NEW x \in Reqs
                 PROVE  /\ \A s, u \in Procs : x \in Carries(s)' /\ x \in Carries(u)' => s = u
                        /\ x \in Buffered' => \A s \in Procs : x \notin Carries(s)'
                        /\ Held(x)' => ~Ran(x)'
      BY <1>1, <1>2 DEF Custody
    <3>1. Held(x)' => ~Ran(x)'
      BY <1>1, <2>4 DEF Custody
    <3>2. \A s \in Procs : x \in Carries(s)' => x \in Carries(s) /\ x # q /\ x \notin Buffered
      BY <1>1, <1>11, <2>1, <2>2 DEF Custody
    <3> QED BY <1>1, <2>3, <3>1, <3>2 DEF Custody
  <2>6. runs \subseteq runs' /\ \A x \in Reqs : Spent(x) => Spent(x)'
    BY <1>2, <2>4, SpentStays
  <2>7. Truth'
    <3>1. proc'[q].pc # "bumping"
      BY <1>8, <2>1
    <3> QED BY <1>1, <1>2, <2>1, <2>2, <2>6, <3>1, TruthStays
  <2>8. /\ buffer' \in BurstType /\ buffer'.generation = Len(buffer'.ids)
        /\ buffer'.generation \in 1..(MaxBatch - 1)
    BY <1>6, <1>7, <1>15
  <2>9. timers' \subseteq [event : Reqs, generation : 1..MaxBatch]
    BY <1>1, <1>6, <1>15 DEF Typed
  <2>10. proc' \in [Procs -> Local]
    BY <1>9, <1>15
  <2>11. Typed'
    BY <1>1, <1>2, <2>8, <2>9, <2>10 DEF Typed
  <2> QED BY <1>5, <2>5, <2>6, <2>7, <2>11 DEF IInv, Kept
<1> QED BY <1>10, <1>14, <1>15

\* Steps that leave the requests and the tasks alone.
LEMMA ProcsStay ==
  ASSUME IInv, proc' = proc, runs' = runs, Buffered' \subseteq Buffered, Typed', Indexed',
         \A i \in DOMAIN log' : \E j \in DOMAIN log : log'[i] = log[j],
         disk' \subseteq disk
  PROVE  Kept
<1>1. \A p \in Procs : Carries(p)' = Carries(p)
  BY CarriesSame
<1>2. Shrinks
  BY <1>1 DEF Shrinks
<1>3. Custody' /\ runs \subseteq runs' /\ \A q \in Reqs : Spent(q) => Spent(q)'
  BY <1>2, ShrinksCustody, ShrinksHeld DEF IInv
<1>4. Truth'
  BY <1>3, TruthStays
<1> QED BY <1>3, <1>4 DEF IInv, Kept

LEMMA RegistrySteps ==
  ASSUME IInv, Registry \/ Tick
  PROVE  Kept
<1>1. Typed /\ Indexed
  BY DEF IInv
<1>2. CASE \E c \in Configs : UpdateRead(c)
  <2>1. PICK c \in Configs : UpdateRead(c)
    BY <1>2
  <2>2. /\ UNCHANGED <<trigger, log, disk, buffer, timers, proc, runs, now, faults, restarts, deletes>>
        /\ updates' = updates + 1 /\ admin' = [op |-> "update", record |-> c]
    BY <2>1 DEF UpdateRead
  <2>3. Typed' /\ Indexed' /\ Buffered' = Buffered
    BY <1>1, <2>2 DEF Typed, Indexed, Buffered
  <2> QED BY <2>2, <2>3, ProcsStay
<1>3. CASE \E c \in Drafts : create_trigger(c)
  <2>1. PICK c \in Drafts : create_trigger(c)
    BY <1>3
  <2>2. /\ UNCHANGED <<log, disk, buffer, timers, proc, admin, runs, now, faults, restarts, updates, deletes>>
        /\ trigger' = c
    BY <2>1 DEF create_trigger, bounds
  <2>3. Typed' /\ Indexed' /\ Buffered' = Buffered
    BY <1>1, <2>2 DEF Typed, Indexed, Buffered
  <2> QED BY <2>2, <2>3, ProcsStay
<1>4. CASE UpdateWrite
  <2>1. /\ UNCHANGED <<log, disk, buffer, timers, proc, runs, now, faults, restarts, updates, deletes>>
        /\ admin' = None /\ trigger' \in Configs
    BY <1>1, <1>4 DEF UpdateWrite, bounds, Typed
  <2>2. Typed' /\ Indexed' /\ Buffered' = Buffered
    BY <1>1, <2>1 DEF Typed, Indexed, Buffered
  <2> QED BY <2>1, <2>2, ProcsStay
<1>5. CASE DeleteRecord
  <2>1. /\ UNCHANGED <<buffer, timers, proc, runs, now, restarts, updates>>
        /\ deletes' = deletes + 1 /\ trigger' = None /\ log' = <<>>
        /\ disk' \in {{}, disk} /\ faults' \in {faults, faults + 1}
        /\ admin' = [op |-> "delete", record |-> None]
    BY <1>5 DEF DeleteRecord, Fault
  <2>2. admin'.op # "update"
    BY <2>1
  <2>3. log' \in Seq(EventRecord) /\ DOMAIN log' = {}
    BY <2>1
  <2>4. disk' \subseteq disk /\ IsFiniteSet(disk')
    BY <1>1, <2>1, FS_EmptySet DEF Typed
  <2>5. faults' \in Nat /\ deletes' \in Nat /\ deletes' # 0
    BY <1>1, <2>1 DEF Typed
  <2>6. disk' \subseteq EventRecord
    BY <1>1, <2>4 DEF Typed
  <2>7. Typed'
    BY <1>1, <2>1, <2>2, <2>3, <2>4, <2>5, <2>6 DEF Typed
  <2>8. Indexed' /\ Buffered' = Buffered
    BY <1>1, <2>1, <2>3, <2>4, <2>5 DEF Indexed, Buffered
  <2> QED BY <2>1, <2>3, <2>4, <2>7, <2>8, ProcsStay
<1>6. CASE DropBurst
  <2>1. /\ UNCHANGED <<trigger, log, disk, timers, proc, runs, now, faults, restarts, updates, deletes>>
        /\ buffer' = None /\ admin' = None
    BY <1>6 DEF DropBurst, bounds
  <2>2. Typed' /\ Indexed' /\ Buffered' \subseteq Buffered
    BY <1>1, <2>1 DEF Typed, Indexed, Buffered
  <2> QED BY <2>1, <2>2, ProcsStay
<1>7. CASE Tick
  <2>1. /\ UNCHANGED <<trigger, log, disk, buffer, timers, proc, admin, runs, faults, restarts, updates, deletes>>
        /\ now' = now + 1 /\ now < MaxNow
    BY <1>7 DEF Tick, bounds
  <2>2. now' \in 0..MaxNow
    BY <1>1, <2>1 DEF Typed
  <2>3. Typed' /\ Indexed' /\ Buffered' = Buffered
    BY <1>1, <2>1, <2>2 DEF Typed, Indexed, Buffered
  <2> QED BY <2>1, <2>3, ProcsStay
<1> QED BY <1>2, <1>3, <1>4, <1>5, <1>6, <1>7 DEF Registry

\* The log a load makes of the files.
LEMMA LoadFacts ==
  ASSUME NEW S, IsFiniteSet(S), NEW s \in SetToSeqs(S)
  PROVE  /\ s \in Seq(S) /\ Len(s) = Cardinality(S)
         /\ \A i, j \in DOMAIN s : s[i] = s[j] => i = j
         /\ \A x \in S : \E i \in DOMAIN s : s[i] = x
<1>1. PICK n \in Nat : n = Cardinality(S)
  BY FS_CardinalityType
<1>2. s \in [1..n -> S] /\ \A i, j \in 1..n : i # j => s[i] # s[j]
  BY <1>1 DEF SetToSeqs
<1>3. s \in Seq(S) /\ Len(s) = n /\ DOMAIN s = 1..n
  BY <1>2
<1>4. s \in Injection(1..n, S)
  BY <1>2 DEF Injection, IsInjective
<1>5. Cardinality(1..n) = n
  BY FS_Interval
<1>6. s \in Surjection(1..n, S)
  BY <1>1, <1>4, <1>5, FS_Injection
<1>7. \A x \in S : \E i \in 1..n : s[i] = x
  BY <1>6 DEF Surjection
<1> QED BY <1>1, <1>2, <1>3, <1>7

\* With an entry in the log for each file, there are no more files than entries.
LEMMA FilesBounded ==
  ASSUME Typed, Indexed, deletes = 0
  PROVE  Cardinality(disk) <= Len(log)
<1>1. Len(log) \in Nat /\ DOMAIN log = 1..Len(log)
  BY DEF Typed
<1>2. \A x \in disk : \E i \in DOMAIN log : log[i].id = x.id
  BY DEF Indexed
<1> DEFINE g == [x \in disk |-> CHOOSE i \in DOMAIN log : log[i].id = x.id]
<1>3. \A x \in disk : g[x] \in 1..Len(log) /\ log[g[x]].id = x.id
  BY <1>1, <1>2
<1>4. g \in [disk -> 1..Len(log)]
  BY <1>3
<1> HIDE DEF g
<1>5. \A x, y \in disk : g[x] = g[y] => x = y
  BY <1>3 DEF Indexed
<1>6. g \in Injection(disk, 1..Len(log))
  BY <1>4, <1>5 DEF Injection, IsInjective
<1>7. IsFiniteSet(1..Len(log)) /\ Cardinality(1..Len(log)) = Len(log)
  BY <1>1, FS_Interval
<1> QED BY <1>6, <1>7, FS_Injection

LEMMA RestartSteps ==
  ASSUME IInv, Restart
  PROVE  Kept
<1>1. Typed /\ Indexed /\ Custody /\ Truth /\ proc \in [Procs -> Local]
  BY DEF IInv, Typed
<1>2. /\ UNCHANGED <<trigger, disk, runs, now, faults, updates, deletes>>
      /\ restarts' = restarts + 1 /\ buffer' = None /\ timers' = {} /\ admin' = None
      /\ log' \in SetToSeqs(disk)
  BY DEF Restart
<1>3. IsFiniteSet(disk) /\ disk \subseteq EventRecord
  BY <1>1 DEF Typed
<1>4. /\ log' \in Seq(disk) /\ Len(log') = Cardinality(disk)
      /\ \A i, j \in DOMAIN log' : log'[i] = log'[j] => i = j
      /\ \A x \in disk : \E i \in DOMAIN log' : log'[i] = x
  BY <1>2, <1>3, LoadFacts
<1>5. \A i \in DOMAIN log' : log'[i] \in disk
  BY <1>4
<1>6. log' \in Seq(EventRecord)
  BY <1>3, <1>4
<1>7. Indexed'
  <2>1. \A i, j \in DOMAIN log' : log'[i].id = log'[j].id => i = j
    BY <1>1, <1>4, <1>5 DEF Indexed
  <2>2. deletes = 0 => Len(log') <= MaxEvents + faults
    <3>1. deletes = 0 => Cardinality(disk) <= Len(log) /\ Len(log) <= MaxEvents + faults
      BY <1>1, FilesBounded DEF Indexed
    <3>2. Cardinality(disk) \in Nat /\ Len(log) \in Nat /\ faults \in Nat
      BY <1>1, <1>3, FS_CardinalityType DEF Typed
    <3> QED BY <1>4, <3>1, <3>2
  <2> QED BY <1>1, <1>2, <1>4, <1>5, <2>1, <2>2 DEF Indexed
<1>8. \A p \in Procs : proc'[p] = IF proc[p].pc \in Ended THEN proc[p] ELSE End(p, FALSE)
  BY DEF Restart
<1>9. \A p \in Procs : proc'[p] = proc[p] \/ (proc'[p] \in Local /\ proc'[p].pc = "done")
  BY <1>1, <1>8, EndTyped
<1>10. proc' \in [Procs -> Local]
  <2>1. \A p \in Procs : proc'[p] \in Local
    BY <1>1, <1>9
  <2>2. proc' = [p \in Procs |-> IF proc[p].pc \in Ended THEN proc[p] ELSE End(p, FALSE)]
    BY DEF Restart
  <2>3. proc' = [p \in Procs |-> proc'[p]]
    BY <2>2
  <2> QED BY <2>1, <2>3
<1>11. \A p \in Procs : Carries(p)' \subseteq Carries(p)
  BY <1>9, CarriesSame, OverTrue
<1>12. Shrinks
  BY <1>2, <1>11 DEF Shrinks, Buffered
<1>13. Custody' /\ runs \subseteq runs' /\ \A q \in Reqs : Spent(q) => Spent(q)'
  BY <1>1, <1>2, <1>12, ShrinksCustody, ShrinksHeld
<1>14. Truth'
  <2>1. \A p \in Procs : \/ proc'[p] = proc[p]
                         \/ /\ p \in Reqs => RequestTrue(p)'
                            /\ p \in Flushes => FlushTrue(p)'
                            /\ proc'[p].pc # "bumping"
    BY <1>9, OverTrue
  <2> QED BY <1>2, <1>5, <1>13, <2>1, TruthStays
<1>15. Typed'
  BY <1>1, <1>2, <1>6, <1>10 DEF Typed
<1> QED BY <1>7, <1>13, <1>14, <1>15 DEF IInv, Kept

-----------------------------------------------------------------------------
(* The invariant holds. *)

LEMMA InitHolds == Init => IInv
<1> SUFFICES ASSUME Init PROVE IInv
  OBVIOUS
<1>1. /\ log = <<>> /\ disk = {} /\ buffer = None /\ timers = {} /\ runs = {} /\ admin = None
      /\ trigger \in Configs /\ now = 0 /\ faults = 0 /\ restarts = 0 /\ updates = 0 /\ deletes = 0
      /\ proc = [p \in Procs |-> Idle]
  BY DEF Init
<1>2. proc \in [Procs -> Local] /\ \A p \in Procs : proc[p] = Idle
  BY <1>1, IdleTyped
<1>3. \A p \in Procs : \A pc : At(p, pc) <=> pc = "idle"
  BY <1>2 DEF At, Idle
<1>4. \A p \in Procs : Carries(p) = IF p \in Reqs THEN {p} ELSE {}
  BY <1>3 DEF Carries
<1>5. log \in Seq(EventRecord) /\ DOMAIN log = {} /\ Len(log) = 0
  BY <1>1
<1>6. Typed
  BY <1>1, <1>2, <1>5, FS_EmptySet DEF Typed
<1>7. Indexed
  BY <1>1, <1>5 DEF Indexed
<1>8. Custody
  BY <1>1, <1>4 DEF Custody, Buffered, Held, Ran
<1>9. \A q \in Reqs : RequestTrue(q)
  <2> SUFFICES ASSUME NEW q \in Reqs PROVE RequestTrue(q)
    OBVIOUS
  <2>1. q \in Procs
    BY DEF Procs
  <2>2. proc[q].pc = "idle"
    BY <1>2, <2>1 DEF Idle
  <2> QED BY <1>2, <1>3, <2>1, <2>2 DEF RequestTrue, RequestStages, Settling, Counting
<1>10. \A f \in Flushes : FlushTrue(f)
  <2> SUFFICES ASSUME NEW f \in Flushes PROVE FlushTrue(f)
    OBVIOUS
  <2>1. f \in Procs
    BY DEF Procs
  <2>2. proc[f].pc = "idle"
    BY <1>2, <2>1 DEF Idle
  <2> QED BY <1>2, <1>3, <2>1, <2>2 DEF FlushTrue, FlushStages
<1>11. Truth
  BY <1>1, <1>3, <1>5, <1>9, <1>10 DEF Truth
<1> QED BY <1>6, <1>7, <1>8, <1>11 DEF IInv

LEMMA StepHolds ==
  ASSUME IInv, [Next]_vars
  PROVE  Kept
<1>1. CASE \E q \in Reqs : \E b \in Bytes : webhook(q, b)
  BY <1>1, WebhookSteps
<1>2. CASE \E q \in Reqs : \E i \in DOMAIN log : replay_event(q, i)
  BY <1>2, ReplaySteps
<1>3. CASE \E q \in Reqs : Request(q)
  BY <1>3, RepeatSteps, LogSteps, PushSteps DEF Request
<1>4. CASE \E q \in Reqs : Dropped(q)
  BY <1>4, DroppedSteps
<1>5. CASE \E f \in Flushes : Flush(f)
  BY <1>5, FlushBufferSteps, FetchSteps, StoreSteps DEF Flush
<1>6. CASE \E p \in Procs : Shared(p)
  BY <1>6, ExecuteSteps, BumpSteps DEF Shared
<1>7. CASE \E t \in timers : arm_flush(t)
  BY <1>7, ArmSteps
<1>8. CASE Registry \/ Tick
  BY <1>8, RegistrySteps
<1>9. CASE Restart
  BY <1>9, RestartSteps
<1>10. CASE UNCHANGED vars
  <2>1. Typed' /\ Indexed' /\ Buffered' = Buffered
    BY <1>10 DEF vars, bounds, IInv, Typed, Indexed, Buffered
  <2>2. UNCHANGED <<proc, runs, log, disk>>
    BY <1>10 DEF vars
  <2> QED BY <2>1, <2>2, ProcsStay
<1> QED BY <1>1, <1>2, <1>3, <1>4, <1>5, <1>6, <1>7, <1>8, <1>9, <1>10 DEF Next

LEMMA InvAlways == Spec => []IInv
<1>1. IInv /\ [Next]_vars => IInv'
  BY StepHolds DEF Kept
<1> QED BY <1>1, InitHolds, PTL DEF Spec

-----------------------------------------------------------------------------
(* The theorems. *)

\* Each event takes part in at most one run, whatever flush tasks, restarts, dropped
\* requests and failed writes interleave: custody of it is handed over, never copied
\* (buffer_event, arm_flush, execute_action).
THEOREM RunsOnce == Spec => []RunOnce
<1>1. IInv => RunOnce
  <2> SUFFICES ASSUME IInv, NEW r \in runs, NEW s \in runs, r.events \cap s.events # {}
               PROVE  r = s
    BY DEF RunOnce
  <2> QED BY DEF IInv, Custody
<1> QED BY <1>1, InvAlways, PTL

LEMMA LoggedOnce ==
  ASSUME Typed, Indexed, NEW q \in Reqs
  PROVE  Cardinality(Logged(q)) <= 1
<1>1. CASE Logged(q) = {}
  <2>1. Cardinality(Logged(q)) = 0
    BY <1>1, FS_EmptySet
  <2> QED BY <2>1
<1>2. CASE Logged(q) # {}
  <2>1. PICK i : i \in Logged(q)
    BY <1>2
  <2>2. Logged(q) = {i}
    BY <2>1 DEF Logged, Indexed
  <2>3. Cardinality(Logged(q)) = 1
    BY <2>2, FS_Singleton
  <2> QED BY <2>3
<1> QED BY <1>1, <1>2

\* What the log and the event files say of an event is what happened, after any
\* interleaving of flushes, failed writes, deletions and restarts (execute_and_log,
\* transition_events, webhook).
THEOREM LogsTruthful == Spec => []LogTruthful
<1>1. IInv => TriggerTypeOK
  <2> SUFFICES ASSUME IInv PROVE TriggerTypeOK
    OBVIOUS
  <2>1. Typed /\ Indexed
    BY DEF IInv
  <2>2. buffer = None \/ (Len(buffer.ids) \in 1..(MaxBatch - 1) /\ Range(buffer.ids) \subseteq Reqs)
    <3> SUFFICES ASSUME buffer # None
                 PROVE  Len(buffer.ids) \in 1..(MaxBatch - 1) /\ Range(buffer.ids) \subseteq Reqs
      OBVIOUS
    <3>1. /\ buffer.ids \in Seq(Reqs) /\ buffer.generation = Len(buffer.ids)
          /\ buffer.generation \in 1..(MaxBatch - 1)
      BY <2>1 DEF Typed, BurstType
    <3>2. \A i \in DOMAIN buffer.ids : buffer.ids[i] \in Reqs
      BY <3>1
    <3> QED BY <3>1, <3>2 DEF Range
  <2> QED BY <2>1, <2>2, LoggedOnce DEF TriggerTypeOK, Typed, Indexed
<1>2. IInv => LogTruthful
  <2> SUFFICES ASSUME IInv, NEW e \in Range(log) \cup disk
               PROVE  /\ e.status \in {"executed", "coalesced"} =>
                           \E r \in runs : r.id = e.run /\ e.id \in r.events
                      /\ e.status \in {"failed", "duplicate"} => ~Ran(e.id)
                      /\ e.status = "duplicate" /\ e.run # None =>
                           \E r \in runs : r.id = e.run /\ e.of \in r.events
    BY <1>1 DEF LogTruthful
  <2>1. Told(e)
    BY DEF IInv, Truth, Range
  <2> QED BY <2>1 DEF Told, RanAs, Spent
<1> QED BY <1>2, InvAlways, PTL

-----------------------------------------------------------------------------
(* Retries.                                                                *)

\* How a request's record moves: its stamp, once logged, and its sender's deliveries
\* stay, and it ends for good.
Onward(q) ==
  /\ Logging(q) => Logging(q)' /\ proc'[q].created = proc[q].created
  /\ ~At(q, "idle") => /\ proc'[q].hash = proc[q].hash /\ proc'[q].seen = proc[q].seen
                       /\ proc'[q].snap = proc[q].snap /\ ~At(q, "idle")'
  /\ At(q, "idle") => \A r \in proc'[q].seen : proc[r].acked /\ proc[r].hash = proc'[q].hash
  /\ At(q, "done") => proc'[q] = proc[q]
  /\ proc'[q].created >= proc[q].created /\ proc'[q].created <= now'
  /\ proc'[q].acked => At(q, "done")'

LEMMA StampedStays ==
  ASSUME IInv, NEW e \in EventRecord, Stamped(e), Onward(e.id)
  PROVE  Stamped(e)'
<1>1. Logging(e.id) /\ proc[e.id].hash = e.hash /\ proc[e.id].created = e.created
  BY DEF Stamped
<1>2. ~At(e.id, "idle")
  BY <1>1 DEF Logging, Counting, At
<1> QED BY <1>1, <1>2 DEF Onward, Stamped

LEMMA HeededStays ==
  ASSUME IInv, RetryInv, NEW q \in Reqs, \A x \in Reqs : Onward(x), ~At(q, "idle"), Heeded(q),
         \A x \in Reqs : Spent(x) => Spent(x)', Typed'
  PROVE  Heeded(q)'
<1>1. proc \in [Procs -> Local] /\ q \in Procs /\ proc' \in [Procs -> Local]
  BY RequestAt DEF Typed
<1>2. proc'[q].seen = proc[q].seen /\ proc[q].seen \subseteq Reqs /\ proc'[q].created >= proc[q].created
  BY <1>1 DEF Onward, Local
<1> SUFFICES ASSUME NEW r \in proc[q].seen
             PROVE  Spent(r)' \/ proc'[r].created + Window < proc'[q].created
  BY <1>2 DEF Heeded
<1>3. r \in Reqs /\ r \in Procs
  BY <1>2 DEF Procs
<1>4. At(r, "done")
  BY <1>3 DEF RetryInv
<1>5. proc'[r].created = proc[r].created
  BY <1>3, <1>4 DEF Onward
<1>6. proc[r].created \in Nat /\ proc[q].created \in Nat /\ proc'[q].created \in Nat
  BY <1>1, <1>3 DEF Local
<1>7. Spent(r) \/ proc[r].created + Window < proc[q].created
  BY DEF Heeded
<1> QED BY <1>2, <1>3, <1>5, <1>6, <1>7

LEMMA RetryKeeps ==
  ASSUME IInv, RetryInv, Kept,
         \A q \in Reqs : Onward(q),
         \A i \in DOMAIN log' : (\E j \in DOMAIN log : log'[i] = log[j]) \/ log'[i] \in disk
                                  \/ Stamped(log[i])',
         \A x \in disk' : x \in disk \/ Stamped(x)',
         \A f \in Flushes : At(f, "store")' =>
           \/ At(f, "store") /\ proc'[f].read = proc[f].read
           \/ \E j \in DOMAIN log : proc'[f].read = log[j],
         Lossless' => Lossless,
         Lossless' => \A q \in Reqs : Filed(q) => Filed(q)',
         Lossless' => \A q \in Reqs : /\ Claims(q)' => Claims(q) \/ Filed(q)'
                                      /\ Past(q)' => Past(q) \/ Spent(q)' \/ Heeded(q)'
  PROVE  RetryInv'
<1>1. Typed /\ Typed' /\ Truth /\ \A q \in Reqs : Spent(q) => Spent(q)'
  BY DEF IInv, Kept
<1>2. \A e \in EventRecord : Stamped(e) => Stamped(e)'
  <2>1. \A e \in EventRecord : e.id \in Reqs
    BY DEF EventRecord
  <2> QED BY <2>1, StampedStays
<1>3. Stamps'
  <2>1. ASSUME NEW i \in DOMAIN log' PROVE Stamped(log[i])'
    <3>1. PICK e : e = log'[i]
      OBVIOUS
    <3>2. CASE Stamped(log[i])'
      BY <3>2
    <3>3. CASE (\E j \in DOMAIN log : log'[i] = log[j]) \/ log'[i] \in disk
      <4>1. e \in EventRecord /\ Stamped(e)
        BY <1>1, <3>1, <3>3, RecordTyped DEF Typed, RetryInv, Stamps
      <4>2. Stamped(e)'
        BY <1>2, <4>1
      <4> QED BY <3>1, <4>2 DEF Stamped
    <3> QED BY <3>2, <3>3
  <2>2. ASSUME NEW x \in disk' PROVE Stamped(x)'
    BY <1>1, <1>2 DEF Typed, RetryInv, Stamps
  <2>3. ASSUME NEW f \in Flushes, At(f, "store")' PROVE Stamped(proc[f].read)'
    <3>1. PICK e : e = proc'[f].read
      OBVIOUS
    <3>2. CASE At(f, "store") /\ proc'[f].read = proc[f].read
      <4>1. e \in EventRecord /\ Stamped(e)
        BY <1>1, <3>1, <3>2 DEF RetryInv, Stamps, Truth, FlushTrue
      <4>2. Stamped(e)'
        BY <1>2, <4>1
      <4> QED BY <3>1, <4>2 DEF Stamped
    <3>3. CASE \E j \in DOMAIN log : proc'[f].read = log[j]
      <4>1. e \in EventRecord /\ Stamped(e)
        BY <1>1, <3>1, <3>3, RecordTyped DEF Typed, RetryInv, Stamps
      <4>2. Stamped(e)'
        BY <1>2, <4>1
      <4> QED BY <3>1, <4>2 DEF Stamped
    <3> QED BY <2>3, <3>2, <3>3
  <2> QED BY <2>1, <2>2, <2>3 DEF Stamps
<1>4. (\A q \in Reqs : proc[q].created <= now)' /\ (\A q \in Reqs : proc[q].acked => At(q, "done"))'
  BY DEF Onward
<1>5. \A r \in Reqs : proc[r].acked => proc'[r] = proc[r]
  BY DEF Onward, RetryInv
<1>6. ASSUME NEW q \in Reqs, NEW r \in proc'[q].seen
      PROVE  proc'[r].acked /\ proc'[r].hash = proc'[q].hash
  <2>1. r \in Reqs
    BY <1>1, RequestAt DEF Typed, Local
  <2>2. CASE At(q, "idle")
    BY <1>5, <2>1, <2>2 DEF Onward
  <2>3. CASE ~At(q, "idle")
    BY <1>5, <2>1, <2>3 DEF Onward, RetryInv
  <2> QED BY <2>2, <2>3
<1>7. ASSUME Lossless', NEW q \in Reqs
      PROVE  /\ Claims(q)' => Filed(q)'
             /\ Past(q)' => Spent(q)' \/ Heeded(q)'
  <2>1. Claims(q) => Filed(q)'
    BY <1>7 DEF RetryInv
  <2>2. Past(q) => Spent(q)' \/ Heeded(q)'
    <3>1. Past(q) => ~At(q, "idle") /\ (Spent(q) \/ Heeded(q))
      BY <1>7 DEF RetryInv, Past
    <3> QED BY <1>1, <3>1, HeededStays
  <2> QED BY <1>7, <2>1, <2>2
<1> QED BY <1>3, <1>4, <1>6, <1>7 DEF RetryInv

\* A request that does not move.
LEMMA OnwardSame ==
  ASSUME IInv, RetryInv, NEW q \in Reqs, proc'[q] = proc[q], now' \in Nat, now' >= now
  PROVE  /\ Onward(q)
         /\ Claims(q)' <=> Claims(q)
         /\ Past(q)' <=> Past(q)
<1>1. \A pc : At(q, pc)' <=> At(q, pc)
  BY DEF At
<1>2. proc[q].created \in Nat /\ proc[q].created <= now' /\ now \in Nat
  <2>1. proc[q].created \in Nat /\ now \in Nat
    BY RequestAt DEF Local, IInv, Typed
  <2>2. proc[q].created <= now
    BY DEF RetryInv
  <2> QED BY <2>1, <2>2
<1>3. Logging(q)' <=> Logging(q)
  BY <1>1 DEF Logging, Counting
<1>4. At(q, "idle") => proc[q].seen = {}
  BY RequestAt DEF RequestTrue, Idle
<1>5. Onward(q)
  BY <1>1, <1>2, <1>3, <1>4 DEF Onward, RetryInv
<1>6. (Claims(q)' <=> Claims(q)) /\ (Past(q)' <=> Past(q))
  BY <1>1 DEF Claims, Past, Counting
<1> QED BY <1>5, <1>6

LEMMA LosslessBefore ==
  ASSUME Typed, faults' \in Nat, faults' >= faults, restarts' \in Nat, restarts' >= restarts,
         deletes' \in Nat, deletes' >= deletes
  PROVE  Lossless' => Lossless
BY DEF Lossless, Typed

LEMMA FiledSame ==
  ASSUME Kept, log' = log
  PROVE  \A q \in Reqs : Filed(q) => Filed(q)'
BY DEF Kept, Filed

\* A log that keeps an entry for every request drops none.
LEMMA LogFits ==
  ASSUME Typed, Indexed, NEW e \in EventRecord, Cardinality(Reqs) <= MaxEvents
  PROVE  Len(Upserted(e)) <= MaxEvents
<1>1. PICK all \in Seq(EventRecord) : all = Upserted(e)
  BY UpsertedFacts
<1>2. \A i, j \in DOMAIN all : all[i].id = all[j].id => i = j
  BY <1>1, UpsertedFacts
<1>3. PICK n \in Nat : n = Len(all) /\ DOMAIN all = 1..n
  OBVIOUS
<1>4. \A i \in 1..n : all[i].id \in Reqs
  BY <1>3, RecordTyped DEF EventRecord
<1> DEFINE h == [i \in 1..n |-> all[i].id]
<1>5. h \in Injection(1..n, Reqs)
  BY <1>2, <1>3, <1>4 DEF Injection, IsInjective
<1>6. Cardinality(1..n) = n
  BY FS_Interval
<1>7. n <= Cardinality(Reqs) /\ Cardinality(Reqs) \in Nat
  <2> HIDE DEF h
  <2> QED BY <1>5, <1>6, FS_Injection, FS_CardinalityType
<1> QED BY <1>1, <1>3, <1>7

LEMMA FiledAppend ==
  ASSUME IInv, Kept, NEW e \in EventRecord,
         (append_trigger_event(e) /\ faults' = faults) \/ AppendFails(e),
         deletes' = deletes, Cardinality(Reqs) <= MaxEvents
  PROVE  Filed(e.id)' /\ \A q \in Reqs : Filed(q) => Filed(q)'
<1>1. Typed /\ Indexed
  BY DEF IInv
<1>2. log' = Upserted(e)
  <2>1. CASE AppendFails(e)
    BY <2>1 DEF AppendFails
  <2>2. CASE append_trigger_event(e)
    <3>1. PICK all \in Seq(EventRecord) : all = Upserted(e)
      BY <1>1, UpsertedFacts
    <3>2. Len(all) <= MaxEvents /\ Len(all) \in Nat
      BY <1>1, <3>1, LogFits
    <3>3. ~(Len(all) > MaxEvents)
      BY <3>2
    <3>4. log' = SubSeq(all, 0 + 1, Len(all))
      BY <2>2, <3>1, <3>3 DEF append_trigger_event
    <3>5. SubSeq(all, 1, Len(all)) = all
      <4>1. 1 \in 1..(Len(all) + 1) /\ Len(all) \in (1 - 1)..Len(all)
        BY <3>2
      <4>2. /\ SubSeq(all, 1, Len(all)) \in Seq(EventRecord)
            /\ Len(SubSeq(all, 1, Len(all))) = IF 1 <= Len(all) THEN Len(all) - 1 + 1 ELSE 0
            /\ \A i \in 1..(Len(all) - 1 + 1) : SubSeq(all, 1, Len(all))[i] = all[1 + i - 1]
        BY <3>1, <4>1, SubSeqProperties
      <4>3. Len(SubSeq(all, 1, Len(all))) = Len(all) /\ Len(all) - 1 + 1 = Len(all)
        BY <3>2, <4>2
      <4>4. \A i \in 1..Len(all) : SubSeq(all, 1, Len(all))[i] = all[i]
        BY <3>2, <4>2, <4>3
      <4> QED BY <3>1, <4>2, <4>3, <4>4, SeqEqual
    <3> QED BY <3>1, <3>4, <3>5
  <2> QED BY <2>1, <2>2
<1>3. PICK k \in DOMAIN log' : log'[k] = e
  BY <1>1, <1>2, UpsertedFacts
<1>4. Filed(e.id)'
  <2>1. Told(log[k])'
    BY DEF Kept, IInv, Truth
  <2>2. e.status \in {"failed", "duplicate"} => Spent(e.id)'
    BY <1>3, <2>1 DEF Told
  <2>3. e.status \in {"failed", "duplicate"} \/ e.status \in {"pending", "executed", "coalesced"}
    BY DEF EventRecord
  <2> QED BY <1>3, <2>2, <2>3 DEF Filed
<1>5. ASSUME NEW q \in Reqs, Filed(q) PROVE Filed(q)'
  <2>1. CASE q = e.id
    BY <1>4, <2>1
  <2>2. CASE q # e.id
    <3>1. CASE Spent(q)
      BY <3>1 DEF Kept, Filed
    <3>2. CASE \E j \in DOMAIN log : /\ log[j].id = q
                                     /\ log[j].status \in {"pending", "executed", "coalesced"}
      <4>1. PICK j \in DOMAIN log : /\ log[j].id = q
                                    /\ log[j].status \in {"pending", "executed", "coalesced"}
        BY <3>2
      <4>2. \E i \in DOMAIN log' : log'[i] = log[j]
        <5>1. \A m \in DOMAIN log : log[m].id # e.id =>
                \E i \in DOMAIN Upserted(e) : Upserted(e)[i] = log[m]
          BY <1>1, UpsertedFacts
        <5> QED BY <1>2, <2>2, <4>1, <5>1
      <4> QED BY <4>1, <4>2 DEF Filed
    <3> QED BY <1>5, <3>1, <3>2 DEF Filed
  <2> QED BY <2>1, <2>2
<1> QED BY <1>4, <1>5

\* Steps of the others: no request moves.
LEMMA OthersRetry ==
  ASSUME IInv, RetryInv, Kept, \A q \in Reqs : proc'[q] = proc[q], now' \in Nat, now' >= now,
         \A i \in DOMAIN log' : (\E j \in DOMAIN log : log'[i] = log[j]) \/ log'[i] \in disk
                                  \/ Stamped(log[i])',
         \A x \in disk' : x \in disk \/ Stamped(x)',
         \A f \in Flushes : At(f, "store")' =>
           \/ At(f, "store") /\ proc'[f].read = proc[f].read
           \/ \E j \in DOMAIN log : proc'[f].read = log[j],
         Lossless' => Lossless,
         Lossless' => \A q \in Reqs : Filed(q) => Filed(q)'
  PROVE  RetryInv'
BY OnwardSame, RetryKeeps

\* Steps of a request.
LEMMA RequestRetry ==
  ASSUME IInv, RetryInv, Kept, NEW q \in Reqs, \A s \in Reqs \ {q} : proc'[s] = proc[s], now' = now,
         Onward(q),
         \A i \in DOMAIN log' : (\E j \in DOMAIN log : log'[i] = log[j]) \/ Stamped(log[i])',
         \A x \in disk' : x \in disk \/ Stamped(x)',
         \A f \in Flushes : At(f, "store")' => At(f, "store") /\ proc'[f].read = proc[f].read,
         Lossless' => Lossless,
         Lossless' => \A s \in Reqs : Filed(s) => Filed(s)',
         Lossless' => /\ Claims(q)' => Claims(q) \/ Filed(q)'
                      /\ Past(q)' => Past(q) \/ Spent(q)' \/ Heeded(q)'
  PROVE  RetryInv'
<1>1. now' \in Nat /\ now' >= now
  BY DEF IInv, Typed
<1>2. \A s \in Reqs \ {q} : Onward(s) /\ (Claims(s)' <=> Claims(s)) /\ (Past(s)' <=> Past(s))
  BY <1>1, OnwardSame
<1> QED BY <1>2, RetryKeeps

\* The same for a step that leaves the log alone.
LEMMA RequestQuiet ==
  ASSUME IInv, RetryInv, Kept, NEW q \in Reqs, NEW l, Moves(q, l), UNCHANGED <<log, disk>>,
         faults' \in Nat, faults' >= faults, Onward(q),
         Lossless' => /\ Claims(q)' => Claims(q) \/ Filed(q)'
                      /\ Past(q)' => Past(q) \/ Spent(q)' \/ Heeded(q)'
  PROVE  RetryInv'
<1>1. /\ \A s \in Procs \ {q} : proc'[s] = proc[s]
      /\ now' = now /\ restarts' = restarts /\ deletes' = deletes /\ restarts \in Nat /\ deletes \in Nat
  BY RequestAt DEF Moves, IInv, Typed
<1>2. Lossless' => Lossless
  BY <1>1, LosslessBefore DEF IInv
<1>3. \A f \in Flushes : At(f, "store")' => At(f, "store") /\ proc'[f].read = proc[f].read
  BY <1>1 DEF At, Procs
<1>4. \A s \in Reqs \ {q} : proc'[s] = proc[s]
  BY <1>1 DEF Procs
<1> QED BY <1>1, <1>2, <1>3, <1>4, FiledSame, RequestRetry

\* ... and for one that writes its event.
LEMMA RequestLogs ==
  ASSUME IInv, RetryInv, Kept, NEW q \in Reqs, NEW l, Moves(q, l), NEW e \in EventRecord,
         (append_trigger_event(e) /\ faults' = faults) \/ AppendFails(e),
         Stamped(e)', e.id = q, Onward(q),
         Lossless' => (Past(q)' => Past(q) \/ Spent(q)' \/ Heeded(q)')
  PROVE  RetryInv'
<1>1. /\ \A s \in Procs \ {q} : proc'[s] = proc[s]
      /\ now' = now /\ restarts' = restarts /\ deletes' = deletes /\ restarts \in Nat /\ deletes \in Nat
  BY RequestAt DEF Moves, IInv, Typed
<1>2. /\ \A i \in DOMAIN log' : log'[i] = e \/ \E j \in DOMAIN log : log'[i] = log[j]
      /\ \A x \in disk' : x = e \/ x \in disk
  BY <1>1, AppendFacts, AppendFailsFacts DEF IInv
<1>3. faults' \in Nat /\ faults' >= faults
  BY DEF IInv, Typed, AppendFails, Fault
<1>4. Lossless' => Lossless
  BY <1>1, <1>3, LosslessBefore DEF IInv
<1>5. Lossless' => Filed(q)' /\ \A s \in Reqs : Filed(s) => Filed(s)'
  BY <1>1, FiledAppend DEF Lossless
<1>6. \A i \in DOMAIN log' : (\E j \in DOMAIN log : log'[i] = log[j]) \/ Stamped(log[i])'
  BY <1>2 DEF Stamped
<1>7. \A x \in disk' : x \in disk \/ Stamped(x)'
  BY <1>2
<1>8. \A f \in Flushes : At(f, "store")' => At(f, "store") /\ proc'[f].read = proc[f].read
  BY <1>1 DEF At, Procs
<1>9. \A s \in Reqs \ {q} : proc'[s] = proc[s]
  BY <1>1 DEF Procs
<1> QED BY <1>1, <1>4, <1>5, <1>6, <1>7, <1>8, <1>9, RequestRetry

LEMMA EndFields ==
  ASSUME NEW p \in Procs, NEW acked
  PROVE  /\ End(p, acked).hash = proc[p].hash /\ End(p, acked).snap = proc[p].snap
         /\ End(p, acked).created = proc[p].created /\ End(p, acked).seen = proc[p].seen
         /\ End(p, acked).acked = acked /\ End(p, acked).pc = "done"
BY DEF End, Idle

\* A request that ends.
LEMMA EndOnward ==
  ASSUME IInv, RetryInv, NEW q \in Reqs, NEW acked, acked \in BOOLEAN, proc'[q] = End(q, acked),
         ~At(q, "idle"), ~At(q, "done"), now' = now
  PROVE  /\ Onward(q) /\ Logging(q)'
         /\ proc'[q].hash = proc[q].hash /\ proc'[q].created = proc[q].created
         /\ Claims(q)' => acked
         /\ Past(q)' => Past(q) \/ At(q, "lookup")
<1>1. /\ proc'[q].pc = "done" /\ proc'[q].hash = proc[q].hash /\ proc'[q].snap = proc[q].snap
      /\ proc'[q].created = proc[q].created /\ proc'[q].seen = proc[q].seen /\ proc'[q].acked = acked
  BY EndFields, RequestAt
<1>2. \A pc : At(q, pc)' <=> pc = "done"
  BY <1>1 DEF At
<1>3. proc[q].created \in Nat /\ now \in Nat /\ proc[q].created <= now
  BY RequestAt DEF Local, IInv, Typed, RetryInv
<1>4. proc'[q].created >= proc[q].created /\ proc'[q].created <= now'
  BY <1>1, <1>3
<1>5. Logging(q)'
  BY <1>2 DEF Logging
<1>6. Onward(q)
  BY <1>1, <1>2, <1>4, <1>5 DEF Onward
<1>7. Claims(q)' => acked
  BY <1>1, <1>2 DEF Claims, Counting
<1>8. Past(q)' => Past(q) \/ At(q, "lookup")
  BY <1>1, <1>2 DEF Past
<1> QED BY <1>1, <1>5, <1>6, <1>7, <1>8

\* An event given up by its request.
LEMMA EndSpent ==
  ASSUME IInv, NEW q \in Reqs, At(q, "lookup"), Moves(q, End(q, FALSE))
  PROVE  Spent(q)'
<1>1. q \in Procs /\ proc \in [Procs -> Local]
  BY RequestAt
<1>2. End(q, FALSE) \in Local /\ End(q, FALSE).pc = "done"
  BY <1>1, EndTyped
<1>3. proc'[q].pc = "done"
  BY <1>1, <1>2 DEF Moves
<1>4. Carries(q)' = {}
  BY <1>1, <1>3, OverTrue
<1>5. q \in Carries(q)
  BY DEF Carries
<1> QED BY <1>1, <1>2, <1>4, <1>5, LetGo

LEMMA DroppedRetry ==
  ASSUME IInv, RetryInv, NEW q \in Reqs, Dropped(q)
  PROVE  RetryInv'
<1>1. q \in Procs /\ proc \in [Procs -> Local] /\ faults \in Nat /\ Kept
  BY RequestAt, DroppedSteps DEF IInv, Typed
<1>2. Moves(q, End(q, FALSE)) /\ UNCHANGED <<log, disk>> /\ faults' = faults + 1
  BY DEF Dropped, Fault, Moves, bounds
<1>3. ~At(q, "idle") /\ ~At(q, "done")
  BY DEF Dropped, At, Ended
<1>4. proc'[q] = End(q, FALSE) /\ now' = now /\ faults' \in Nat /\ faults' >= faults
  BY <1>1, <1>2 DEF Moves
<1>5. FALSE \in BOOLEAN
  BY Zenon
<1>6. Onward(q) /\ (Claims(q)' => FALSE) /\ (Past(q)' => Past(q) \/ At(q, "lookup"))
  BY <1>3, <1>4, <1>5, EndOnward
<1>7. At(q, "lookup") => Spent(q)'
  BY <1>2, EndSpent
<1> QED BY <1>1, <1>2, <1>4, <1>6, <1>7, RequestQuiet

LEMMA WebhookRetry ==
  ASSUME IInv, RetryInv, NEW q \in Reqs, \E b \in Bytes : webhook(q, b)
  PROVE  RetryInv'
<1>1. Kept
  BY WebhookSteps
<1>2. PICK b \in Bytes : webhook(q, b)
  OBVIOUS
<1>3. q \in Procs /\ proc \in [Procs -> Local] /\ proc[q] = Idle /\ At(q, "idle")
  BY <1>2, RequestAt DEF RequestTrue, webhook
<1> DEFINE seen == {r \in Reqs : proc[r].acked /\ proc[r].hash = b}
           l == [proc[q] EXCEPT !.pc = "lookup", !.hash = b, !.payload = Canonical[b],
                                !.snap = trigger, !.ids = <<q>>, !.seen = seen]
<1>4. Moves(q, l) /\ UNCHANGED <<log, disk, faults>>
  BY <1>2 DEF webhook, Moves, bounds
<1>5. l.pc = "lookup" /\ l.hash = b /\ l.seen = seen /\ l.created = 0 /\ l.acked = FALSE
  BY <1>3 DEF Idle
<1>6. \A r \in seen : proc[r].acked /\ proc[r].hash = b
  OBVIOUS
<1> HIDE DEF l, seen
<1>7. proc'[q] = l /\ now' = now
  BY <1>3, <1>4 DEF Moves
<1>8. \A pc : At(q, pc)' <=> pc = "lookup"
  BY <1>5, <1>7 DEF At
<1>9. \A pc : At(q, pc) <=> pc = "idle"
  BY <1>3 DEF At
<1>10. proc[q].created = 0 /\ now \in Nat /\ faults \in Nat
  BY <1>3 DEF Idle, IInv, Typed
<1>11. proc'[q].created >= proc[q].created /\ proc'[q].created <= now'
  BY <1>5, <1>7, <1>10
<1>12. Onward(q)
  BY <1>5, <1>6, <1>7, <1>8, <1>9, <1>11 DEF Onward, Logging, Counting
<1>13. ~Claims(q)' /\ ~Past(q)'
  BY <1>5, <1>7, <1>8 DEF Claims, Counting, Past
<1>14. faults' \in Nat /\ faults' >= faults
  BY <1>4, <1>10
<1> QED BY <1>1, <1>4, <1>12, <1>13, <1>14, RequestQuiet

LEMMA ReplayRetry ==
  ASSUME IInv, RetryInv, NEW q \in Reqs, \E i \in DOMAIN log : replay_event(q, i)
  PROVE  RetryInv'
<1>1. Kept
  BY ReplaySteps
<1>2. PICK i \in DOMAIN log : replay_event(q, i)
  OBVIOUS
<1>3. q \in Procs /\ proc \in [Procs -> Local] /\ proc[q] = Idle /\ At(q, "idle")
  BY <1>2, RequestAt DEF RequestTrue, replay_event
<1> DEFINE l == [proc[q] EXCEPT !.pc = "execute", !.hash = log[i].payload, !.payload = log[i].payload,
                                !.snap = trigger, !.ids = <<q>>, !.of = log[i].id]
<1>4. Moves(q, l) /\ UNCHANGED <<log, disk, faults>>
  BY <1>2 DEF replay_event, Moves, bounds
<1>5. l.pc = "execute" /\ l.seen = {} /\ l.created = 0 /\ l.acked = FALSE
  BY <1>3 DEF Idle
<1> HIDE DEF l
<1>6. proc'[q] = l /\ now' = now
  BY <1>3, <1>4 DEF Moves
<1>7. \A pc : At(q, pc)' <=> pc = "execute"
  BY <1>5, <1>6 DEF At
<1>8. \A pc : At(q, pc) <=> pc = "idle"
  BY <1>3 DEF At
<1>9. proc[q].created = 0 /\ now \in Nat /\ faults \in Nat
  BY <1>3 DEF Idle, IInv, Typed
<1>10. proc'[q].created >= proc[q].created /\ proc'[q].created <= now'
  BY <1>5, <1>6, <1>9
<1>11. Onward(q)
  BY <1>5, <1>6, <1>7, <1>8, <1>10 DEF Onward, Logging, Counting
<1>12. ~Claims(q)' /\ Heeded(q)'
  BY <1>5, <1>6, <1>7 DEF Claims, Counting, Heeded
<1>13. faults' \in Nat /\ faults' >= faults
  BY <1>4, <1>9
<1> QED BY <1>1, <1>4, <1>11, <1>12, <1>13, RequestQuiet

\* The lookup finds an acknowledged delivery of the same bytes unless it is spent or
\* out of the window.
LEMMA LookupHeeds ==
  ASSUME IInv, RetryInv, Lossless, NEW q \in Reqs, ~At(q, "idle"), proc[q].snap.repeat,
         Repeatable(q) = {}, NEW r \in proc[q].seen, r \in Reqs
  PROVE  Spent(r) \/ proc[r].created + Window < now
<1>1. proc[r].acked /\ proc[r].hash = proc[q].hash
  BY DEF RetryInv
<1>2. Filed(r)
  BY <1>1 DEF RetryInv, Claims
<1> SUFFICES ASSUME ~Spent(r) PROVE proc[r].created + Window < now
  OBVIOUS
<1>3. PICK i \in DOMAIN log :
        log[i].id = r /\ log[i].status \in {"pending", "executed", "coalesced"}
  BY <1>2 DEF Filed
<1>4. log[i].hash = proc[q].hash /\ log[i].created = proc[r].created
  BY <1>1, <1>3 DEF RetryInv, Stamps, Stamped
<1>5. ~(log[i].created + Window >= now)
  BY <1>3, <1>4 DEF Repeatable
<1>6. proc[r].created \in Nat /\ now \in Nat
  BY RequestAt DEF Local, IInv, Typed
<1> QED BY <1>4, <1>5, <1>6

LEMMA RepeatRetry ==
  ASSUME IInv, RetryInv, NEW q \in Reqs, repeat_of(q)
  PROVE  RetryInv'
<1>0. Kept
  BY RepeatSteps
<1>1. q \in Procs /\ proc \in [Procs -> Local] /\ proc[q] \in Local /\ At(q, "lookup")
  BY RequestAt DEF repeat_of
<1>2. PICK l : /\ Moves(q, l) /\ UNCHANGED <<log, disk, faults>>
               /\ l.created = now /\ l.hash = proc[q].hash /\ l.seen = proc[q].seen
               /\ l.snap = proc[q].snap /\ l.acked = proc[q].acked
               /\ \/ l.pc = "duplicate"
                  \/ Repeatable(q) = {} /\ l.pc = "buffer"
                  \/ Repeatable(q) = {} /\ l.pc = "bump" /\ l.next = "execute"
  <2>1. CASE Repeatable(q) # {}
    <3> DEFINE latest == {i \in Repeatable(q) :
                            \A j \in Repeatable(q) : log[j].created <= log[i].created}
               k == CHOOSE i \in latest : \A j \in latest : j <= i
               m == [proc[q] EXCEPT !.pc = "duplicate", !.created = now, !.of = log[k].id,
                                    !.run = log[k].run]
    <3>1. Moves(q, m) /\ UNCHANGED <<log, disk, faults>>
      BY <1>1, <2>1 DEF repeat_of, Moves, bounds
    <3> HIDE DEF k
    <3>2. /\ m.created = now /\ m.hash = proc[q].hash /\ m.seen = proc[q].seen
          /\ m.snap = proc[q].snap /\ m.acked = proc[q].acked /\ m.pc = "duplicate"
      BY <1>1 DEF Local
    <3> HIDE DEF m
    <3> QED BY <3>1, <3>2
  <2>2. CASE Repeatable(q) = {}
    <3> DEFINE pc == IF proc[q].snap.debounce THEN "buffer" ELSE "bump"
               m == [proc[q] EXCEPT !.pc = pc, !.next = "execute", !.created = now]
    <3>1. Moves(q, m) /\ UNCHANGED <<log, disk, faults>>
      BY <1>1, <2>2 DEF repeat_of, Moves, bounds
    <3>2. pc \in {"buffer", "bump"}
      OBVIOUS
    <3> HIDE DEF pc
    <3>3. /\ m.created = now /\ m.hash = proc[q].hash /\ m.seen = proc[q].seen
          /\ m.snap = proc[q].snap /\ m.acked = proc[q].acked /\ m.pc = pc /\ m.next = "execute"
      BY <1>1 DEF Local
    <3> HIDE DEF m
    <3> QED BY <2>2, <3>1, <3>2, <3>3
  <2> QED BY <2>1, <2>2
<1>3. proc'[q] = l /\ now' = now
  BY <1>1, <1>2 DEF Moves
<1>4. l.pc \in {"duplicate", "buffer", "bump"} /\ \A pc : At(q, pc)' <=> pc = l.pc
  BY <1>2, <1>3 DEF At
<1>5. \A pc : At(q, pc) <=> pc = "lookup"
  BY <1>1 DEF At
<1>6. ~proc[q].acked
  BY <1>5 DEF RetryInv
<1>7. proc[q].created \in Nat /\ now \in Nat /\ proc[q].created <= now /\ faults \in Nat
  BY <1>1 DEF Local, IInv, Typed, RetryInv
<1>8. proc'[q].created >= proc[q].created /\ proc'[q].created <= now'
  BY <1>2, <1>3, <1>7
<1>9. Onward(q)
  BY <1>2, <1>3, <1>4, <1>5, <1>6, <1>8 DEF Onward, Logging, Counting
<1>10. ~Claims(q)'
  BY <1>2, <1>3, <1>4, <1>6 DEF Claims, Counting
<1>11. ASSUME Lossless', Past(q)' PROVE Spent(q)' \/ Heeded(q)'
  <2>1. CASE l.pc = "duplicate"
    BY <1>0, <1>3, <2>1 DEF Kept, IInv, Truth, RequestTrue, At
  <2>2. CASE Repeatable(q) = {}
    <3>1. proc[q].snap.repeat
      BY <1>2, <1>3, <1>11 DEF Past
    <3>2. Lossless
      BY <1>2, <1>11 DEF Lossless, Moves
    <3>3. proc[q].seen \subseteq Reqs
      BY <1>1 DEF Local
    <3>4. \A r \in proc[q].seen : proc'[r].created = proc[r].created
      <4> SUFFICES ASSUME NEW r \in proc[q].seen PROVE proc'[r].created = proc[r].created
        OBVIOUS
      <4>1. r \in Procs /\ At(r, "done")
        BY <3>3 DEF RetryInv, Procs
      <4>2. r # q
        BY <1>5, <4>1
      <4> QED BY <1>1, <1>2, <4>1, <4>2 DEF Moves
    <3>5. \A r \in proc[q].seen : Spent(r)' \/ proc[r].created + Window < now
      <4>1. \A r \in proc[q].seen : Spent(r) \/ proc[r].created + Window < now
        BY <1>5, <2>2, <3>1, <3>2, <3>3, LookupHeeds
      <4> QED BY <1>0, <3>3, <4>1 DEF Kept
    <3>6. Heeded(q)'
      BY <1>2, <1>3, <3>4, <3>5 DEF Heeded
    <3> QED BY <3>6
  <2> QED BY <1>2, <2>1, <2>2
<1>12. faults' \in Nat /\ faults' >= faults
  BY <1>2, <1>7
<1> QED BY <1>0, <1>2, <1>9, <1>10, <1>11, <1>12, RequestQuiet

LEMMA LogRetry ==
  ASSUME IInv, RetryInv, NEW q \in Reqs, LogDuplicate(q) \/ LogPending(q) \/ LogOutcome(q)
  PROVE  RetryInv'
<1>1. Kept
  BY LogSteps
<1>2. q \in Procs /\ proc \in [Procs -> Local] /\ proc[q] \in Local /\ RequestTrue(q)
  BY RequestAt
<1>3. ASSUME NEW status \in {"pending", "executed", "failed", "duplicate"}, NEW l, Moves(q, l),
             ~At(q, "idle"), ~At(q, "done"), ~At(q, "lookup"),
             \/ append_trigger_event(Event(q, status)) /\ faults' = faults
             \/ AppendFails(Event(q, status)),
             Onward(q), Logging(q)', proc'[q].hash = proc[q].hash,
             proc'[q].created = proc[q].created, Past(q)' => Past(q)
      PROVE  RetryInv'
  <2>1. PICK e \in EventRecord : e = Event(q, status)
    BY <1>3, EventTyped
  <2>2. e.id = q /\ e.hash = proc[q].hash /\ e.created = proc[q].created
    BY <1>3, <2>1, EventTyped
  <2>3. Stamped(e)'
    BY <1>3, <2>2 DEF Stamped
  <2> QED BY <1>1, <1>3, <2>1, <2>2, <2>3, RequestLogs
<1>4. ASSUME NEW acked, acked \in BOOLEAN, Moves(q, End(q, acked)), ~At(q, "idle"), ~At(q, "done"),
             ~At(q, "lookup")
      PROVE  /\ Onward(q) /\ Logging(q)' /\ proc'[q].hash = proc[q].hash
             /\ proc'[q].created = proc[q].created /\ (Past(q)' => Past(q))
  <2>1. proc'[q] = End(q, acked) /\ now' = now
    BY <1>2, <1>4 DEF Moves
  <2> QED BY <1>4, <2>1, EndOnward
<1>5. ASSUME NEW l, Moves(q, l), ~At(q, "idle"), ~At(q, "done"), ~At(q, "lookup"), ~At(q, "push"),
             ~Counting(q, "done"),
             l.pc = "push" \/ (l.pc = "bump" /\ l.next = "done"),
             l.hash = proc[q].hash, l.created = proc[q].created, l.seen = proc[q].seen,
             l.snap = proc[q].snap, l.acked = proc[q].acked
      PROVE  /\ Onward(q) /\ Logging(q)' /\ proc'[q].hash = proc[q].hash
             /\ proc'[q].created = proc[q].created /\ (Past(q)' => Past(q))
  <2>1. proc'[q] = l /\ now' = now
    BY <1>2, <1>5 DEF Moves
  <2>2. \A pc : At(q, pc)' <=> pc = l.pc
    BY <2>1 DEF At
  <2>3. Logging(q)' /\ ~At(q, "idle")'
    BY <1>5, <2>1, <2>2 DEF Logging, Counting
  <2>4. ~proc[q].acked
    BY <1>5 DEF RetryInv
  <2>5. proc[q].created \in Nat /\ now \in Nat /\ proc[q].created <= now
    BY <1>2 DEF Local, IInv, Typed, RetryInv
  <2>6. proc'[q].created >= proc[q].created /\ proc'[q].created <= now'
    BY <1>5, <2>1, <2>5
  <2>7. Onward(q)
    BY <1>5, <2>1, <2>3, <2>4, <2>6 DEF Onward
  <2>8. Past(q)' => Past(q)
    BY <1>5, <2>1 DEF Past
  <2> QED BY <1>5, <2>1, <2>3, <2>7, <2>8
<1>6. FALSE \in BOOLEAN
  BY Zenon
<1> DEFINE bump == [proc[q] EXCEPT !.pc = "bump", !.next = "done"]
           push == [proc[q] EXCEPT !.pc = "push"]
<1>7. /\ bump.pc = "bump" /\ bump.next = "done" /\ bump.hash = proc[q].hash
      /\ bump.created = proc[q].created /\ bump.seen = proc[q].seen /\ bump.snap = proc[q].snap
      /\ bump.acked = proc[q].acked
  BY <1>2 DEF Local
<1>8. /\ push.pc = "push" /\ push.hash = proc[q].hash /\ push.created = proc[q].created
      /\ push.seen = proc[q].seen /\ push.snap = proc[q].snap /\ push.acked = proc[q].acked
  BY <1>2 DEF Local
<1>9. CASE LogDuplicate(q)
  <2>1. /\ ~At(q, "idle") /\ ~At(q, "done") /\ ~At(q, "lookup") /\ ~At(q, "push")
        /\ ~Counting(q, "done")
    BY <1>9 DEF LogDuplicate, At, Counting
  <2>2. \/ append_trigger_event(Event(q, "duplicate")) /\ faults' = faults /\ Moves(q, bump)
        \/ AppendFails(Event(q, "duplicate")) /\ Moves(q, End(q, FALSE))
    BY <1>9 DEF LogDuplicate, Moves, bounds
  <2> HIDE DEF bump
  <2> QED BY <1>3, <1>4, <1>5, <1>6, <1>7, <2>1, <2>2
<1>10. CASE LogPending(q)
  <2>1. /\ ~At(q, "idle") /\ ~At(q, "done") /\ ~At(q, "lookup") /\ ~At(q, "push")
        /\ ~Counting(q, "done")
    BY <1>10 DEF LogPending, At, Counting
  <2>2. \/ append_trigger_event(Event(q, "pending")) /\ faults' = faults /\ Moves(q, push)
        \/ AppendFails(Event(q, "pending")) /\ Moves(q, End(q, FALSE))
    BY <1>10 DEF LogPending, Moves, bounds, Goto
  <2> HIDE DEF push
  <2> QED BY <1>3, <1>4, <1>5, <1>6, <1>8, <2>1, <2>2
<1>11. CASE LogOutcome(q)
  <2>1. ~At(q, "idle") /\ ~At(q, "done") /\ ~At(q, "lookup") /\ At(q, "log")
    BY <1>11 DEF LogOutcome, At
  <2>2. PICK status : status = proc[q].status
    OBVIOUS
  <2>3. status \in {"executed", "failed"}
    BY <1>2, <2>1, <2>2 DEF RequestTrue, Settling
  <2>4. PICK acked : acked = (Event(q, proc[q].status).status = "executed")
    OBVIOUS
  <2>5. acked \in BOOLEAN
    BY <2>4
  <2>6. \/ append_trigger_event(Event(q, status)) /\ faults' = faults /\ Moves(q, End(q, acked))
        \/ AppendFails(Event(q, status)) /\ Moves(q, End(q, FALSE))
    BY <1>11, <2>2, <2>4 DEF LogOutcome, Moves, bounds
  <2> QED BY <1>3, <1>4, <1>6, <2>1, <2>3, <2>5, <2>6
<1> QED BY <1>9, <1>10, <1>11

LEMMA PushRetry ==
  ASSUME IInv, RetryInv, NEW q \in Reqs, Push(q)
  PROVE  RetryInv'
<1>1. Kept
  BY PushSteps
<1>2. q \in Procs /\ q \notin Flushes /\ proc \in [Procs -> Local] /\ proc[q] \in Local /\ At(q, "push")
  BY RequestAt DEF Push
<1>3. UNCHANGED <<log, disk, now, faults, restarts, deletes>>
  BY DEF Push, bounds
<1> DEFINE l == [proc[q] EXCEPT !.pc = "bump", !.next = "done"]
           bumping == [proc EXCEPT ![q] = l]
           pushed == [ids |-> Append(Burst.ids, q), generation |-> Burst.generation + 1]
<1>4. /\ l.pc = "bump" /\ l.next = "done" /\ l.hash = proc[q].hash /\ l.created = proc[q].created
      /\ l.seen = proc[q].seen /\ l.snap = proc[q].snap /\ l.acked = proc[q].acked
  BY <1>2 DEF Local
<1>5. bumping \in [Procs -> Local] /\ bumping[q] = l /\ \A s \in Procs \ {q} : bumping[s] = proc[s]
  <2>1. l \in Local
    BY <1>2 DEF Local, RequestStages
  <2> HIDE DEF l
  <2> QED BY <1>2, <2>1
<1>6. pushed.ids \in Seq(Reqs) /\ pushed.ids # <<>>
  <2>1. PICK s \in Seq(Reqs) : s = Burst.ids
    BY BurstFacts DEF IInv
  <2>2. Append(s, q) \in Seq(Reqs) /\ Append(s, q) # <<>>
    OBVIOUS
  <2> QED BY <2>1, <2>2
<1>7. proc' = Spawned(bumping, pushed) \/ proc' = bumping
  <2>1. bumping = [proc EXCEPT ![q].pc = "bump", ![q].next = "done"]
    BY <1>2
  <2> QED BY <2>1 DEF Push
<1> HIDE DEF l, bumping, pushed
<1>8. PICK f : f = <<Head(pushed.ids)>>
  OBVIOUS
<1>9. /\ f \in Flushes
      /\ \A s \in Procs \ {f} : proc'[s] = bumping[s]
      /\ proc'[f] = bumping[f] \/ proc'[f].pc = "reload"
  BY <1>5, <1>6, <1>7, <1>8, SpawnedFacts
<1>10. proc'[q] = l /\ \A s \in Reqs \ {q} : proc'[s] = proc[s]
  BY <1>2, <1>5, <1>9 DEF Procs
<1>11. \A g \in Flushes : At(g, "store")' => At(g, "store") /\ proc'[g].read = proc[g].read
  BY <1>2, <1>5, <1>9 DEF At, Procs
<1>12. \A pc : At(q, pc)' <=> pc = "bump"
  BY <1>4, <1>10 DEF At
<1>13. ~proc[q].acked
  BY <1>2 DEF RetryInv, At
<1>14. proc[q].created \in Nat /\ now \in Nat /\ proc[q].created <= now
  BY <1>2 DEF Local, IInv, Typed, RetryInv
<1>15. proc'[q].created >= proc[q].created /\ proc'[q].created <= now'
  BY <1>3, <1>4, <1>10, <1>14
<1>16. ~At(q, "idle") /\ ~At(q, "done") /\ ~At(q, "lookup") /\ Claims(q)
  BY <1>2 DEF At, Claims
<1>17. Onward(q)
  BY <1>4, <1>10, <1>12, <1>13, <1>15, <1>16 DEF Onward, Logging, Counting
<1>18. Past(q)' => Past(q)
  BY <1>4, <1>10, <1>16 DEF Past
<1>19. Lossless' => Lossless
  BY <1>3 DEF Lossless
<1> QED BY <1>1, <1>3, <1>10, <1>11, <1>16, <1>17, <1>18, <1>19, FiledSame, RequestRetry

\* A request on its way, which keeps its hash, trigger and deliveries.
LEMMA WayRetry ==
  ASSUME IInv, RetryInv, Kept, NEW q \in Reqs, NEW l, Moves(q, l), UNCHANGED <<log, disk>>,
         faults' \in Nat, faults' >= faults,
         ~At(q, "idle"), ~At(q, "done"), ~At(q, "lookup"), l.pc # "idle",
         l.hash = proc[q].hash, l.seen = proc[q].seen, l.snap = proc[q].snap,
         l.acked = proc[q].acked, l.created = proc[q].created \/ (l.created = now /\ ~Logging(q)),
         Logging(q) => Logging(q)',
         Claims(q)' => Claims(q)
  PROVE  RetryInv'
<1>1. q \in Procs /\ proc \in [Procs -> Local] /\ proc[q] \in Local
  BY RequestAt
<1>2. proc'[q] = l /\ now' = now
  BY <1>1 DEF Moves
<1>3. ~proc[q].acked
  BY DEF RetryInv
<1>4. proc[q].created \in Nat /\ now \in Nat /\ proc[q].created <= now
  BY <1>1 DEF Local, IInv, Typed, RetryInv
<1>5. proc'[q].created >= proc[q].created /\ proc'[q].created <= now'
  BY <1>2, <1>4
<1>6. ~At(q, "idle")'
  BY <1>2 DEF At
<1>7. Onward(q)
  BY <1>2, <1>3, <1>5, <1>6 DEF Onward
<1>8. Past(q)' => Past(q)
  BY <1>2 DEF Past
<1> QED BY <1>7, <1>8, RequestQuiet

\* A flush task on its way.
LEMMA TaskRetry ==
  ASSUME IInv, RetryInv, Kept, NEW f \in Flushes, NEW l, Moves(f, l), UNCHANGED <<log, disk>>,
         faults' \in Nat, faults' >= faults,
         l.pc = "store" => \E j \in DOMAIN log : l.read = log[j]
  PROVE  RetryInv'
<1>1. f \in Procs /\ f \notin Reqs /\ proc \in [Procs -> Local]
  BY FlushAt
<1>2. proc'[f] = l /\ (\A s \in Procs \ {f} : proc'[s] = proc[s]) /\ \A q \in Reqs : proc'[q] = proc[q]
  BY <1>1 DEF Moves, Procs
<1>3. \A g \in Flushes : At(g, "store")' =>
        \/ At(g, "store") /\ proc'[g].read = proc[g].read
        \/ \E j \in DOMAIN log : proc'[g].read = log[j]
  BY <1>2 DEF At, Procs
<1>4. /\ now' = now /\ restarts' = restarts /\ deletes' = deletes
      /\ now \in Nat /\ restarts \in Nat /\ deletes \in Nat
  BY DEF Moves, IInv, Typed
<1>5. Lossless' => Lossless
  BY <1>4, LosslessBefore DEF IInv
<1> QED BY <1>2, <1>3, <1>4, <1>5, FiledSame, OthersRetry

LEMMA ExecuteRetry ==
  ASSUME IInv, RetryInv, NEW p \in Procs, execute_action(p)
  PROVE  RetryInv'
<1>1. Kept
  BY ExecuteSteps
<1>2. proc \in [Procs -> Local] /\ proc[p] \in Local /\ At(p, "execute") /\ faults \in Nat
  BY DEF IInv, Typed, execute_action
<1>3. PICK l : /\ proc' = [proc EXCEPT ![p] = l]
               /\ l.hash = proc[p].hash /\ l.seen = proc[p].seen /\ l.snap = proc[p].snap
               /\ l.acked = proc[p].acked /\ l.created = now
               /\ p \in Flushes => l.pc = "fetch"
               /\ p \in Reqs => l.pc = "log" \/ (l.pc = "bump" /\ l.next = "log")
  <2> DEFINE started == [proc[p] EXCEPT !.created = now]
             done == IF p \in Flushes THEN "coalesced" ELSE "executed"
  <2>1. Failing(p) = [started EXCEPT !.status = "failed", !.pc = IF p \in Flushes THEN "fetch" ELSE "log"]
    BY <1>2 DEF Failing, Local
  <2>2. Running(p) = [started EXCEPT !.status = done, !.run = p,
                                     !.pc = IF p \in Flushes THEN "fetch" ELSE "bump",
                                     !.next = IF p \in Flushes THEN "done" ELSE "log"]
    BY <1>2 DEF Running, Local
  <2>3. proc' = [proc EXCEPT ![p] = Failing(p)] \/ proc' = [proc EXCEPT ![p] = Running(p)]
    BY <2>1, <2>2 DEF execute_action
  <2>4. /\ Failing(p).hash = proc[p].hash /\ Failing(p).seen = proc[p].seen
        /\ Failing(p).snap = proc[p].snap /\ Failing(p).acked = proc[p].acked
        /\ Failing(p).created = now
        /\ Failing(p).pc = IF p \in Flushes THEN "fetch" ELSE "log"
    BY <1>2 DEF Failing, Local
  <2>5. /\ Running(p).hash = proc[p].hash /\ Running(p).seen = proc[p].seen
        /\ Running(p).snap = proc[p].snap /\ Running(p).acked = proc[p].acked
        /\ Running(p).created = now
        /\ Running(p).pc = IF p \in Flushes THEN "fetch" ELSE "bump"
        /\ Running(p).next = IF p \in Flushes THEN "done" ELSE "log"
    BY <1>2 DEF Running, Local
  <2>6. p \in Reqs => p \notin Flushes
    OBVIOUS
  <2> QED BY <2>3, <2>4, <2>5, <2>6
<1>4. /\ UNCHANGED <<log, disk, buffer, timers, admin, now, restarts, updates, deletes>>
      /\ faults' \in Nat /\ faults' >= faults
  BY <1>2 DEF execute_action, bounds, Fault
<1>5. Lossless' => Lossless
  <2>1. restarts' \in Nat /\ restarts' >= restarts /\ deletes' \in Nat /\ deletes' >= deletes
    BY <1>4 DEF IInv, Typed
  <2> QED BY <1>4, <2>1, LosslessBefore DEF IInv
<1>6. proc'[p] = l /\ \A s \in Procs \ {p} : proc'[s] = proc[s]
  BY <1>2, <1>3
<1>7. now \in Nat /\ now' \in Nat /\ now' >= now
  BY <1>4 DEF IInv, Typed
<1>8. \A f \in Flushes : At(f, "store")' => At(f, "store") /\ proc'[f].read = proc[f].read
  BY <1>3, <1>6 DEF At, Procs
<1>9. CASE p \in Flushes
  <2>1. \A q \in Reqs : proc'[q] = proc[q]
    BY <1>6, <1>9 DEF Procs
  <2> QED BY <1>1, <1>4, <1>5, <1>7, <1>8, <2>1, FiledSame, OthersRetry
<1>10. CASE p \in Reqs
  <2>1. \A pc : At(p, pc) <=> pc = "execute"
    BY <1>2 DEF At
  <2>2. ~proc[p].acked /\ proc[p].created \in Nat /\ proc[p].created <= now
    BY <1>2, <1>10, <2>1 DEF RetryInv, Local
  <2>3. l.pc \in {"log", "bump"} /\ \A pc : At(p, pc)' <=> pc = l.pc
    BY <1>3, <1>6, <1>10 DEF At
  <2>4. proc'[p].created >= proc[p].created /\ proc'[p].created <= now'
    BY <1>3, <1>4, <1>6, <1>7, <2>2
  <2>5. Onward(p)
    BY <1>3, <1>6, <2>1, <2>2, <2>3, <2>4 DEF Onward, Logging, Counting
  <2>6. ~Claims(p)'
    BY <1>3, <1>6, <1>10, <2>2, <2>3 DEF Claims, Counting
  <2>7. Past(p)' => Past(p)
    BY <1>3, <1>6, <2>1 DEF Past
  <2>8. \A s \in Reqs \ {p} : proc'[s] = proc[s]
    BY <1>6 DEF Procs
  <2> QED BY <1>1, <1>4, <1>5, <1>8, <1>10, <2>5, <2>6, <2>7, <2>8, FiledSame, RequestRetry
<1> QED BY <1>9, <1>10 DEF Procs

LEMMA BumpRetry ==
  ASSUME IInv, RetryInv, NEW p \in Procs, BumpRead(p) \/ BumpWrite(p)
  PROVE  RetryInv'
<1>1. Kept
  BY BumpSteps
<1>2. proc \in [Procs -> Local] /\ proc[p] \in Local /\ faults \in Nat
  BY DEF IInv, Typed
<1>3. At(p, "bump") \/ At(p, "bumping")
  BY DEF BumpRead, BumpWrite
<1>4. ~At(p, "idle") /\ ~At(p, "done") /\ ~At(p, "lookup") /\ ~At(p, "push")
  BY <1>3 DEF At
<1> DEFINE l == [proc[p] EXCEPT !.pc = "bumping", !.read = trigger]
<1>5. Moves(p, l) \/ Moves(p, Bumped(p))
  BY DEF BumpRead, BumpWrite, Moves, bounds
<1>6. UNCHANGED <<log, disk>> /\ faults' \in Nat /\ faults' >= faults
  BY <1>2 DEF BumpRead, BumpWrite, Fault
<1>7. CASE Moves(p, l)
  <2>1. /\ l.pc = "bumping" /\ l.next = proc[p].next /\ l.hash = proc[p].hash
        /\ l.seen = proc[p].seen /\ l.snap = proc[p].snap /\ l.acked = proc[p].acked
        /\ l.created = proc[p].created
    BY <1>2 DEF Local
  <2> HIDE DEF l
  <2>2. CASE p \in Flushes
    BY <1>1, <1>6, <1>7, <2>1, <2>2, TaskRetry
  <2>3. CASE p \in Reqs
    <3>1. proc'[p] = l
      BY <1>2, <1>7 DEF Moves
    <3>2. \A pc : At(p, pc)' <=> pc = "bumping"
      BY <2>1, <3>1 DEF At
    <3>3. (Logging(p) => Logging(p)') /\ (Claims(p)' => Claims(p))
      BY <1>3, <1>4, <2>1, <3>1, <3>2 DEF Logging, Claims, Counting
    <3> QED BY <1>1, <1>4, <1>6, <1>7, <2>1, <2>3, <3>3, WayRetry
  <2> QED BY <2>2, <2>3 DEF Procs
<1>8. CASE Moves(p, Bumped(p)) /\ p \in Flushes
  <2>1. proc[p].next = "done"
    BY <1>3, <1>8, FlushAt DEF FlushTrue
  <2>2. Bumped(p) = End(p, p \in Reqs)
    BY <2>1 DEF Bumped
  <2>3. Bumped(p).pc = "done"
    BY <2>2, EndFields
  <2> QED BY <1>1, <1>6, <1>8, <2>3, TaskRetry
<1>9. CASE Moves(p, Bumped(p)) /\ p \in Reqs /\ proc[p].next = "done"
  <2>1. Bumped(p) = End(p, TRUE)
    BY <1>9 DEF Bumped
  <2>2. proc'[p] = End(p, TRUE) /\ now' = now
    BY <1>2, <1>9, <2>1 DEF Moves
  <2>3. TRUE \in BOOLEAN
    BY Zenon
  <2>4. Onward(p) /\ (Past(p)' => Past(p))
    BY <1>4, <1>9, <2>2, <2>3, EndOnward
  <2>5. Claims(p)
    BY <1>3, <1>9 DEF Claims, Counting
  <2> QED BY <1>1, <1>6, <1>9, <2>4, <2>5, RequestQuiet
<1>10. CASE Moves(p, Bumped(p)) /\ p \in Reqs /\ proc[p].next # "done"
  <2>1. Bumped(p) = [proc[p] EXCEPT !.pc = proc[p].next, !.read = None]
    BY <1>10 DEF Bumped
  <2>2. proc[p].next \in {"execute", "log"}
    BY <1>3, <1>10, RequestAt DEF RequestTrue
  <2>3. /\ Bumped(p).pc = proc[p].next /\ Bumped(p).hash = proc[p].hash
        /\ Bumped(p).seen = proc[p].seen /\ Bumped(p).snap = proc[p].snap
        /\ Bumped(p).acked = proc[p].acked /\ Bumped(p).created = proc[p].created
    BY <1>2, <2>1 DEF Local
  <2>4. proc'[p] = Bumped(p)
    BY <1>2, <1>10 DEF Moves
  <2>5. \A pc : At(p, pc)' <=> pc = proc[p].next
    BY <2>3, <2>4 DEF At
  <2>6. ~Logging(p) /\ ~proc[p].acked
    BY <1>4, <1>10 DEF Logging, Counting, RetryInv
  <2>7. ~Claims(p)'
    BY <2>2, <2>3, <2>4, <2>5, <2>6 DEF Claims, Counting
  <2>8. Bumped(p).pc # "idle"
    BY <2>2, <2>3
  <2> QED BY <1>1, <1>4, <1>6, <1>10, <2>3, <2>6, <2>7, <2>8, WayRetry
<1> QED BY <1>5, <1>7, <1>8, <1>9, <1>10 DEF Procs

LEMMA FlushRetry ==
  ASSUME IInv, RetryInv, NEW f \in Flushes, Flush(f)
  PROVE  RetryInv'
<1>1. Kept
  BY FlushBufferSteps, FetchSteps, StoreSteps DEF Flush
<1>2. /\ f \in Procs /\ f \notin Reqs /\ proc \in [Procs -> Local] /\ proc[f] \in Local
      /\ FlushTrue(f) /\ faults \in Nat
  BY FlushAt
<1>3. Advanced(f).pc # "store"
  <2>1. CASE Advanced(f) = End(f, FALSE)
    BY <1>2, <2>1, EndTyped
  <2>2. CASE Advanced(f) # End(f, FALSE)
    <3> DEFINE rest == Tail(proc[f].ids)
               pc == IF rest = <<>> THEN "bump" ELSE "fetch"
    <3>1. Advanced(f) = [proc[f] EXCEPT !.ids = rest, !.read = None, !.pc = pc]
      BY <2>2 DEF Advanced
    <3>2. pc # "store"
      OBVIOUS
    <3> HIDE DEF rest, pc
    <3>3. Advanced(f).pc = pc
      BY <1>2, <3>1 DEF Local
    <3> QED BY <3>2, <3>3
  <2> QED BY <2>1, <2>2
<1>4. CASE flush_buffer(f)
  <2>1. UNCHANGED <<log, disk>> /\ faults' \in Nat /\ faults' >= faults
    BY <1>2, <1>4 DEF flush_buffer
  <2> DEFINE l == [proc[f] EXCEPT !.pc = "execute"]
             m == [proc[f] EXCEPT !.pc = "fetch", !.status = "failed"]
  <2>2. Moves(f, l) \/ Moves(f, m)
    BY <1>4 DEF flush_buffer, Moves, bounds, Goto
  <2>3. l.pc # "store" /\ m.pc # "store"
    BY <1>2 DEF Local
  <2> HIDE DEF l, m
  <2> QED BY <1>1, <2>1, <2>2, <2>3, TaskRetry
<1>5. CASE FetchEvent(f)
  <2>1. UNCHANGED <<log, disk>> /\ faults' \in Nat /\ faults' >= faults
    BY <1>2, <1>5 DEF FetchEvent
  <2>2. CASE Logged(Head(proc[f].ids)) = {}
    <3>1. Moves(f, Advanced(f))
      BY <1>5, <2>2 DEF FetchEvent, Moves, bounds
    <3> QED BY <1>1, <1>3, <2>1, <3>1, TaskRetry
  <2>3. CASE Logged(Head(proc[f].ids)) # {}
    <3> DEFINE k == CHOOSE i \in Logged(Head(proc[f].ids)) : TRUE
               l == [proc[f] EXCEPT !.pc = "store", !.read = log[k]]
    <3>1. Moves(f, l)
      BY <1>5, <2>3 DEF FetchEvent, Moves, bounds
    <3>2. k \in DOMAIN log
      BY <2>3 DEF Logged
    <3> HIDE DEF k
    <3>3. l.read = log[k]
      BY <1>2 DEF Local
    <3> HIDE DEF l
    <3> QED BY <1>1, <2>1, <3>1, <3>2, <3>3, TaskRetry
  <2> QED BY <2>2, <2>3
<1>6. CASE StoreEvent(f)
  <2>1. At(f, "store") /\ Moves(f, Advanced(f))
    BY <1>6 DEF StoreEvent, Moves, bounds
  <2>2. proc[f].read \in EventRecord /\ proc[f].status \in {"coalesced", "failed"}
    BY <1>2, <2>1 DEF FlushTrue
  <2>3. PICK e : e = [proc[f].read EXCEPT !.status = proc[f].status, !.run = proc[f].run]
    OBVIOUS
  <2>4. proc[f].run \in Procs \cup {None}
    BY <1>2 DEF Local
  <2>5. /\ e \in EventRecord /\ e.id = proc[f].read.id /\ e.hash = proc[f].read.hash
        /\ e.created = proc[f].read.created
    BY <2>2, <2>3, <2>4 DEF EventRecord
  <2>6. (append_trigger_event(e) /\ faults' = faults) \/ AppendFails(e)
    BY <1>6, <2>3 DEF StoreEvent
  <2>7. /\ proc'[f] = Advanced(f) /\ (\A s \in Procs \ {f} : proc'[s] = proc[s])
        /\ \A q \in Reqs : proc'[q] = proc[q]
    BY <1>2, <2>1 DEF Moves, Procs
  <2>8. /\ now' = now /\ restarts' = restarts /\ deletes' = deletes
        /\ now \in Nat /\ restarts \in Nat /\ deletes \in Nat
    BY <2>1 DEF Moves, IInv, Typed
  <2>9. faults' \in Nat /\ faults' >= faults
    BY <1>2, <2>6 DEF AppendFails, Fault
  <2>10. Stamped(e)'
    <3>1. Stamped(e)
      BY <2>1, <2>5 DEF RetryInv, Stamps, Stamped
    <3>2. e.id \in Reqs
      BY <2>5 DEF EventRecord
    <3>3. Onward(e.id)
      BY <2>7, <2>8, <3>2, OnwardSame
    <3> QED BY <2>5, <3>1, <3>3, StampedStays
  <2>11. /\ \A i \in DOMAIN log' : log'[i] = e \/ \E j \in DOMAIN log : log'[i] = log[j]
         /\ \A x \in disk' : x = e \/ x \in disk
    BY <2>5, <2>6, <2>8, AppendFacts, AppendFailsFacts DEF IInv
  <2>12. /\ \A i \in DOMAIN log' : (\E j \in DOMAIN log : log'[i] = log[j]) \/ Stamped(log[i])'
         /\ \A x \in disk' : x \in disk \/ Stamped(x)'
    BY <2>10, <2>11 DEF Stamped
  <2>13. Lossless' => Lossless
    BY <2>8, <2>9, LosslessBefore DEF IInv
  <2>14. Lossless' => \A q \in Reqs : Filed(q) => Filed(q)'
    BY <1>1, <2>5, <2>6, <2>8, FiledAppend DEF Lossless
  <2>15. \A g \in Flushes : At(g, "store")' => At(g, "store") /\ proc'[g].read = proc[g].read
    BY <1>3, <2>7 DEF At, Procs
  <2> QED BY <1>1, <2>7, <2>8, <2>12, <2>13, <2>14, <2>15, OthersRetry
<1> QED BY <1>4, <1>5, <1>6 DEF Flush

LEMMA ArmRetry ==
  ASSUME IInv, RetryInv, NEW t \in timers, arm_flush(t)
  PROVE  RetryInv'
<1>1. Kept /\ proc \in [Procs -> Local]
  BY ArmSteps DEF IInv, Typed
<1>2. UNCHANGED <<log, disk, now, faults, restarts, deletes>> /\ now \in Nat
  BY DEF arm_flush, bounds, IInv, Typed
<1>3. proc' = proc \/ (buffer # None /\ proc' = Spawned(proc, buffer))
  BY DEF arm_flush
<1>4. /\ \A q \in Reqs : proc'[q] = proc[q]
      /\ \A g \in Flushes : At(g, "store")' => At(g, "store") /\ proc'[g].read = proc[g].read
  <2>1. CASE proc' = proc
    BY <2>1 DEF At
  <2>2. CASE buffer # None /\ proc' = Spawned(proc, buffer)
    <3>1. buffer.ids \in Seq(Reqs) /\ buffer.ids # <<>>
      BY <2>2, BurstFacts DEF IInv
    <3>2. PICK f : f = <<Head(buffer.ids)>>
      OBVIOUS
    <3>3. f \notin Reqs /\ proc'[f].pc = "reload" /\ \A s \in Procs \ {f} : proc'[s] = proc[s]
      BY <1>1, <2>2, <3>1, <3>2, SpawnedFacts
    <3> QED BY <3>3 DEF At, Procs
  <2> QED BY <1>3, <2>1, <2>2
<1>5. Lossless' => Lossless
  BY <1>2 DEF Lossless
<1>6. now' \in Nat /\ now' >= now
  BY <1>2
<1> QED BY <1>1, <1>2, <1>4, <1>5, <1>6, FiledSame, OthersRetry

LEMMA RegistryRetry ==
  ASSUME IInv, RetryInv, Registry \/ Tick \/ UNCHANGED vars
  PROVE  RetryInv'
<1>1. Kept
  <2>1. CASE Registry \/ Tick
    BY <2>1, RegistrySteps
  <2>2. CASE UNCHANGED vars
    BY <2>2, StepHolds
  <2> QED BY <2>1, <2>2
<1>2. /\ now \in Nat /\ restarts \in Nat /\ deletes \in Nat /\ faults \in Nat
      /\ now' \in Nat /\ restarts' \in Nat /\ deletes' \in Nat /\ faults' \in Nat
  BY <1>1 DEF Kept, IInv, Typed
<1>3. proc' = proc
  BY DEF Registry, Tick, vars, UpdateRead, UpdateWrite, DeleteRecord, DropBurst, create_trigger
<1>4. \/ UNCHANGED <<log, disk, faults, deletes, restarts>>
      \/ /\ log' = <<>> /\ disk' \in {disk, {}} /\ deletes' = deletes + 1
         /\ restarts' = restarts /\ faults' \in {faults, faults + 1}
  BY DEF Registry, Tick, vars, UpdateRead, UpdateWrite, DeleteRecord, DropBurst, create_trigger,
         bounds, Fault
<1>5. now' = now \/ now' = now + 1
  BY DEF Registry, Tick, vars, UpdateRead, UpdateWrite, DeleteRecord, DropBurst, create_trigger
<1>6. now' >= now /\ faults' >= faults /\ restarts' >= restarts /\ deletes' >= deletes
  BY <1>2, <1>4, <1>5
<1>7. Lossless' => Lossless
  BY <1>2, <1>6, LosslessBefore DEF IInv
<1>8. Lossless' => log' = log
  <2>1. deletes' = deletes + 1 => deletes' # 0
    BY <1>2
  <2> QED BY <1>4, <2>1 DEF Lossless
<1>9. Lossless' => \A q \in Reqs : Filed(q) => Filed(q)'
  BY <1>1, <1>8, FiledSame
<1>10. /\ \A i \in DOMAIN log' : \E j \in DOMAIN log : log'[i] = log[j]
       /\ \A x \in disk' : x \in disk
  <2>1. log' = <<>> => DOMAIN log' = {}
    OBVIOUS
  <2> QED BY <1>4, <2>1
<1>11. \A g \in Flushes : At(g, "store")' => At(g, "store") /\ proc'[g].read = proc[g].read
  BY <1>3 DEF At
<1> QED BY <1>1, <1>2, <1>3, <1>6, <1>7, <1>9, <1>10, <1>11, OthersRetry

\* A restart gives up what was under way; with no failed write the files are the log.
LEMMA RestartRetry ==
  ASSUME IInv, RetryInv, Restart
  PROVE  RetryInv'
<1>1. Kept /\ proc \in [Procs -> Local] /\ now \in Nat /\ restarts \in Nat /\ deletes \in Nat
      /\ faults \in Nat /\ IsFiniteSet(disk)
  BY RestartSteps DEF IInv, Typed
<1>2. /\ UNCHANGED <<disk, runs, now, faults, deletes>> /\ restarts' = restarts + 1
      /\ buffer' = None /\ log' \in SetToSeqs(disk)
      /\ proc' = [p \in Procs |-> IF proc[p].pc \in Ended THEN proc[p] ELSE End(p, FALSE)]
  BY DEF Restart
<1>3. /\ \A i \in DOMAIN log' : log'[i] \in disk
      /\ \A x \in disk : \E i \in DOMAIN log' : log'[i] = x
  <2>1. log' \in Seq(disk) /\ \A x \in disk : \E i \in DOMAIN log' : log'[i] = x
    BY <1>1, <1>2, LoadFacts
  <2> QED BY <2>1
<1>4. Lossless' => Lossless /\ faults = 0
  BY <1>1, <1>2 DEF Lossless
<1>5. ASSUME Lossless', NEW q \in Reqs, Filed(q) PROVE Filed(q)'
  <2>1. CASE Spent(q)
    BY <1>1, <2>1 DEF Kept, Filed
  <2>2. CASE ~Spent(q)
    <3>1. PICK j \in DOMAIN log : /\ log[j].id = q
                                  /\ log[j].status \in {"pending", "executed", "coalesced"}
      BY <1>5, <2>2 DEF Filed
    <3>2. log[j] \in disk
      BY <1>4, <1>5 DEF IInv, Indexed, Lossless
    <3>3. \E i \in DOMAIN log' : log'[i] = log[j]
      BY <1>3, <3>2
    <3> QED BY <3>1, <3>3 DEF Filed
  <2> QED BY <2>1, <2>2
<1>6. \A g \in Flushes : ~At(g, "store")'
  <2> SUFFICES ASSUME NEW g \in Flushes PROVE ~At(g, "store")'
    OBVIOUS
  <2>1. g \in Procs
    BY DEF Procs
  <2>2. End(g, FALSE).pc = "done"
    BY <2>1, EndFields
  <2> QED BY <1>2, <2>1, <2>2 DEF At, Ended
<1>7. ASSUME NEW q \in Reqs
      PROVE  /\ Onward(q) /\ (Claims(q)' => Claims(q))
             /\ (Past(q)' => Past(q) \/ Spent(q)')
  <2>1. q \in Procs
    BY DEF Procs
  <2>2. CASE At(q, "idle") \/ At(q, "done")
    <3>1. proc'[q] = proc[q]
      BY <1>2, <2>1, <2>2 DEF At, Ended
    <3>2. now' \in Nat /\ now' >= now
      BY <1>1, <1>2
    <3> QED BY <3>1, <3>2, OnwardSame
  <2>3. CASE ~At(q, "idle") /\ ~At(q, "done")
    <3>1. proc'[q] = End(q, FALSE)
      BY <1>2, <2>1, <2>3 DEF At, Ended
    <3>2. FALSE \in BOOLEAN
      BY Zenon
    <3>3. Onward(q) /\ (Claims(q)' => FALSE) /\ (Past(q)' => Past(q) \/ At(q, "lookup"))
      BY <1>2, <2>3, <3>1, <3>2, EndOnward
    <3>4. At(q, "lookup") => Spent(q)'
      <4> SUFFICES ASSUME At(q, "lookup") PROVE Spent(q)'
        OBVIOUS
      <4>1. q \in Carries(q)
        BY DEF Carries
      <4>2. ~Ran(q) /\ \A p \in Procs \ {q} : q \notin Carries(p)
        BY <2>1, <4>1 DEF IInv, Custody, Held
      <4>3. ~Ran(q)'
        BY <1>2, <4>2 DEF Ran
      <4>4. Carries(q)' = {}
        <5>1. proc'[q].pc = "done"
          BY <1>1, <2>1, <3>1, EndTyped
        <5> QED BY <2>1, <5>1, OverTrue
      <4>5. \A p \in Procs \ {q} : q \notin Carries(p)'
        <5> SUFFICES ASSUME NEW p \in Procs \ {q} PROVE q \notin Carries(p)'
          OBVIOUS
        <5>1. CASE proc[p].pc \in Ended
          <6>1. proc'[p] = proc[p]
            BY <1>2, <5>1
          <6> QED BY <4>2, <6>1, CarriesSame
        <5>2. CASE proc[p].pc \notin Ended
          <6>1. proc'[p].pc = "done"
            <7>1. proc'[p] = End(p, FALSE)
              BY <1>2, <5>2
            <7> QED BY <1>1, <7>1, EndTyped
          <6> QED BY <6>1, OverTrue
        <5> QED BY <5>1, <5>2
      <4>6. Buffered' = {}
        BY <1>2 DEF Buffered
      <4>7. ~Held(q)'
        BY <4>4, <4>5, <4>6 DEF Held
      <4> QED BY <4>3, <4>7 DEF Spent
    <3> QED BY <3>3, <3>4
  <2> QED BY <2>2, <2>3
<1> QED BY <1>1, <1>2, <1>3, <1>4, <1>5, <1>6, <1>7, RetryKeeps

LEMMA InitRetry == Init => RetryInv
<1> SUFFICES ASSUME Init PROVE RetryInv
  OBVIOUS
<1>1. /\ log = <<>> /\ disk = {} /\ now = 0 /\ proc = [p \in Procs |-> Idle]
  BY DEF Init
<1>2. DOMAIN log = {}
  BY <1>1
<1>3. \A p \in Procs : proc[p] = Idle
  BY <1>1
<1>4. \A p \in Procs : \A pc : At(p, pc) <=> pc = "idle"
  BY <1>3 DEF At, Idle
<1>5. \A p \in Procs : proc[p].created = 0 /\ proc[p].acked = FALSE /\ proc[p].seen = {}
  BY <1>3 DEF Idle
<1>6. Stamps
  BY <1>1, <1>2, <1>4 DEF Stamps, Procs
<1>7. \A q \in Reqs : q \in Procs
  BY DEF Procs
<1>8. \A q \in Reqs : ~Claims(q) /\ ~Past(q)
  BY <1>4, <1>5, <1>7 DEF Claims, Counting, Past
<1>9. 0 <= 0
  OBVIOUS
<1> QED BY <1>1, <1>5, <1>6, <1>7, <1>8, <1>9 DEF RetryInv

LEMMA RetryAlways == Spec => [](IInv /\ RetryInv)
<1>1. ASSUME IInv, RetryInv, [Next]_vars PROVE RetryInv'
  <2>1. CASE \E q \in Reqs : \E b \in Bytes : webhook(q, b)
    BY <1>1, <2>1, WebhookRetry
  <2>2. CASE \E q \in Reqs : \E i \in DOMAIN log : replay_event(q, i)
    BY <1>1, <2>2, ReplayRetry
  <2>3. CASE \E q \in Reqs : Request(q)
    BY <1>1, <2>3, RepeatRetry, LogRetry, PushRetry DEF Request
  <2>4. CASE \E q \in Reqs : Dropped(q)
    BY <1>1, <2>4, DroppedRetry
  <2>5. CASE \E f \in Flushes : Flush(f)
    BY <1>1, <2>5, FlushRetry
  <2>6. CASE \E p \in Procs : Shared(p)
    BY <1>1, <2>6, ExecuteRetry, BumpRetry DEF Shared
  <2>7. CASE \E t \in timers : arm_flush(t)
    BY <1>1, <2>7, ArmRetry
  <2>8. CASE Registry \/ Tick \/ UNCHANGED vars
    BY <1>1, <2>8, RegistryRetry
  <2>9. CASE Restart
    BY <1>1, <2>9, RestartRetry
  <2> QED BY <1>1, <2>1, <2>2, <2>3, <2>4, <2>5, <2>6, <2>7, <2>8, <2>9 DEF Next
<1>2. IInv /\ RetryInv /\ [Next]_vars => (IInv /\ RetryInv)'
  BY <1>1, StepHolds DEF Kept
<1>3. Init => IInv /\ RetryInv
  BY InitHolds, InitRetry
<1> QED BY <1>2, <1>3, PTL DEF Spec

\* A retry of an acknowledged delivery is not run again inside the repeat window, for
\* any number of retries, flushes and faults, or of restarts when no write failed:
\* the original's entry stays in the log with its hash and its time (repeat_of).
THEOREM RetriesNotRerun == Spec => []RetryNotRerun
<1>1. IInv /\ RetryInv => RetryNotRerun
  <2> SUFFICES ASSUME IInv, RetryInv, Cardinality(Reqs) <= MaxEvents, deletes = 0,
                      faults = 0 \/ restarts = 0,
                      NEW q \in Reqs, NEW r \in proc[q].seen, proc[q].snap.repeat, Ran(q), Ran(r)
               PROVE  proc[r].created + Window < proc[q].created
    BY DEF RetryNotRerun
  <2>1. Lossless
    BY DEF Lossless
  <2>2. q \in Procs
    BY DEF Procs
  <2>3. ~At(q, "idle") /\ ~At(q, "lookup")
    <3>1. At(q, "idle") \/ At(q, "lookup") => q \in Carries(q)
      BY DEF Carries
    <3>2. q \in Carries(q) => ~Ran(q)
      BY <2>2 DEF IInv, Custody, Held
    <3> QED BY <3>1, <3>2
  <2>4. Past(q)
    BY <2>3 DEF Past
  <2>5. ~Spent(q) /\ ~Spent(r)
    BY DEF Spent
  <2>6. Heeded(q)
    BY <2>1, <2>4, <2>5 DEF RetryInv
  <2> QED BY <2>5, <2>6 DEF Heeded
<1> QED BY <1>1, RetryAlways, PTL
=============================================================================
