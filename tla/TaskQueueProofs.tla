---------------------------- MODULE TaskQueueProofs ----------------------------
(***************************************************************************)
(* Proofs about TaskQueue and, on top of it, AgentMailbox, for any number  *)
(* of tasks, workers, pools, keys and retry schedules, and of agents,      *)
(* hosts, messages and activations.                                        *)
(*                                                                         *)
(* The queue's invariant is a statement about each single record,          *)
(* Sound(t), so the argument has two layers: every transition of           *)
(* TaskRecord keeps a record sound (the lemmas), and every action of       *)
(* TaskQueue changes the index only through those transitions (the         *)
(* theorem).                                                               *)
(*                                                                         *)
(* Under the agents the queue keeps that invariant: the three operations   *)
(* they add change the index through the same transitions.  About the      *)
(* activations, the server compares owner and ordinal, so what has to be   *)
(* known is how the ordinals it has given out compare: an agent without a  *)
(* lease has been released since its last grant (Released), and ordinals   *)
(* only grow from one release to the next (Climbing).                      *)
(***************************************************************************)
EXTENDS AgentMailbox, SequenceTheorems, TLAPS

\* A record the queue may hold.
Sound(t) == /\ t \in Record
            /\ CoherentRecord(t)
            /\ RetryableRecord(t)

SoundRecords == {t \in Record : Sound(t)}

IInv == /\ tasks \in [TaskIds -> SoundRecords \cup {NoTask}]
        /\ up \subseteq Workers

USE NoneAssumption, RetryAssumption, QueueAssumption

-----------------------------------------------------------------------------
(***************************************************************************)
(* Transitions of a record                                                 *)
(***************************************************************************)

\* No record is the empty slot of the index.
LEMMA NoTaskIsNoRecord == NoTask \notin Record
BY DEF NoTask, Record, Status

\* TaskRecord::new makes a sound record.
LEMMA NewSound ==
    ASSUME NEW new \in NewTask
    PROVE  Sound(NewRecord(new))
BY DEF Sound, NewRecord, Record, NewTask, Status, CoherentRecord, RetryableRecord, is_terminal

\* A record born dead is sound: its effect is undeclared and it has no lease.
LEMMA NoticeSound ==
    ASSUME NEW new \in NewTask, new.effect = None
    PROVE  Sound(DeadNotice(new))
<1>1. Sound(NewRecord(new)) /\ NewRecord(new).attempt = 0 /\ NewRecord(new).new = new
      /\ NewRecord(new).status = "queued"
  BY NewSound DEF NewRecord
<1> DEFINE t == NewRecord(new)
<1> HIDE DEF t
<1>2. Sound(t) /\ t.attempt = 0 /\ t.new = new /\ t.status = "queued"
  BY <1>1 DEF t
<1>3. DeadNotice(new) = [t EXCEPT !.status = "dead"]
  BY DEF DeadNotice, t
<1> QED
  BY <1>2, <1>3 DEF Sound, Record, Status, CoherentRecord, RetryableRecord, is_terminal

\* claim keeps a record sound and never leaves the attempt counter at zero.
LEMMA ClaimSound ==
    ASSUME NEW t, Sound(t), NEW w \in Workers, NEW l \in Nat
    PROVE  Sound(claim(t, w, l))
<1> DEFINE n     == Lesser(t.attempt + 1, U32Max)
           lease == [owner |-> w, expires_in |-> l]
           u     == claim(t, w, l)
<1>1. n \in 0 .. U32Max /\ n > 0
  BY DEF Sound, Record, Lesser
<1>2. lease \in Lease /\ lease # None
  BY DEF Lease
<1>3. u = [t EXCEPT !.status = "leased", !.attempt = n, !.lease = lease,
                    !.next_attempt_in = None]
  BY DEF claim, Sound, Record
<1> HIDE DEF n, lease, u
<1>4. u \in Record
  BY <1>1, <1>2, <1>3 DEF Sound, Record, Status
<1>5. u.status = "leased" /\ u.attempt = n /\ u.lease # None /\ u.next_attempt_in = None
  BY <1>2, <1>3 DEF Sound, Record
<1>6. CoherentRecord(u) /\ RetryableRecord(u)
  BY <1>1, <1>5 DEF CoherentRecord, RetryableRecord, is_terminal
<1> QED BY <1>4, <1>6 DEF Sound, u

\* Completion keeps a record sound.
LEMMA CompleteSound ==
    ASSUME NEW t, Sound(t), t.status = "leased"
    PROVE  Sound(complete(t))
BY DEF Sound, complete, Record, Status, Category, CoherentRecord, RetryableRecord, is_terminal

\* Finalising a cancellation keeps a record sound, whatever its status was.
LEMMA CancellationSound ==
    ASSUME NEW t, Sound(t)
    PROVE  Sound(apply_cancellation(t))
BY DEF Sound, apply_cancellation, Record, Status, Category, CoherentRecord,
       RetryableRecord, is_terminal

\* Signalling or applying a cancellation keeps a record sound.
LEMMA CancelSound ==
    ASSUME NEW t, Sound(t)
    PROVE  Sound(cancel(t))
<1>1. CASE t.status = "leased"
  BY <1>1 DEF Sound, cancel, Record, CoherentRecord, RetryableRecord, is_terminal
<1>2. CASE t.status # "leased"
  BY <1>2, CancellationSound DEF cancel
<1> QED BY <1>1, <1>2

\* Re-driving a dead-lettered record keeps it sound.
LEMMA RedriveSound ==
    ASSUME NEW t, Sound(t), t.status = "dead"
    PROVE  Sound(redrive(t))
BY DEF Sound, redrive, Record, Status, Category, CoherentRecord, RetryableRecord, is_terminal

\* A heartbeat of the holder keeps a record sound.
LEMMA RenewSound ==
    ASSUME NEW t, Sound(t), t.lease # None, NEW l \in Nat
    PROVE  Sound(renew_lease(t, l))
<1> DEFINE lease == [t.lease EXCEPT !.expires_in = l]
<1>1. t.lease \in Lease
  BY DEF Sound, Record
<1>2. lease \in Lease /\ lease # None
  BY <1>1 DEF Lease
<1>3. renew_lease(t, l) = [t EXCEPT !.lease = lease]
  BY DEF renew_lease, Sound, Record
<1> HIDE DEF lease
<1> QED
  BY <1>2, <1>3 DEF Sound, Record, CoherentRecord, RetryableRecord, is_terminal

\* A resolved retry schedule never widens the task's attempt budget.
LEMMA ResolvedNarrows ==
    ASSUME NEW s \in Learned \cup {None}, NEW m \in Nat
    PROVE  /\ resolve_retry_parameters(s, m).max_delay \in Nat
           /\ resolve_retry_parameters(s, m).max_attempts \in Nat
           /\ resolve_retry_parameters(s, m).max_attempts <= m
<1>1. CASE s = None
  BY <1>1 DEF resolve_retry_parameters, floor
<1>2. CASE s # None
  BY <1>2 DEF resolve_retry_parameters, Lesser
<1> QED BY <1>1, <1>2

\* Whatever delay the jitter draws, a failure report keeps a record sound: a
\* retry is scheduled only below the budget, the DLQ gets only repeatable work.
LEMMA FailSound ==
    ASSUME NEW t, Sound(t), t.status = "leased",
           NEW class \in ErrorClass, NEW retryable \in BOOLEAN,
           NEW s \in Learned \cup {None},
           NEW u \in fail(t, class, retryable, resolve_retry_parameters(s, t.new.max_attempts))
    PROVE  Sound(u)
<1> DEFINE r   == resolve_retry_parameters(s, t.new.max_attempts)
           rep == repeatable_effect(t, retryable)
           d   == classify_retry(rep, class, t.attempt, r)
<1>1. /\ t.attempt \in Nat \ {0}
      /\ t.new.max_attempts \in Nat
      /\ t.new \in NewTask
  BY DEF Sound, Record, NewTask, CoherentRecord
<1>2. r.max_delay \in Nat /\ r.max_attempts \in Nat /\ r.max_attempts <= t.new.max_attempts
  BY <1>1, ResolvedNarrows
<1>3. rep => t.new.effect # "nonrepeatable"
  BY DEF repeatable_effect
<1>4. rep \in BOOLEAN /\ is_retryable(class) \in BOOLEAN
  BY DEF repeatable_effect, is_retryable
<1>5. \/ d = "fail"
      \/ d = "dead" /\ rep
      \/ d = "retry" /\ rep /\ t.attempt < t.new.max_attempts
  BY <1>1, <1>2, <1>4 DEF classify_retry
<1>6. backoff_delays(t.attempt, r) \subseteq Nat
  <2> HIDE DEF r
  <2>1. \A delay \in 0 .. r.max_delay : delay \in Nat
    BY <1>2
  <2> QED BY <2>1 DEF backoff_delays
<1> HIDE DEF r, rep, d
<1>7. CASE d = "fail"
  <2>1. u = [t EXCEPT !.status = IF class = "cancelled" THEN "cancelled" ELSE "failed",
                      !.lease = None, !.next_attempt_in = None,
                      !.status_category = "cancelled"]
    BY <1>7 DEF fail, d, r, rep
  <2> QED
    BY <2>1, <1>1 DEF Sound, Record, Status, Category, CoherentRecord, RetryableRecord, is_terminal
<1>8. CASE d = "dead" /\ rep
  <2>1. u = [t EXCEPT !.status = "dead", !.lease = None, !.next_attempt_in = None,
                      !.status_category = "cancelled"]
    BY <1>8 DEF fail, d, r, rep
  <2>2. u \in Record
    BY <2>1 DEF Sound, Record, Status, Category
  <2>3. /\ u.status = "dead" /\ u.lease = None /\ u.next_attempt_in = None
        /\ u.status_category = "cancelled" /\ u.attempt = t.attempt /\ u.new = t.new
    BY <2>1 DEF Sound, Record
  <2> QED
    BY <2>2, <2>3, <1>1, <1>3, <1>8 DEF Sound, CoherentRecord, RetryableRecord, is_terminal
<1>9. CASE d = "retry" /\ rep /\ t.attempt < t.new.max_attempts
  <2>1. PICK delay \in backoff_delays(t.attempt, r) :
          u = [t EXCEPT !.status = "failed", !.lease = None, !.next_attempt_in = delay]
    BY <1>9 DEF fail, d, r, rep
  <2>2. delay \in Nat /\ delay # None
    BY <1>6
  <2> QED
    BY <2>1, <2>2, <1>1, <1>3, <1>9
    DEF Sound, Record, Status, CoherentRecord, RetryableRecord, is_terminal
<1> QED BY <1>5, <1>7, <1>8, <1>9

\* Time alone keeps a record sound.
LEMMA ElapseSound ==
    ASSUME NEW t, Sound(t)
    PROVE  Sound(Elapse(t))
<1> DEFINE lease == ElapseLease(t.lease)
           next  == Down(t.next_attempt_in)
           dead  == Down(t.deadline)
           u     == Elapse(t)
<1>1. t.lease \in Lease \cup {None} /\ t.next_attempt_in \in Nat \cup {None}
      /\ t.deadline \in Nat \cup {None}
  BY DEF Sound, Record
<1>2. lease \in Lease \cup {None} /\ (lease = None <=> t.lease = None)
  <2>1. CASE t.lease = None
    BY <2>1 DEF ElapseLease
  <2>2. CASE t.lease \in Lease
    <3>1. Down(t.lease.expires_in) \in Nat
      BY <2>2 DEF Lease, Down
    <3> QED BY <2>2, <3>1 DEF Lease, ElapseLease
  <2> QED BY <1>1, <2>1, <2>2
<1>3. next \in Nat \cup {None} /\ (next = None <=> t.next_attempt_in = None)
  BY <1>1 DEF Down
<1>4. dead \in Nat \cup {None}
  BY <1>1 DEF Down
<1>5. u = [t EXCEPT !.lease = lease, !.next_attempt_in = next, !.deadline = dead]
  BY DEF Elapse
<1> HIDE DEF lease, next, dead, u
<1>6. u \in Record
  BY <1>2, <1>3, <1>4, <1>5 DEF Sound, Record
<1>7. /\ u.status = t.status /\ u.attempt = t.attempt /\ u.new = t.new
      /\ u.status_category = t.status_category
      /\ u.lease = None <=> t.lease = None
      /\ u.next_attempt_in = None <=> t.next_attempt_in = None
  BY <1>2, <1>3, <1>5 DEF Sound, Record
<1>8. CoherentRecord(u) /\ RetryableRecord(u)
  BY <1>7 DEF Sound, CoherentRecord, RetryableRecord, is_terminal
<1> QED BY <1>6, <1>8 DEF Sound, u

-----------------------------------------------------------------------------
(***************************************************************************)
(* Actions                                                                 *)
(***************************************************************************)

\* Changing one slot of the index to a sound record keeps the invariant.
LEMMA OneSlot ==
    ASSUME IInv, NEW id \in TaskIds, NEW u, Sound(u),
           tasks' = [tasks EXCEPT ![id] = u], up' \subseteq Workers
    PROVE  IInv'
BY DEF IInv, SoundRecords, Sound

\* What the index holds at an occupied slot is sound.
LEMMA SlotSound ==
    ASSUME IInv, NEW id \in TaskIds, tasks[id] # NoTask
    PROVE  Sound(tasks[id])
BY DEF IInv, SoundRecords

\* The sweep that opens every claim keeps every slot sound.
LEMMA SweepSound ==
    ASSUME IInv
    PROVE  finalize_due(tasks) \in [TaskIds -> SoundRecords \cup {NoTask}]
<1> SUFFICES ASSUME NEW id \in TaskIds
             PROVE  finalize_due(tasks)[id] \in SoundRecords \cup {NoTask}
  BY DEF finalize_due
<1>1. CASE tasks[id] # NoTask /\ cancellation_due(tasks[id])
  <2>1. Sound(apply_cancellation(tasks[id]))
    BY <1>1, SlotSound, CancellationSound
  <2> QED BY <1>1, <2>1 DEF finalize_due, SoundRecords, Sound
<1>2. CASE ~(tasks[id] # NoTask /\ cancellation_due(tasks[id]))
  BY <1>2 DEF finalize_due, IInv
<1> QED BY <1>1, <1>2

\* Every step of the queue keeps the invariant.
LEMMA StepKeepsIInv == IInv /\ [Next]_vars => IInv'
<1> SUFFICES ASSUME IInv, [Next]_vars PROVE IInv'
  OBVIOUS
<1>1. ASSUME NEW id \in TaskIds, NEW new \in Submissions, Enqueue(id, new)
      PROVE  IInv'
  <2>1. Sound(NewRecord(new))
    BY NewSound
  <2> QED BY <1>1, <2>1, OneSlot DEF Enqueue, enqueue_locked, IInv
<1>13. ASSUME NEW id \in TaskIds, NEW new \in Notices, DeadLetterTask(id, new)
       PROVE  IInv'
  <2>1. Sound(DeadNotice(new))
    BY NoticeSound
  <2> QED BY <1>13, <2>1, OneSlot DEF DeadLetterTask, enqueue_locked, IInv
<1>2. ASSUME NEW w \in Workers, NEW pools, NEW version, NEW l \in LeaseMs,
             ClaimTask(w, pools, version, l)
      PROVE  IInv'
  <2> DEFINE swept == finalize_due(tasks)
  <2>1. PICK id \in claim_candidates(swept, pools, version) :
           tasks' = [swept EXCEPT ![id] = claim(swept[id], w, l)]
    BY <1>2 DEF ClaimTask
  <2>2. id \in TaskIds /\ swept[id] # NoTask
    BY <2>1 DEF claim_candidates
  <2>3. swept \in [TaskIds -> SoundRecords \cup {NoTask}]
    BY SweepSound
  <2> HIDE DEF swept
  <2>4. Sound(swept[id])
    BY <2>2, <2>3 DEF SoundRecords
  <2>5. Sound(claim(swept[id], w, l))
    BY <2>4, ClaimSound
  <2>6. claim(swept[id], w, l) \in SoundRecords
    BY <2>5 DEF SoundRecords, Sound
  <2> QED BY <2>1, <2>2, <2>3, <2>6, <1>2 DEF IInv, ClaimTask
<1>3. ASSUME NEW w \in Workers, NEW pools, NEW version, ClaimNothing(w, pools, version)
      PROVE  IInv'
  BY <1>3, SweepSound DEF ClaimNothing, IInv
<1>4. ASSUME NEW w \in Workers, NEW id \in TaskIds, NEW l \in LeaseMs, HeartbeatTask(w, id, l)
      PROVE  IInv'
  <2>1. Sound(tasks[id]) /\ tasks[id].lease # None
    BY <1>4, SlotSound DEF HeartbeatTask, LeaseGuard, leased_to
  <2>2. Sound(renew_lease(tasks[id], l))
    BY <2>1, RenewSound
  <2> QED BY <1>4, <2>2, OneSlot DEF HeartbeatTask, IInv
<1>5. ASSUME NEW w \in Workers, NEW id \in TaskIds, CompleteTask(w, id)
      PROVE  IInv'
  <2>1. Sound(complete(tasks[id]))
    BY <1>5, SlotSound, CompleteSound DEF CompleteTask, LeaseGuard, leased_to
  <2> QED BY <1>5, <2>1, OneSlot DEF CompleteTask, IInv
<1>6. ASSUME NEW w \in Workers, NEW id \in TaskIds, NEW class \in ErrorClass,
             NEW retryable \in BOOLEAN, NEW s \in Learned \cup {None},
             FailTask(w, id, class, retryable, s)
      PROVE  IInv'
  <2>1. Sound(tasks[id]) /\ tasks[id].status = "leased"
    BY <1>6, SlotSound DEF FailTask, LeaseGuard, leased_to
  <2>2. PICK u \in fail(tasks[id], class, retryable,
                        resolve_retry_parameters(s, tasks[id].new.max_attempts)) :
           tasks' = [tasks EXCEPT ![id] = u]
    BY <1>6 DEF FailTask
  <2>3. Sound(u)
    BY <2>1, <2>2, FailSound
  <2> QED BY <1>6, <2>2, <2>3, OneSlot DEF FailTask, IInv
<1>7. ASSUME NEW id \in TaskIds, CancelTask(id)
      PROVE  IInv'
  <2>1. Sound(cancel(tasks[id]))
    BY <1>7, SlotSound, CancelSound DEF CancelTask
  <2> QED BY <1>7, <2>1, OneSlot DEF CancelTask, IInv
<1>8. ASSUME NEW run \in Runs, CancelRunTasks(run)
      PROVE  IInv'
  <2> DEFINE targets == {id \in Present : /\ tasks[id].new.run_id = run
                                          /\ ~is_terminal(tasks[id])}
  <2>1. \A id \in targets : cancel(tasks[id]) \in SoundRecords
    <3> SUFFICES ASSUME NEW id \in targets PROVE cancel(tasks[id]) \in SoundRecords
      OBVIOUS
    <3>1. id \in TaskIds /\ tasks[id] # NoTask
      BY DEF Present
    <3> QED BY <3>1, SlotSound, CancelSound DEF SoundRecords, Sound
  <2>2. /\ tasks' = [id \in TaskIds |-> IF id \in targets THEN cancel(tasks[id])
                                                          ELSE tasks[id]]
        /\ up' = up
    BY <1>8 DEF CancelRunTasks
  <2> HIDE DEF targets
  <2> QED BY <2>1, <2>2 DEF IInv
<1>9. ASSUME NEW id \in TaskIds, RedriveTask(id)
      PROVE  IInv'
  <2>1. Sound(redrive(tasks[id]))
    BY <1>9, SlotSound, RedriveSound DEF RedriveTask
  <2> QED BY <1>9, <2>1, OneSlot DEF RedriveTask, IInv
<1>10. ASSUME Tick
       PROVE  IInv'
  <2>1. \A id \in TaskIds : tasks[id] # NoTask => Elapse(tasks[id]) \in SoundRecords
    BY SlotSound, ElapseSound DEF SoundRecords, Sound
  <2> QED BY <1>10, <2>1 DEF Tick, IInv
<1>11. ASSUME NEW w \in Workers, StopWorker(w)
       PROVE  IInv'
  BY <1>11 DEF StopWorker, IInv
<1>12. CASE UNCHANGED vars
  BY <1>12 DEF vars, IInv
<1> QED
  BY <1>1, <1>2, <1>3, <1>4, <1>5, <1>6, <1>7, <1>8, <1>9, <1>10, <1>11, <1>12, <1>13
  DEF Next, Operation, Claim, Settle

\* The queue starts sound.
LEMMA InitSound == Init => IInv
BY DEF Init, IInv

\* Spec implies that every record the index ever holds is well typed and sound.
THEOREM Invariance == Spec => []IInv
BY InitSound, StepKeepsIInv, PTL DEF Spec

\* The index only ever holds well-typed records, and the set of running
\* workers only ever shrinks within Workers.
THEOREM TypeCorrect == Spec => []TypeOK
<1>1. IInv => TypeOK
  BY DEF IInv, TypeOK, SoundRecords
<1> QED BY <1>1, Invariance, PTL

\* Every field of every record agrees with its status, through every order of
\* claims, reports, cancellations, sweeps and re-drives.
THEOREM RecordsCoherent == Spec => []Coherent
<1>1. IInv => Coherent
  BY DEF IInv, SoundRecords, Sound, Coherent, Present
<1> QED BY <1>1, Invariance, PTL

\* Neither the DLQ nor the retry schedule ever holds work that must not be repeated
\* or that is past its budget, for any policy and any schedule.
THEOREM RetrySafety == Spec => []RetryGates
<1>1. IInv => RetryGates
  BY DEF IInv, SoundRecords, Sound, RetryGates, Present
<1> QED BY <1>1, Invariance, PTL

-----------------------------------------------------------------------------
(***************************************************************************)
(* What one step can do to one record.  The action properties and the      *)
(* refinement follow from this case analysis.                              *)
(***************************************************************************)

\* A report of the lease holder, the owner of t's lease.
HolderStep(t, u) ==
    /\ t.status = "leased" /\ t.lease # None
    /\ \/ \E l \in LeaseMs : u = renew_lease(t, l)
       \/ u = complete(t)
       \/ \E class \in ErrorClass, retryable \in BOOLEAN, s \in Learned \cup {None} :
             u \in fail(t, class, retryable, resolve_retry_parameters(s, t.new.max_attempts))

RecordStep(t, u) ==
    \/ u = t
    \/ cancellation_due(t) /\ u = apply_cancellation(t)
    \/ /\ claimable_at_now(t) /\ ~cancellation_due(t)
       /\ \E w \in Workers, l \in LeaseMs : u = claim(t, w, l)
    \/ HolderStep(t, u)
    \/ ~is_terminal(t) /\ u = cancel(t)
    \/ t.status = "dead" /\ u = redrive(t)
    \/ u = Elapse(t)

\* A record that was swept is cancelled, hence never claimed in the same step.
LEMMA SweptNotClaimable ==
    ASSUME NEW t, Sound(t)
    PROVE  ~claimable_at_now(apply_cancellation(t))
BY DEF Sound, Record, apply_cancellation, claimable_at_now

\* Every step of the queue takes each present record through RecordStep and
\* fills an empty slot only with a new record or a notice.
LEMMA StepCases ==
    ASSUME IInv, [Next]_vars, NEW id \in TaskIds
    PROVE  /\ tasks[id] # NoTask => RecordStep(tasks[id], tasks'[id])
           /\ tasks[id] = NoTask => \/ tasks'[id] = NoTask
                                    \/ \E new \in NewTask : tasks'[id] = NewRecord(new)
                                    \/ \E new \in Notices : tasks'[id] = DeadNotice(new)
<1> DEFINE Goal == /\ tasks[id] # NoTask => RecordStep(tasks[id], tasks'[id])
                   /\ tasks[id] = NoTask => \/ tasks'[id] = NoTask
                                            \/ \E new \in NewTask : tasks'[id] = NewRecord(new)
                                            \/ \E new \in Notices : tasks'[id] = DeadNotice(new)
<1> USE DEF IInv
<1>1. ASSUME NEW i \in TaskIds, NEW new \in Submissions, Enqueue(i, new)
      PROVE  Goal
  BY <1>1 DEF Enqueue, enqueue_locked, RecordStep
<1>13. ASSUME NEW i \in TaskIds, NEW new \in Notices, DeadLetterTask(i, new)
       PROVE  Goal
  BY <1>13 DEF DeadLetterTask, enqueue_locked, RecordStep
<1>s. LET swept == finalize_due(tasks)
      IN  /\ tasks[id] = NoTask => swept[id] = NoTask
          /\ tasks[id] # NoTask =>
               \/ cancellation_due(tasks[id]) /\ swept[id] = apply_cancellation(tasks[id])
               \/ ~cancellation_due(tasks[id]) /\ swept[id] = tasks[id]
  BY DEF finalize_due
<1>2. ASSUME NEW w \in Workers, NEW pools, NEW version, NEW l \in LeaseMs,
             ClaimTask(w, pools, version, l)
      PROVE  Goal
  <2> DEFINE swept == finalize_due(tasks)
  <2>1. PICK i \in claim_candidates(swept, pools, version) :
           tasks' = [swept EXCEPT ![i] = claim(swept[i], w, l)]
    BY <1>2 DEF ClaimTask
  <2>2. i \in TaskIds /\ swept[i] # NoTask /\ claimable_at_now(swept[i])
    BY <2>1 DEF claim_candidates
  <2>3. DOMAIN swept = TaskIds
    BY DEF finalize_due
  <2> HIDE DEF swept
  <2>4. CASE id # i
    BY <2>1, <2>2, <2>3, <2>4, <1>s DEF RecordStep, swept
  <2>5. CASE id = i
    <3>1. tasks[id] # NoTask
      BY <2>2, <2>5, <1>s DEF swept
    <3>2. ~cancellation_due(tasks[id]) /\ swept[id] = tasks[id]
      BY <3>1, <2>2, <2>5, <1>s, SlotSound, SweptNotClaimable DEF swept
    <3>3. tasks'[id] = claim(tasks[id], w, l)
      BY <2>1, <2>2, <2>3, <2>5, <3>2
    <3> QED BY <2>2, <2>5, <3>1, <3>2, <3>3 DEF RecordStep
  <2> QED BY <2>4, <2>5
<1>3. ASSUME NEW w \in Workers, NEW pools, NEW version, ClaimNothing(w, pools, version)
      PROVE  Goal
  BY <1>3, <1>s DEF ClaimNothing, RecordStep
<1>4. ASSUME NEW w \in Workers, NEW i \in TaskIds, NEW l \in LeaseMs, HeartbeatTask(w, i, l)
      PROVE  Goal
  BY <1>4 DEF HeartbeatTask, LeaseGuard, leased_to, RecordStep, HolderStep
<1>5. ASSUME NEW w \in Workers, NEW i \in TaskIds, CompleteTask(w, i)
      PROVE  Goal
  BY <1>5 DEF CompleteTask, LeaseGuard, leased_to, RecordStep, HolderStep
<1>6. ASSUME NEW w \in Workers, NEW i \in TaskIds, NEW class \in ErrorClass,
             NEW retryable \in BOOLEAN, NEW s \in Learned \cup {None},
             FailTask(w, i, class, retryable, s)
      PROVE  Goal
  BY <1>6 DEF FailTask, LeaseGuard, leased_to, RecordStep, HolderStep
<1>7. ASSUME NEW i \in TaskIds, CancelTask(i)
      PROVE  Goal
  BY <1>7 DEF CancelTask, RecordStep
<1>8. ASSUME NEW run \in Runs, CancelRunTasks(run)
      PROVE  Goal
  BY <1>8 DEF CancelRunTasks, RecordStep, Present
<1>9. ASSUME NEW i \in TaskIds, RedriveTask(i)
      PROVE  Goal
  BY <1>9 DEF RedriveTask, RecordStep
<1>10. ASSUME Tick
       PROVE  Goal
  BY <1>10 DEF Tick, RecordStep
<1>11. ASSUME NEW w \in Workers, StopWorker(w)
       PROVE  Goal
  BY <1>11 DEF StopWorker, RecordStep
<1>12. CASE UNCHANGED vars
  BY <1>12 DEF vars, RecordStep
<1> QED
  BY <1>1, <1>2, <1>3, <1>4, <1>5, <1>6, <1>7, <1>8, <1>9, <1>10, <1>11, <1>12, <1>13
  DEF Next, Operation, Claim, Settle

\* A failure report touches the status, the lease, the schedule and the
\* category, and always ends the lease.
LEMMA FailFields ==
    ASSUME NEW t \in Record, NEW class, NEW retryable, NEW r,
           NEW u \in fail(t, class, retryable, r)
    PROVE  /\ u.attempt = t.attempt /\ u.cancel_requested = t.cancel_requested
           /\ u.lease = None
           /\ \/ u.status = "failed"
              \/ u.status \in {"dead", "cancelled"} /\ u.next_attempt_in = None
<1> DEFINE d == classify_retry(repeatable_effect(t, retryable), class, t.attempt, r)
<1> HIDE DEF d
<1>1. CASE d = "retry"
  <2>1. PICK delay : u = [t EXCEPT !.status = "failed", !.lease = None,
                                   !.next_attempt_in = delay]
    BY <1>1 DEF fail, d
  <2> QED BY <2>1 DEF Record
<1>2. CASE d = "dead"
  BY <1>2 DEF fail, d, Record
<1>3. CASE d = "fail"
  <2>1. u = [t EXCEPT !.status = IF class = "cancelled" THEN "cancelled" ELSE "failed",
                      !.lease = None, !.next_attempt_in = None,
                      !.status_category = "cancelled"]
    BY <1>3 DEF fail, d
  <2> QED BY <2>1 DEF Record
<1>4. d = "retry" \/ d = "dead" \/ d = "fail"
  BY DEF d, classify_retry
<1> QED BY <1>1, <1>2, <1>3, <1>4

\* A present record stays present: no step empties a slot.
LEMMA RecordStays ==
    ASSUME NEW t, Sound(t), NEW u, RecordStep(t, u)
    PROVE  u # NoTask
<1>1. CASE u = t \/ u = apply_cancellation(t) \/ u = cancel(t) \/ u = Elapse(t)
  BY <1>1, CancellationSound, CancelSound, ElapseSound, NoTaskIsNoRecord DEF Sound
<1>2. CASE \E w \in Workers, l \in LeaseMs : u = claim(t, w, l)
  <2>1. PICK w \in Workers, l \in LeaseMs : u = claim(t, w, l)
    BY <1>2
  <2>2. Sound(u)
    BY <2>1, ClaimSound
  <2> QED BY <2>2, NoTaskIsNoRecord DEF Sound
<1>3. CASE HolderStep(t, u)
  BY <1>3, RenewSound, CompleteSound, FailSound, NoTaskIsNoRecord, SMTT(40) DEF HolderStep, Sound
<1>4. CASE t.status = "dead" /\ u = redrive(t)
  BY <1>4, RedriveSound, NoTaskIsNoRecord DEF Sound
<1> QED BY <1>1, <1>2, <1>3, <1>4 DEF RecordStep

\* How a step may change the fields the action properties are about.
LEMMA StepFields ==
    ASSUME NEW t, Sound(t), NEW u, RecordStep(t, u)
    PROVE  /\ t.cancel_requested => u.attempt = t.attempt /\ u.cancel_requested
           /\ t.deadline = 0 => /\ u.attempt = t.attempt
                                /\ u.status = "leased" => t.status = "leased"
           /\ lease_live(t) => /\ u.attempt = t.attempt
                               /\ u.lease # None => u.lease.owner = t.lease.owner
<1> DEFINE Goal ==
           /\ t.cancel_requested => u.attempt = t.attempt /\ u.cancel_requested
           /\ t.deadline = 0 => /\ u.attempt = t.attempt
                                /\ u.status = "leased" => t.status = "leased"
           /\ lease_live(t) => /\ u.attempt = t.attempt
                               /\ u.lease # None => u.lease.owner = t.lease.owner
<1> USE DEF Sound
<1>1. CASE u = t
  BY <1>1
<1>2. CASE u = apply_cancellation(t)
  BY <1>2 DEF apply_cancellation, Record
<1>3. CASE /\ claimable_at_now(t) /\ ~cancellation_due(t)
           /\ \E w \in Workers, l \in LeaseMs : u = claim(t, w, l)
  <2>1. ~t.cancel_requested /\ t.deadline # 0 /\ ~lease_live(t)
    BY <1>3 DEF claimable_at_now, cancellation_due, lease_live
  <2> QED BY <2>1
<1>4. CASE HolderStep(t, u)
  <2>1. CASE \E l \in LeaseMs : u = renew_lease(t, l)
    <3>1. PICK l \in LeaseMs : u = [t EXCEPT !.lease = [t.lease EXCEPT !.expires_in = l]]
      BY <1>4, <2>1 DEF renew_lease, HolderStep, Record
    <3>2. t.lease \in Lease
      BY <1>4 DEF HolderStep, Record
    <3> QED BY <1>4, <3>1, <3>2 DEF HolderStep, Record, Lease
  <2>2. CASE u = complete(t)
    BY <2>2 DEF complete, Record
  <2>3. CASE \E class \in ErrorClass, retryable \in BOOLEAN, s \in Learned \cup {None} :
             u \in fail(t, class, retryable, resolve_retry_parameters(s, t.new.max_attempts))
    BY <2>3, FailFields
  <2> QED BY <1>4, <2>1, <2>2, <2>3 DEF HolderStep
<1>5. CASE u = cancel(t)
  BY <1>5 DEF cancel, apply_cancellation, Record
<1>6. CASE u = redrive(t)
  BY <1>6 DEF redrive, Record
<1>7. CASE u = Elapse(t)
  <2>1. t.lease \in Lease \cup {None}
    BY DEF Record
  <2>2. t.lease # None => ElapseLease(t.lease).owner = t.lease.owner
    BY <2>1 DEF ElapseLease, Lease
  <2>3. /\ u.attempt = t.attempt /\ u.cancel_requested = t.cancel_requested
        /\ u.status = t.status /\ u.lease = ElapseLease(t.lease)
    BY <1>7 DEF Elapse, Record
  <2> QED BY <2>2, <2>3 DEF lease_live, ElapseLease
<1> QED
  BY <1>1, <1>2, <1>3, <1>4, <1>5, <1>6, <1>7 DEF RecordStep

\* After a signalled cancellation there is no further attempt, after the
\* deadline none starts, and an unexpired lease is nobody else's: the
\* action properties, for every interleaving of any number of workers.
THEOREM AttemptDiscipline ==
    Spec => StopsAttempts /\ LiveLeaseExclusive
<1> DEFINE Disc ==
      \A id \in Present :
         /\ tasks[id].cancel_requested =>
               tasks'[id].attempt = tasks[id].attempt /\ tasks'[id].cancel_requested
         /\ tasks[id].deadline = 0 =>
               /\ tasks'[id].attempt = tasks[id].attempt
               /\ tasks'[id].status = "leased" => tasks[id].status = "leased"
         /\ lease_live(tasks[id]) =>
               /\ tasks'[id].attempt = tasks[id].attempt
               /\ tasks'[id].lease # None => tasks'[id].lease.owner = tasks[id].lease.owner
<1>1. IInv /\ [Next]_vars => Disc
  <2> SUFFICES ASSUME IInv, [Next]_vars, NEW id \in Present
               PROVE  LET t == tasks[id]
                          u == tasks'[id]
                      IN  /\ t.cancel_requested => u.attempt = t.attempt /\ u.cancel_requested
                          /\ t.deadline = 0 =>
                               /\ u.attempt = t.attempt
                               /\ u.status = "leased" => t.status = "leased"
                          /\ lease_live(t) =>
                               /\ u.attempt = t.attempt
                               /\ u.lease # None => u.lease.owner = t.lease.owner
    OBVIOUS
  <2>1. id \in TaskIds /\ tasks[id] # NoTask
    BY DEF Present
  <2>2. Sound(tasks[id])
    BY <2>1, SlotSound
  <2>3. RecordStep(tasks[id], tasks'[id])
    BY <2>1, StepCases
  <2> HIDE DEF Present
  <2> QED BY <2>2, <2>3, StepFields
<1>2. Spec => [][Disc]_vars
  BY <1>1, Invariance, PTL DEF Spec
<1>3. Disc =>
        /\ \A id \in Present :
              /\ tasks[id].cancel_requested =>
                    tasks'[id].attempt = tasks[id].attempt /\ tasks'[id].cancel_requested
              /\ tasks[id].deadline = 0 =>
                    /\ tasks'[id].attempt = tasks[id].attempt
                    /\ tasks'[id].status = "leased" => tasks[id].status = "leased"
        /\ \A id \in Present : lease_live(tasks[id]) =>
              /\ tasks'[id].attempt = tasks[id].attempt
              /\ tasks'[id].lease # None => tasks'[id].lease.owner = tasks[id].lease.owner
  OBVIOUS
<1> QED
  BY <1>2, <1>3, PTL DEF StopsAttempts, LiveLeaseExclusive

\* In particular nothing starts an attempt of a task that was told to stop.
COROLLARY StopDiscipline == Spec => StopsAttempts
BY AttemptDiscipline, PTL

-----------------------------------------------------------------------------
(***************************************************************************)
(* The queue implements the lifecycle                                      *)
(***************************************************************************)

Moves(t, u) == PhaseOf(u) # PhaseOf(t) => <<PhaseOf(t), PhaseOf(u)>> \in Lifecycle!Edges

\* The phase of a record is its status, but for a scheduled retry.
LEMMA PhaseCases ==
    ASSUME NEW t \in Record
    PROVE  /\ t.status = "failed" /\ t.next_attempt_in # None => PhaseOf(t) = "retrying"
           /\ ~(t.status = "failed" /\ t.next_attempt_in # None) => PhaseOf(t) = t.status
           /\ PhaseOf(t) \in Lifecycle!Phases
<1>1. t # NoTask
  BY NoTaskIsNoRecord
<1>2. t.status \in Status
  BY DEF Record
<1> QED BY <1>1, <1>2 DEF PhaseOf, Lifecycle!Phases, Status

\* Every step a record can take is an edge of the lifecycle or none.
LEMMA RecordMoves ==
    ASSUME NEW t, Sound(t), NEW u \in Record, RecordStep(t, u)
    PROVE  Moves(t, u)
<1>0. t \in Record /\ CoherentRecord(t)
  BY DEF Sound
<1>p. /\ t.status = "failed" /\ t.next_attempt_in # None => PhaseOf(t) = "retrying"
      /\ ~(t.status = "failed" /\ t.next_attempt_in # None) => PhaseOf(t) = t.status
      /\ u.status = "failed" /\ u.next_attempt_in # None => PhaseOf(u) = "retrying"
      /\ ~(u.status = "failed" /\ u.next_attempt_in # None) => PhaseOf(u) = u.status
      /\ t.status \in Status
  BY <1>0, PhaseCases DEF Record
<1>1. CASE u = t
  BY <1>1 DEF Moves
<1>2. CASE claimable_at_now(t) /\ u = apply_cancellation(t)
  <2>1. u.status = "cancelled" /\ (t.status = "failed" => t.next_attempt_in # None)
    BY <1>0, <1>2 DEF apply_cancellation, Record, claimable_at_now
  <2>2. t.status \in {"queued", "failed", "leased"}
    BY <1>2 DEF claimable_at_now
  <2> QED BY <2>1, <2>2, <1>p DEF Moves, Lifecycle!Edges
<1>3. CASE claimable_at_now(t) /\ \E w \in Workers, l \in LeaseMs : u = claim(t, w, l)
  <2>1. u.status = "leased" /\ (t.status = "failed" => t.next_attempt_in # None)
    BY <1>0, <1>3 DEF claim, Record, claimable_at_now
  <2>2. t.status \in {"queued", "failed", "leased"}
    BY <1>3 DEF claimable_at_now
  <2> QED BY <2>1, <2>2, <1>p DEF Moves, Lifecycle!Edges
<1>4. CASE HolderStep(t, u)
  <2>0. t.status = "leased" /\ PhaseOf(t) = "leased"
    BY <1>4, <1>p DEF HolderStep
  <2>1. CASE \E l \in LeaseMs : u = renew_lease(t, l)
    <3>1. u.status = "leased"
      BY <1>0, <2>0, <2>1 DEF renew_lease, Record
    <3> QED BY <2>0, <3>1, <1>p DEF Moves
  <2>2. CASE u = complete(t)
    <3>1. u.status = "completed"
      BY <1>0, <2>2 DEF complete, Record
    <3> QED BY <2>0, <3>1, <1>p DEF Moves, Lifecycle!Edges
  <2>3. CASE \E class \in ErrorClass, retryable \in BOOLEAN, s \in Learned \cup {None} :
             u \in fail(t, class, retryable, resolve_retry_parameters(s, t.new.max_attempts))
    <3>1. u.status = "failed" \/ u.status \in {"dead", "cancelled"}
      BY <1>0, <2>3, FailFields
    <3> QED BY <2>0, <3>1, <1>p DEF Moves, Lifecycle!Edges
  <2> QED BY <1>4, <2>1, <2>2, <2>3 DEF HolderStep
<1>5. CASE ~is_terminal(t) /\ u = cancel(t)
  <2>1. CASE t.status = "leased"
    <3>1. u.status = "leased"
      BY <1>0, <1>5, <2>1 DEF cancel, Record
    <3> QED BY <2>1, <3>1, <1>p DEF Moves
  <2>2. CASE t.status # "leased"
    <3>1. u.status = "cancelled"
      BY <1>0, <1>5, <2>2 DEF cancel, apply_cancellation, Record
    <3>2. t.status = "queued" \/ (t.status = "failed" /\ t.next_attempt_in # None)
      BY <1>5, <2>2, <1>p DEF is_terminal, Status
    <3> QED BY <3>1, <3>2, <1>p DEF Moves, Lifecycle!Edges
  <2> QED BY <2>1, <2>2
<1>6. CASE t.status = "dead" /\ u = redrive(t)
  <2>1. u.status = "queued"
    BY <1>0, <1>6 DEF redrive, Record
  <2> QED BY <1>6, <2>1, <1>p DEF Moves, Lifecycle!Edges
<1>7. CASE u = Elapse(t)
  <2>1. u.status = t.status /\ u.next_attempt_in = Down(t.next_attempt_in)
    BY <1>0, <1>7 DEF Elapse, Record
  <2>2. u.next_attempt_in = None <=> t.next_attempt_in = None
    BY <1>0, <2>1 DEF Down, Record
  <2> QED BY <2>1, <2>2, <1>p DEF Moves
<1> QED
  BY <1>1, <1>2, <1>3, <1>4, <1>5, <1>6, <1>7 DEF RecordStep, cancellation_due

\* TaskQueue implements TaskLifecycle: each task of the queue moves along the
\* documented edges only, whatever the other tasks and workers do.
THEOREM Refinement == Spec => ImplementsLifecycle
<1> DEFINE phase == [id \in TaskIds |-> PhaseOf(tasks[id])]
<1>1. Init => Lifecycle!Init
  BY DEF Init, Lifecycle!Init, PhaseOf
<1>2. IInv /\ IInv' /\ [Next]_vars => [Lifecycle!Next]_phase
  <2> SUFFICES ASSUME IInv, IInv', [Next]_vars
               PROVE  Lifecycle!Next
    OBVIOUS
  <2>1. \A id \in TaskIds : PhaseOf(tasks'[id]) \in Lifecycle!Phases
    <3> SUFFICES ASSUME NEW id \in TaskIds
                 PROVE  PhaseOf(tasks'[id]) \in Lifecycle!Phases
      OBVIOUS
    <3>1. tasks'[id] = NoTask \/ tasks'[id] \in Record
      BY DEF IInv, SoundRecords
    <3>2. PhaseOf(NoTask) \in Lifecycle!Phases
      BY DEF PhaseOf, Lifecycle!Phases
    <3> QED BY <3>1, <3>2, PhaseCases
  <2>2. \A id \in TaskIds : Moves(tasks[id], tasks'[id])
    <3> SUFFICES ASSUME NEW id \in TaskIds PROVE Moves(tasks[id], tasks'[id])
      OBVIOUS
    <3>1. CASE tasks[id] # NoTask
      <4>1. Sound(tasks[id]) /\ RecordStep(tasks[id], tasks'[id])
        BY <3>1, SlotSound, StepCases
      <4>2. tasks'[id] # NoTask
        BY <4>1, RecordStays
      <4>3. tasks'[id] \in Record
        BY <4>2 DEF IInv, SoundRecords
      <4> QED BY <4>1, <4>3, RecordMoves
    <3>2. CASE tasks[id] = NoTask
      <4>1. PhaseOf(tasks[id]) = "absent"
        BY <3>2 DEF PhaseOf
      <4>2. CASE tasks'[id] = NoTask
        BY <3>2, <4>2 DEF Moves
      <4>3. CASE \E new \in NewTask : tasks'[id] = NewRecord(new)
        <5>1. tasks'[id] \in Record /\ tasks'[id].status = "queued"
          BY <4>3, NewSound DEF Sound, NewRecord
        <5>2. PhaseOf(tasks'[id]) = "queued"
          BY <5>1, PhaseCases
        <5> QED BY <4>1, <5>2 DEF Moves, Lifecycle!Edges
      <4>4. CASE \E new \in Notices : tasks'[id] = DeadNotice(new)
        <5>1. tasks'[id] \in Record /\ tasks'[id].status = "dead"
          BY <4>4, NoticeSound DEF Sound, DeadNotice, NewRecord
        <5>2. PhaseOf(tasks'[id]) = "dead"
          BY <5>1, PhaseCases
        <5> QED BY <4>1, <5>2 DEF Moves, Lifecycle!Edges
      <4> QED BY <3>2, <4>2, <4>3, <4>4, StepCases
    <3> QED BY <3>1, <3>2
  <2>3. phase' = [id \in TaskIds |-> PhaseOf(tasks'[id])]
    OBVIOUS
  <2> QED BY <2>1, <2>2 DEF Lifecycle!Next, Moves
<1> QED
  BY <1>1, <1>2, Invariance, PTL DEF Spec, ImplementsLifecycle, Lifecycle!Spec

-----------------------------------------------------------------------------
(***************************************************************************)
(* The activations of agents                                               *)
(***************************************************************************)

USE MailboxAssumption

LeaseTyped ==
    /\ activation \in [Agents -> ActivationLease \cup {None}]
    /\ lease_file \in [Agents -> ActivationLease \cup {None}]
    /\ granted \in [Agents -> Seq(Grant)]
    /\ released \in [Agents -> 0 .. MaxGrants]
    /\ \A a \in Agents : Len(granted[a]) <= MaxGrants

\* The lease is of the last grant.
OfLastGrant(a, lease) ==
    /\ granted[a] # << >>
    /\ granted[a][Len(granted[a])] = [owner |-> lease.owner, fencing |-> lease.fencing]

\* What the index and the file of an agent hold, a file that outlived its release included.
OnDisk(a) ==
    /\ activation[a] # None => lease_file[a] = activation[a]
    /\ lease_file[a] # None => OfLastGrant(a, lease_file[a])

\* Without a lease, every activation granted so far has been released.
Released(a) == activation[a] = None \/ lease_file[a] = None => released[a] = Len(granted[a])

\* Ordinals granted since the last release grow.
Climbing(a) ==
    \A i, k \in 1 .. Len(granted[a]) :
        released[a] < i /\ i < k => granted[a][i].fencing < granted[a][k].fencing

LeaseInv ==
    /\ LeaseTyped
    /\ \A a \in Agents : OnDisk(a) /\ Released(a) /\ Climbing(a)

AgentInv == IInv /\ LeaseInv

-----------------------------------------------------------------------------
(***************************************************************************)
(* The queue under the agents                                              *)
(***************************************************************************)

\* The mailbox claim, its empty answer and the agent's cancellation keep records sound.
LEMMA MailboxKeepsIInv ==
    ASSUME IInv, NEW a \in Agents, LeaseTyped
    PROVE  /\ \A i \in 1 .. MaxGrants, l \in LeaseMs : ClaimAgentTask(a, i, l) => IInv'
           /\ \A i \in 1 .. MaxGrants : ClaimAgentNothing(a, i) => IInv'
           /\ CancelAgentTasks(a) => IInv'
<1> DEFINE swept == finalize_due(tasks)
<1>1. swept \in [TaskIds -> SoundRecords \cup {NoTask}]
  BY SweepSound
<1>2. ASSUME NEW i \in 1 .. MaxGrants, NEW l \in LeaseMs, ClaimAgentTask(a, i, l) PROVE IInv'
  <2> DEFINE h == granted[a][i].owner
  <2>1. PICK id \in mailbox_candidates(swept, a) :
           tasks' = [swept EXCEPT ![id] = claim(swept[id], h, l)]
    BY <1>2 DEF ClaimAgentTask
  <2>2. id \in TaskIds /\ swept[id] # NoTask
    BY <2>1 DEF mailbox_candidates, Mailbox
  <2>3. h \in Workers /\ up' = up
    BY <1>2 DEF ClaimAgentTask, HoldsActivation, IInv
  <2> HIDE DEF swept, h
  <2>4. Sound(swept[id])
    BY <1>1, <2>2 DEF SoundRecords
  <2>5. Sound(claim(swept[id], h, l))
    BY <2>3, <2>4, ClaimSound, QueueAssumption
  <2>6. claim(swept[id], h, l) \in SoundRecords
    BY <2>5 DEF SoundRecords, Sound
  <2> QED BY <1>1, <2>1, <2>2, <2>3, <2>6 DEF IInv
<1>3. ASSUME NEW i \in 1 .. MaxGrants, ClaimAgentNothing(a, i) PROVE IInv'
  BY <1>1, <1>3 DEF ClaimAgentNothing, IInv
<1>4. ASSUME CancelAgentTasks(a) PROVE IInv'
  <2> DEFINE targets == {id \in Mailbox(tasks, a) : ~is_terminal(tasks[id])}
  <2>1. \A id \in targets : cancel(tasks[id]) \in SoundRecords
    <3> SUFFICES ASSUME NEW id \in targets PROVE cancel(tasks[id]) \in SoundRecords
      OBVIOUS
    <3>1. id \in TaskIds /\ tasks[id] # NoTask
      BY DEF Mailbox
    <3> QED BY <3>1, SlotSound, CancelSound DEF SoundRecords, Sound
  <2>2. /\ tasks' = [id \in TaskIds |-> IF id \in targets THEN cancel(tasks[id]) ELSE tasks[id]]
        /\ up' = up
    BY <1>4 DEF CancelAgentTasks
  <2> HIDE DEF targets
  <2> QED BY <2>1, <2>2 DEF IInv
<1> QED BY <1>2, <1>3, <1>4

\* A step of the queue, of its clock, or one that leaves the queue alone.
LEMMA QueueKept ==
    ASSUME AgentInv, [AgentNext]_agent_vars
    PROVE  IInv'
<1>1. CASE QueueStep \/ AgentTick
  BY <1>1, StepKeepsIInv DEF QueueStep, AgentTick, Next, AgentInv
<1>2. CASE ActivationStep \/ Restart \/ UNCHANGED agent_vars
  <2>1. UNCHANGED vars
    BY <1>2 DEF ActivationStep, ClaimActivation, RenewActivation, ReleaseActivation, Restart, agent_vars
  <2> QED BY <2>1, StepKeepsIInv DEF AgentInv
<1>3. CASE MailboxStep
  BY <1>3, MailboxKeepsIInv DEF MailboxStep, AgentInv, LeaseInv
<1> QED BY <1>1, <1>2, <1>3 DEF AgentNext

-----------------------------------------------------------------------------
(***************************************************************************)
(* The activations                                                         *)
(***************************************************************************)

\* A grant appended: the sequence and its last element.
LEMMA Granted ==
    ASSUME NEW s \in Seq(Grant), NEW g \in Grant
    PROVE  /\ Append(s, g) \in Seq(Grant) /\ Len(Append(s, g)) = Len(s) + 1
           /\ Append(s, g) # << >> /\ Append(s, g)[Len(s) + 1] = g
           /\ \A i \in 1 .. Len(s) : Append(s, g)[i] = s[i]
           /\ Len(s) \in Nat
OBVIOUS

\* A claim: the ordinal it gets is above all granted since the last release.
LEMMA ClaimKeeps ==
    ASSUME LeaseInv, NEW h \in Workers, NEW a \in Agents, NEW l \in LeaseMs, ClaimActivation(h, a, l)
    PROVE  LeaseInv'
<1> DEFINE f == next_fencing(a)
           lease == [owner |-> h, fencing |-> f, expires_in |-> l]
           g == [owner |-> h, fencing |-> f]
<1>1. f \in Nat \ {0} /\ (activation[a] # None => f = activation[a].fencing + 1)
  BY DEF next_fencing, LeaseInv, LeaseTyped, ActivationLease
<1>2. l \in Nat
  BY QueueAssumption
<1> HIDE DEF f
<1>3. lease \in ActivationLease /\ g \in Grant
  BY <1>1, <1>2 DEF ActivationLease, Grant
<1>4. /\ activation' = [activation EXCEPT ![a] = lease]
      /\ lease_file' = [lease_file EXCEPT ![a] = lease]
      /\ granted' = [granted EXCEPT ![a] = Append(granted[a], g)]
      /\ released' = released /\ Len(granted[a]) < MaxGrants
  BY DEF ClaimActivation, StoreLease, f
<1>5. /\ Append(granted[a], g) \in Seq(Grant) /\ Len(Append(granted[a], g)) = Len(granted[a]) + 1
      /\ Append(granted[a], g) # << >> /\ Append(granted[a], g)[Len(granted[a]) + 1] = g
      /\ \A i \in 1 .. Len(granted[a]) : Append(granted[a], g)[i] = granted[a][i]
      /\ Len(granted[a]) \in Nat
  BY <1>3, Granted DEF LeaseInv, LeaseTyped
<1>6. LeaseTyped'
  BY <1>3, <1>4, <1>5 DEF LeaseInv, LeaseTyped
<1>7. lease # None
  BY <1>3 DEF ActivationLease
<1>8. ASSUME NEW b \in Agents PROVE OnDisk(b)' /\ Released(b)' /\ Climbing(b)'
  <2>1. CASE b # a
    <3>1. /\ activation'[b] = activation[b] /\ lease_file'[b] = lease_file[b]
          /\ granted'[b] = granted[b] /\ released'[b] = released[b]
      BY <1>4, <2>1 DEF LeaseInv, LeaseTyped
    <3> QED BY <3>1 DEF LeaseInv, OnDisk, OfLastGrant, Released, Climbing
  <2>2. CASE b = a
    <3>1. /\ activation'[a] = lease /\ lease_file'[a] = lease /\ released'[a] = released[a]
          /\ granted'[a] = Append(granted[a], g)
      BY <1>4 DEF LeaseInv, LeaseTyped
    <3>2. OnDisk(a)' /\ Released(a)'
      BY <1>5, <1>7, <3>1 DEF OnDisk, OfLastGrant, Released
    <3>3. Climbing(a)'
      <4> DEFINE n == Len(granted[a])
      <4> SUFFICES ASSUME NEW i \in 1 .. n + 1, NEW k \in 1 .. n + 1, released[a] < i, i < k
                   PROVE  granted'[a][i].fencing < granted'[a][k].fencing
        BY <1>5, <3>1 DEF Climbing
      <4>1. released[a] \in Nat /\ n \in Nat
        BY <1>5 DEF LeaseInv, LeaseTyped
      <4>2. CASE k # n + 1
        <5>1. i \in 1 .. n /\ k \in 1 .. n
          BY <4>1, <4>2
        <5> QED BY <1>5, <3>1, <5>1 DEF LeaseInv, Climbing
      <4>3. CASE k = n + 1
        <5>1. i \in 1 .. n /\ granted'[a][i] = granted[a][i] /\ granted'[a][k] = g
          BY <1>5, <3>1, <4>1, <4>3
        <5>2. activation[a] # None
          BY <4>1, <5>1 DEF LeaseInv, Released
        <5>3. granted[a][n].fencing = activation[a].fencing /\ activation[a].fencing \in Nat
          <6>1. activation[a] \in ActivationLease /\ OfLastGrant(a, activation[a])
            BY <5>2 DEF LeaseInv, LeaseTyped, OnDisk
          <6> QED BY <6>1 DEF OfLastGrant, ActivationLease
        <5>4. granted[a][i].fencing \in Nat
          <6>1. granted[a] \in Seq(Grant)
            BY DEF LeaseInv, LeaseTyped
          <6>2. granted[a][i] \in Grant
            BY <5>1, <6>1
          <6> QED BY <6>2 DEF Grant
        <5>5. granted[a][i].fencing <= granted[a][n].fencing
          <6>1. CASE i = n
            BY <5>3, <6>1
          <6>2. CASE i # n
            <7>1. i < n /\ n \in 1 .. n
              BY <4>1, <5>1, <6>2
            <7> QED BY <5>1, <5>3, <5>4, <7>1 DEF LeaseInv, Climbing
          <6> QED BY <6>1, <6>2
        <5> QED BY <1>1, <5>1, <5>2, <5>3, <5>4, <5>5
      <4> QED BY <4>2, <4>3
    <3> QED BY <2>2, <3>2, <3>3
  <2> QED BY <2>1, <2>2
<1> QED BY <1>6, <1>8 DEF LeaseInv

\* A renewal changes the time that is left only.
LEMMA RenewKeeps ==
    ASSUME LeaseInv, NEW a \in Agents, NEW i, NEW l \in LeaseMs, RenewActivation(a, i, l)
    PROVE  LeaseInv'
<1> DEFINE lease == [activation[a] EXCEPT !.expires_in = l]
<1>1. activation[a] \in ActivationLease /\ activation[a] # None /\ l \in Nat
  BY QueueAssumption DEF RenewActivation, HoldsActivation, LeaseInv, LeaseTyped
<1>2. /\ lease \in ActivationLease /\ lease.owner = activation[a].owner
      /\ lease.fencing = activation[a].fencing
  BY <1>1 DEF ActivationLease
<1>3. /\ activation' = [activation EXCEPT ![a] = lease]
      /\ lease_file' = [lease_file EXCEPT ![a] = lease]
      /\ granted' = granted /\ released' = released
  BY DEF RenewActivation, StoreLease
<1> HIDE DEF lease
<1>4. LeaseTyped'
  BY <1>2, <1>3 DEF LeaseInv, LeaseTyped
<1>5. ASSUME NEW b \in Agents PROVE OnDisk(b)' /\ Released(b)' /\ Climbing(b)'
  <2>1. Climbing(b)'
    BY <1>3 DEF LeaseInv, Climbing
  <2>2. CASE b # a
    <3>1. activation'[b] = activation[b] /\ lease_file'[b] = lease_file[b]
      BY <1>3, <2>2 DEF LeaseInv, LeaseTyped
    <3> QED BY <1>3, <2>1, <3>1 DEF LeaseInv, OnDisk, OfLastGrant, Released
  <2>3. CASE b = a
    <3>1. activation'[a] = lease /\ lease_file'[a] = lease /\ lease # None
      BY <1>2, <1>3 DEF LeaseInv, LeaseTyped, ActivationLease
    <3>2. OfLastGrant(a, activation[a])
      BY <1>1 DEF LeaseInv, OnDisk
    <3> QED BY <1>2, <1>3, <2>1, <2>3, <3>1, <3>2 DEF OnDisk, OfLastGrant, Released
  <2> QED BY <2>2, <2>3
<1> QED BY <1>4, <1>5 DEF LeaseInv

\* A release forgets the lease, and maybe its file.
LEMMA ReleaseKeeps ==
    ASSUME LeaseInv, NEW a \in Agents, NEW i, ReleaseActivation(a, i)
    PROVE  LeaseInv'
<1>1. /\ activation' = [activation EXCEPT ![a] = None]
      /\ lease_file' = [lease_file EXCEPT ![a] = None] \/ lease_file' = lease_file
      /\ granted' = granted /\ released' = [released EXCEPT ![a] = Len(granted[a])]
  BY DEF ReleaseActivation
<1>2. Len(granted[a]) \in 0 .. MaxGrants
  BY DEF LeaseInv, LeaseTyped
<1>3. LeaseTyped'
  BY <1>1, <1>2 DEF LeaseInv, LeaseTyped
<1>4. ASSUME NEW b \in Agents PROVE OnDisk(b)' /\ Released(b)' /\ Climbing(b)'
  <2>1. CASE b # a
    <3>1. activation'[b] = activation[b] /\ lease_file'[b] = lease_file[b] /\ released'[b] = released[b]
      BY <1>1, <2>1 DEF LeaseInv, LeaseTyped
    <3> QED BY <1>1, <3>1 DEF LeaseInv, OnDisk, OfLastGrant, Released, Climbing
  <2>2. CASE b = a
    <3>1. activation'[a] = None /\ lease_file'[a] \in {None, lease_file[a]}
          /\ released'[a] = Len(granted[a])
      BY <1>1 DEF LeaseInv, LeaseTyped
    <3>2. OnDisk(a)' /\ Released(a)'
      BY <1>1, <3>1 DEF LeaseInv, OnDisk, OfLastGrant, Released
    <3>3. Climbing(a)'
      BY <1>1, <1>2, <3>1 DEF Climbing
    <3> QED BY <2>2, <3>2, <3>3
  <2> QED BY <2>1, <2>2
<1> QED BY <1>3, <1>4 DEF LeaseInv

\* A restart brings back what the files hold: the last grant, if anything.
LEMMA RestartKeeps ==
    ASSUME LeaseInv, Restart
    PROVE  LeaseInv'
BY DEF Restart, LeaseInv, LeaseTyped, OnDisk, OfLastGrant, Released, Climbing

\* Time runs the same for the index and the file.
LEMMA TickKeeps ==
    ASSUME LeaseInv, AgentTick
    PROVE  LeaseInv'
<1>1. ASSUME NEW lease \in ActivationLease \cup {None}
      PROVE  /\ ElapseActivation(lease) \in ActivationLease \cup {None}
             /\ ElapseActivation(lease) = None <=> lease = None
             /\ lease # None => /\ ElapseActivation(lease).owner = lease.owner
                                /\ ElapseActivation(lease).fencing = lease.fencing
  <2>1. CASE lease = None
    BY <2>1 DEF ElapseActivation
  <2>2. CASE lease # None
    <3>1. lease \in ActivationLease
      BY <2>2
    <3>2. Down(lease.expires_in) \in Nat
      BY <3>1, NoneAssumption DEF ActivationLease, Down
    <3> QED BY <2>2, <3>1, <3>2 DEF ElapseActivation, ActivationLease
  <2> QED BY <2>1, <2>2
<1>2. \A a \in Agents : /\ activation'[a] = ElapseActivation(activation[a])
                        /\ lease_file'[a] = ElapseActivation(lease_file[a])
                        /\ activation[a] \in ActivationLease \cup {None}
                        /\ lease_file[a] \in ActivationLease \cup {None}
  BY DEF AgentTick, LeaseInv, LeaseTyped
<1>3. granted' = granted /\ released' = released
  BY DEF AgentTick
<1>4. LeaseTyped'
  BY <1>1, <1>2, <1>3 DEF AgentTick, LeaseInv, LeaseTyped
<1>5. ASSUME NEW a \in Agents PROVE OnDisk(a)' /\ Released(a)' /\ Climbing(a)'
  BY <1>1, <1>2, <1>3 DEF LeaseInv, OnDisk, OfLastGrant, Released, Climbing
<1> QED BY <1>4, <1>5 DEF LeaseInv

\* Every step keeps the queue and the activations as they must be.
LEMMA AgentInductive == AgentSpec => []AgentInv
<1>1. AgentInit => AgentInv
  <2> SUFFICES ASSUME AgentInit PROVE AgentInv
    OBVIOUS
  <2>1. IInv
    BY InitSound DEF AgentInit
  <2>2. LeaseInv
    BY DEF AgentInit, LeaseInv, LeaseTyped, OnDisk, Released, Climbing
  <2> QED BY <2>1, <2>2 DEF AgentInv
<1>2. AgentInv /\ [AgentNext]_agent_vars => AgentInv'
  <2> SUFFICES ASSUME AgentInv, [AgentNext]_agent_vars PROVE AgentInv'
    OBVIOUS
  <2>1. IInv'
    BY QueueKept
  <2>2. CASE QueueStep \/ MailboxStep \/ UNCHANGED agent_vars
    <3>1. UNCHANGED mailbox_vars
      BY <2>2 DEF QueueStep, MailboxStep, ClaimAgentTask, ClaimAgentNothing, CancelAgentTasks, agent_vars
    <3> QED
      BY <2>1, <3>1 DEF mailbox_vars, AgentInv, LeaseInv, LeaseTyped, OnDisk, OfLastGrant, Released, Climbing
  <2>3. CASE ActivationStep
    BY <2>1, <2>3, ClaimKeeps, RenewKeeps, ReleaseKeeps DEF ActivationStep, AgentInv
  <2>4. CASE AgentTick
    BY <2>1, <2>4, TickKeeps DEF AgentInv
  <2>5. CASE Restart
    BY <2>1, <2>5, RestartKeeps DEF AgentInv
  <2> QED BY <2>2, <2>3, <2>4, <2>5 DEF AgentNext
<1> QED BY <1>1, <1>2, PTL DEF AgentSpec

-----------------------------------------------------------------------------
(***************************************************************************)
(* The theorems                                                            *)
(***************************************************************************)

\* The fencing ordinals: of the activations granted since the last release only the
\* latest passes the lease guard, for every order of late and repeated requests.
THEOREM Fencing == AgentSpec => []StolenGrantRejected
<1>1. AgentInv => StolenGrantRejected
  <2> SUFFICES ASSUME AgentInv PROVE StolenGrantRejected
    OBVIOUS
  <2>1. AgentTypeOK
    <3>1. TypeOK
      BY DEF AgentInv, IInv, TypeOK, SoundRecords
    <3>2. \A a \in Agents : activation[a] # None =>
             /\ lease_file[a] = activation[a]
             /\ granted[a] # << >>
             /\ granted[a][Len(granted[a])]
                   = [owner |-> activation[a].owner, fencing |-> activation[a].fencing]
      BY DEF AgentInv, LeaseInv, OnDisk, OfLastGrant
    <3> QED BY <3>1, <3>2 DEF AgentTypeOK, AgentInv, LeaseInv, LeaseTyped
  <2>2. ASSUME NEW a \in Agents, NEW i \in 1 .. Len(granted[a]), HoldsActivation(a, i)
        PROVE  i = Len(granted[a]) \/ i <= released[a]
    <3> DEFINE n == Len(granted[a])
    <3>1. n \in Nat /\ released[a] \in Nat /\ granted[a] \in Seq(Grant)
      BY DEF AgentInv, LeaseInv, LeaseTyped
    <3>2. granted[a][n].fencing = granted[a][i].fencing
      <4>1. activation[a] # None /\ activation[a].fencing = granted[a][i].fencing
        BY <2>2 DEF HoldsActivation, held_by
      <4>2. OfLastGrant(a, activation[a])
        BY <4>1 DEF AgentInv, LeaseInv, OnDisk
      <4> QED BY <4>1, <4>2 DEF OfLastGrant
    <3>3. granted[a][i].fencing \in Nat
      <4>1. granted[a][i] \in Grant
        BY <3>1
      <4> QED BY <4>1 DEF Grant
    <3>4. ~(released[a] < i /\ i < n)
      <4> SUFFICES ASSUME released[a] < i, i < n PROVE FALSE
        OBVIOUS
      <4>1. granted[a][i].fencing < granted[a][n].fencing
        BY <3>1 DEF AgentInv, LeaseInv, Climbing
      <4> QED BY <3>2, <3>3, <4>1
    <3> QED BY <3>1, <3>4
  <2> QED BY <2>1, <2>2 DEF StolenGrantRejected
<1> QED BY <1>1, AgentInductive, PTL

\* The agents leave the queue sound: with activations and mailboxes on top, every record
\* still agrees with its status and nothing that must not be repeated is.
THEOREM QueueSoundBelow == AgentSpec => [](Coherent /\ RetryGates)
<1>1. AgentInv => Coherent /\ RetryGates
  BY DEF AgentInv, IInv, SoundRecords, Sound, Coherent, RetryGates, Present
<1> QED BY <1>1, AgentInductive, PTL

\* claim_agent, release and restart: a live activation keeps its owner and ordinal, and a
\* lapsed one comes back only as a new grant.
THEOREM ExclusiveActivation == AgentSpec => ActivationExclusive
<1> DEFINE Keeps(a) ==
      (activation[a] # None /\ activation'[a] # None) =>
         /\ activation[a].expires_in > 0 =>
               /\ activation'[a].owner = activation[a].owner
               /\ activation'[a].fencing = activation[a].fencing
         /\ (activation[a].expires_in = 0 /\ activation'[a].expires_in > 0) =>
               Len(granted'[a]) > Len(granted[a])
<1>1. AgentInv /\ [AgentNext]_agent_vars => \A a \in Agents : Keeps(a)
  <2> SUFFICES ASSUME AgentInv, [AgentNext]_agent_vars, NEW a \in Agents,
                      activation[a] # None, activation'[a] # None
               PROVE  Keeps(a)
    OBVIOUS
  <2>1. activation[a] \in ActivationLease /\ activation[a].expires_in \in Nat
    BY DEF AgentInv, LeaseInv, LeaseTyped, ActivationLease
  <2>2. CASE activation'[a] = activation[a]
    BY <2>1, <2>2
  <2>3. CASE QueueStep \/ MailboxStep \/ UNCHANGED agent_vars
    <3>1. UNCHANGED mailbox_vars
      BY <2>3 DEF QueueStep, MailboxStep, ClaimAgentTask, ClaimAgentNothing, CancelAgentTasks, agent_vars
    <3> QED BY <2>2, <3>1 DEF mailbox_vars
  <2>4. ASSUME NEW b \in Agents, NEW h \in Workers, NEW l \in LeaseMs, ClaimActivation(h, b, l)
        PROVE  Keeps(a)
    <3>1. CASE b # a
      BY <2>2, <2>4, <3>1 DEF ClaimActivation, StoreLease, AgentInv, LeaseInv, LeaseTyped
    <3>2. CASE b = a
      <4>1. activation[a].expires_in = 0
        BY <2>4, <3>2 DEF ClaimActivation, activation_free
      <4>2. granted' = [granted EXCEPT ![a] = Append(granted[a], [owner |-> h, fencing |-> next_fencing(a)])]
        BY <2>4, <3>2 DEF ClaimActivation
      <4>3. granted \in [Agents -> Seq(Grant)]
        BY DEF AgentInv, LeaseInv, LeaseTyped
      <4>4. next_fencing(a) \in Nat \ {0}
        BY DEF next_fencing, AgentInv, LeaseInv, LeaseTyped, ActivationLease
      <4>5. [owner |-> h, fencing |-> next_fencing(a)] \in Grant
        BY <4>4 DEF Grant
      <4>6. Len(granted'[a]) = Len(granted[a]) + 1 /\ Len(granted[a]) \in Nat
        BY <4>2, <4>3, <4>5, Granted
      <4> QED BY <4>1, <4>6
    <3> QED BY <3>1, <3>2
  <2>5. ASSUME NEW b \in Agents, NEW i, NEW l \in LeaseMs, RenewActivation(b, i, l)
        PROVE  Keeps(a)
    <3>1. CASE b # a
      BY <2>2, <2>5, <3>1 DEF RenewActivation, StoreLease, AgentInv, LeaseInv, LeaseTyped
    <3>2. CASE b = a
      <4>1. activation[a].expires_in > 0
        BY <2>5, <3>2 DEF RenewActivation, HoldsActivation, held_by
      <4>2. activation'[a] = [activation[a] EXCEPT !.expires_in = l]
        BY <2>5, <3>2 DEF RenewActivation, StoreLease, AgentInv, LeaseInv, LeaseTyped
      <4> QED BY <2>1, <4>1, <4>2 DEF ActivationLease
    <3> QED BY <3>1, <3>2
  <2>6. ASSUME NEW b \in Agents, NEW i, ReleaseActivation(b, i)
        PROVE  Keeps(a)
    <3>1. activation'[a] = activation[a]
      BY <2>6 DEF ReleaseActivation, AgentInv, LeaseInv, LeaseTyped
    <3> QED BY <2>2, <3>1
  <2>7. CASE AgentTick
    <3>1. activation'[a] = ElapseActivation(activation[a])
      BY <2>7 DEF AgentTick
    <3>2. activation'[a] = [activation[a] EXCEPT !.expires_in = Down(activation[a].expires_in)]
      BY <3>1 DEF ElapseActivation
    <3>3. activation[a].expires_in = 0 => Down(activation[a].expires_in) = 0
      BY DEF Down
    <3> QED BY <2>1, <3>2, <3>3 DEF ActivationLease
  <2>8. CASE Restart
    BY <2>2, <2>8 DEF Restart, AgentInv, LeaseInv, OnDisk
  <2> QED BY <2>3, <2>4, <2>5, <2>6, <2>7, <2>8 DEF AgentNext, ActivationStep
<1>2. AgentSpec => [][\A a \in Agents : Keeps(a)]_agent_vars
  BY <1>1, AgentInductive, PTL DEF AgentSpec
<1> QED BY <1>2, PTL DEF ActivationExclusive

\* All that moves a record without claiming it leaves its attempt and its address alone.
LEMMA AttemptKept ==
    ASSUME NEW t \in Record
    PROVE  /\ apply_cancellation(t).attempt = t.attempt /\ apply_cancellation(t).new = t.new
           /\ cancel(t).attempt = t.attempt
           /\ complete(t).attempt = t.attempt
           /\ redrive(t).attempt = t.attempt
           /\ Elapse(t).attempt = t.attempt
           /\ \A l : renew_lease(t, l).attempt = t.attempt
BY DEF apply_cancellation, cancel, complete, redrive, Elapse, renew_lease, Record

\* A swept record keeps its attempt and its address.
LEMMA SweepKeeps ==
    ASSUME IInv, NEW id \in TaskIds, tasks[id] # NoTask
    PROVE  /\ finalize_due(tasks)[id] # NoTask
           /\ finalize_due(tasks)[id].attempt = tasks[id].attempt
           /\ finalize_due(tasks)[id].new = tasks[id].new
<1>1. Sound(tasks[id])
  BY SlotSound
<1>2. CASE cancellation_due(tasks[id])
  <2>1. finalize_due(tasks)[id] = apply_cancellation(tasks[id])
    BY <1>2 DEF finalize_due
  <2> QED BY <1>1, <2>1, AttemptKept, CancellationSound, NoTaskIsNoRecord DEF Sound
<1>3. CASE ~cancellation_due(tasks[id])
  BY <1>3 DEF finalize_due
<1> QED BY <1>2, <1>3

\* No step of the queue proper starts an attempt of a message.
LEMMA MessagesNotPooled ==
    ASSUME IInv, Next, NEW id \in TaskIds, tasks[id] # NoTask, tasks[id].new.recipient # None
    PROVE  tasks'[id].attempt = tasks[id].attempt
<1>0. tasks[id] \in Record /\ tasks \in [TaskIds -> SoundRecords \cup {NoTask}]
  BY SlotSound DEF Sound, IInv
<1> DEFINE Goal == tasks'[id].attempt = tasks[id].attempt
           swept == finalize_due(tasks)
<1>s. swept[id] # NoTask /\ swept[id].attempt = tasks[id].attempt /\ swept[id].new = tasks[id].new
      /\ DOMAIN swept = TaskIds
  BY SweepKeeps DEF finalize_due
<1>1. ASSUME NEW i \in TaskIds, NEW t, enqueue_locked(i, t) PROVE Goal
  <2>1. i # id
    BY <1>1 DEF enqueue_locked
  <2> QED BY <1>1, <2>1 DEF enqueue_locked
<1>2. ASSUME NEW w, NEW pools, NEW version, NEW l, ClaimTask(w, pools, version, l) PROVE Goal
  <2>1. PICK i \in claim_candidates(swept, pools, version) :
           tasks' = [swept EXCEPT ![i] = claim(swept[i], w, l)]
    BY <1>2 DEF ClaimTask
  <2>2. i # id
    BY <1>s, <2>1 DEF claim_candidates
  <2> QED BY <1>s, <2>1, <2>2
<1>3. ASSUME NEW w, NEW pools, NEW version, ClaimNothing(w, pools, version) PROVE Goal
  BY <1>3, <1>s DEF ClaimNothing
<1>4. ASSUME NEW i \in TaskIds, NEW u, u.attempt = tasks[i].attempt,
             tasks' = [tasks EXCEPT ![i] = u]
      PROVE  Goal
  BY <1>0, <1>4
<1>r. \A i \in TaskIds : tasks[i] # NoTask => tasks[i] \in Record
  BY <1>0 DEF SoundRecords
<1>5. ASSUME NEW w, NEW i \in TaskIds, NEW l, HeartbeatTask(w, i, l) PROVE Goal
  <2>1. renew_lease(tasks[i], l).attempt = tasks[i].attempt
    BY <1>5, <1>r, AttemptKept DEF HeartbeatTask, LeaseGuard
  <2> QED BY <1>4, <1>5, <2>1 DEF HeartbeatTask
<1>6. ASSUME NEW w, NEW i \in TaskIds, CompleteTask(w, i) PROVE Goal
  <2>1. complete(tasks[i]).attempt = tasks[i].attempt
    BY <1>6, <1>r, AttemptKept DEF CompleteTask, LeaseGuard
  <2> QED BY <1>4, <1>6, <2>1 DEF CompleteTask
<1>7. ASSUME NEW w, NEW i \in TaskIds, NEW class, NEW retryable, NEW s,
             FailTask(w, i, class, retryable, s)
      PROVE  Goal
  <2>1. tasks[i] \in Record
    BY <1>7, <1>r DEF FailTask, LeaseGuard
  <2>2. PICK u \in fail(tasks[i], class, retryable,
                        resolve_retry_parameters(s, tasks[i].new.max_attempts)) :
           tasks' = [tasks EXCEPT ![i] = u]
    BY <1>7 DEF FailTask
  <2>3. u.attempt = tasks[i].attempt
    BY <2>1, <2>2, FailFields
  <2> QED BY <1>4, <2>2, <2>3
<1>8. ASSUME NEW i \in TaskIds, CancelTask(i) PROVE Goal
  <2>1. cancel(tasks[i]).attempt = tasks[i].attempt
    BY <1>8, <1>r, AttemptKept DEF CancelTask
  <2> QED BY <1>4, <1>8, <2>1 DEF CancelTask
<1>9. ASSUME NEW run, CancelRunTasks(run) PROVE Goal
  <2>1. tasks'[id] = cancel(tasks[id]) \/ tasks'[id] = tasks[id]
    BY <1>9 DEF CancelRunTasks
  <2> QED BY <1>0, <2>1, AttemptKept
<1>10. ASSUME NEW i \in TaskIds, RedriveTask(i) PROVE Goal
  <2>1. redrive(tasks[i]).attempt = tasks[i].attempt
    BY <1>10, <1>r, AttemptKept DEF RedriveTask
  <2> QED BY <1>4, <1>10, <2>1 DEF RedriveTask
<1>11. ASSUME NEW w, StopWorker(w) PROVE Goal
  BY <1>11 DEF StopWorker
<1>12. CASE Tick
  BY <1>0, <1>12, AttemptKept DEF Tick
<1> HIDE DEF Goal
<1> QED
  BY <1>1, <1>2, <1>3, <1>5, <1>6, <1>7, <1>8, <1>9, <1>10, <1>11, <1>12
  DEF Next, Operation, Claim, Settle, Enqueue, DeadLetterTask, Goal

\* claim_agent_task: a message is attempted only by the host whose activation is live,
\* while no other turn of the agent is, and by no pool claim.
THEOREM FencedTurns == AgentSpec => TurnsFenced
<1> DEFINE Turn(a, id) ==
      tasks'[id].attempt > tasks[id].attempt =>
         /\ activation[a] # None
         /\ activation[a].expires_in > 0
         /\ tasks'[id].lease.owner = activation[a].owner
         /\ \A other \in Mailbox(tasks', a) : lease_live(tasks'[other]) => other = id
<1>1. AgentInv /\ [AgentNext]_agent_vars => \A a \in Agents : \A id \in Mailbox(tasks, a) : Turn(a, id)
  <2> SUFFICES ASSUME AgentInv, [AgentNext]_agent_vars, NEW a \in Agents, NEW id \in Mailbox(tasks, a)
               PROVE  Turn(a, id)
    OBVIOUS
  <2>1. id \in TaskIds /\ tasks[id] # NoTask /\ tasks[id].new.recipient = MailboxOf[a]
        /\ tasks[id].new.recipient # None
    BY DEF Mailbox
  <2>2. tasks[id] \in Record /\ tasks[id].attempt \in Nat
    <3>1. tasks[id] \in Record
      BY <2>1, SlotSound DEF AgentInv, Sound
    <3> QED BY <3>1 DEF Record
  <2>3. CASE tasks'[id].attempt = tasks[id].attempt
    BY <2>2, <2>3
  <2>4. CASE QueueStep \/ AgentTick
    <3>1. Next
      BY <2>4 DEF QueueStep, AgentTick, Next
    <3> QED BY <2>1, <2>3, <3>1, MessagesNotPooled DEF AgentInv
  <2>5. CASE ActivationStep \/ Restart \/ UNCHANGED agent_vars
    <3>1. UNCHANGED vars
      BY <2>5 DEF ActivationStep, ClaimActivation, RenewActivation, ReleaseActivation, Restart, agent_vars
    <3> QED BY <2>3, <3>1 DEF vars
  <2> DEFINE swept == finalize_due(tasks)
  <2>6. swept[id] # NoTask /\ swept[id].attempt = tasks[id].attempt /\ swept[id].new = tasks[id].new
        /\ DOMAIN swept = TaskIds
    BY <2>1, SweepKeeps DEF AgentInv, finalize_due
  <2>7. ASSUME NEW b \in Agents, NEW i, ClaimAgentNothing(b, i) PROVE Turn(a, id)
    BY <2>3, <2>6, <2>7 DEF ClaimAgentNothing
  <2>8. ASSUME NEW b \in Agents, CancelAgentTasks(b) PROVE Turn(a, id)
    <3>1. tasks'[id] = cancel(tasks[id]) \/ tasks'[id] = tasks[id]
      BY <2>1, <2>8 DEF CancelAgentTasks
    <3> QED BY <2>2, <2>3, <3>1, AttemptKept
  <2>9. ASSUME NEW b \in Agents, NEW i, NEW l, ClaimAgentTask(b, i, l) PROVE Turn(a, id)
    <3>1. /\ HoldsActivation(b, i) /\ ~turn_in_flight(swept, b)
      BY <2>9 DEF ClaimAgentTask
    <3>2. PICK c \in mailbox_candidates(swept, b) :
             tasks' = [swept EXCEPT ![c] = claim(swept[c], granted[b][i].owner, l)]
      BY <2>9 DEF ClaimAgentTask
    <3>3. c \in TaskIds /\ swept[c] # NoTask /\ swept[c].new.recipient = MailboxOf[b]
      BY <3>2 DEF mailbox_candidates, Mailbox
    <3> HIDE DEF swept
    <3>4. CASE c # id
      <4>1. tasks'[id] = swept[id]
        BY <2>1, <2>6, <3>2, <3>4
      <4>2. tasks'[id].attempt = tasks[id].attempt
        BY <2>6, <4>1
      <4> QED BY <2>3, <4>2
    <3>5. CASE c = id
      <4>1. a = b
        BY <2>1, <2>6, <3>3, <3>5
      <4>2. activation[a] # None /\ activation[a].expires_in > 0
            /\ activation[a].owner = granted[a][i].owner
        BY <3>1, <4>1 DEF HoldsActivation, held_by
      <4>3. swept[id] \in Record
        <5>1. swept \in [TaskIds -> SoundRecords \cup {NoTask}]
          BY SweepSound DEF AgentInv, swept
        <5> QED BY <2>1, <2>6, <5>1 DEF SoundRecords
      <4>4. tasks'[id] = claim(swept[id], granted[a][i].owner, l)
        BY <2>1, <2>6, <3>2, <3>5, <4>1
      <4>5. tasks'[id].lease.owner = granted[a][i].owner
        BY <4>3, <4>4 DEF claim, Record
      <4>6. ASSUME NEW other \in Mailbox(tasks', a), lease_live(tasks'[other]), other # id
            PROVE  FALSE
        <5>1. tasks'[other] = swept[other] /\ other \in TaskIds
          BY <2>6, <3>2, <3>5, <4>6 DEF Mailbox
        <5>2. other \in Mailbox(swept, a)
          BY <4>6, <5>1 DEF Mailbox
        <5> QED BY <3>1, <4>1, <4>6, <5>1, <5>2 DEF turn_in_flight
      <4> QED BY <4>2, <4>5, <4>6
    <3> QED BY <3>4, <3>5
  <2> HIDE DEF Turn
  <2> QED BY <2>4, <2>5, <2>7, <2>8, <2>9 DEF AgentNext, MailboxStep
<1>2. AgentSpec => [][\A a \in Agents : \A id \in Mailbox(tasks, a) : Turn(a, id)]_agent_vars
  BY <1>1, AgentInductive, PTL DEF AgentSpec
<1> QED BY <1>2, PTL DEF TurnsFenced
=============================================================================
