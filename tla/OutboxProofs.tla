------------------------------ MODULE OutboxProofs ------------------------------
(***************************************************************************)
(* Invariance proofs for Outbox, for any set of rows and keys, any batch   *)
(* limit and any number of crashes and failed writes.                      *)
(*                                                                         *)
(* What the properties leave unsaid and the induction needs: a relay about *)
(* to mark a row has put its task in the queue (RelayHonest), a writer past *)
(* its rows has written them all (WriterHonest), and a key never has two   *)
(* tasks nor a task that runs again (KeyedSingle).                         *)
(***************************************************************************)
EXTENDS Outbox, WellFoundedInduction, FiniteSetTheorems, TLAPS

Accounted ==
    \A r \in Rows : /\ submit[r] = "accepted" => row[r] = "pending" \/ InQueue(r)
                    /\ row[r] = "published" => InQueue(r)

RelayHonest == relay.pc = "mark" => \A r \in Rows : IsOldest(r, relay.todo) => InQueue(r)

WriterHonest ==
    checkpoint \/ writer = "checkpoint" => \A r \in CheckpointRows : row[r] # "none"

KeyedSingle ==
    /\ \A r, s \in Rows : /\ KeyOf[r] # None /\ KeyOf[r] = KeyOf[s]
                          /\ task[r] # "none" /\ task[s] # "none"
                          => r = s
    /\ \A r \in Rows : /\ executed[r] > 0 => task[r] # "none"
                       /\ KeyOf[r] # None /\ executed[r] > 0 =>
                             task[r] = "settled" /\ executed[r] = 1

IInv == TypeOK /\ Accounted /\ RelayHonest /\ WriterHonest /\ KeyedSingle

USE OutboxAssumption

-----------------------------------------------------------------------------
(***************************************************************************)
(* The operators of the model                                              *)
(***************************************************************************)

\* A set of naturals that is not empty has a least member.
LEMMA LeastNatural ==
    ASSUME NEW S \in SUBSET Nat, S # {}
    PROVE  \E m \in S : \A n \in S : m <= n
<1>1. PICK m \in S : \A n \in S : <<n, m>> \notin OpToRel(<, Nat)
  BY NatLessThanWellFounded, WFMin
<1>2. \A n \in S : ~(n < m)
  BY <1>1 DEF OpToRel
<1> QED BY <1>2

\* A pass over pending rows has a row to publish: the oldest is in every batch.
LEMMA BatchNonEmpty == Pending # {} => Batch # {}
<1> SUFFICES ASSUME Pending # {} PROVE Batch # {}
  OBVIOUS
<1>1. Pending \subseteq Nat
  BY DEF Pending
<1>2. PICK m \in Pending : \A n \in Pending : m <= n
  BY <1>1, LeastNatural
<1>3. {s \in Pending : s < m} = {}
  <2> SUFFICES ASSUME NEW s \in Pending, s < m PROVE FALSE
    OBVIOUS
  <2> QED BY <1>1, <1>2
<1>4. Cardinality({s \in Pending : s < m}) = 0
  BY <1>3, FS_EmptySet
<1> QED
  BY <1>2, <1>4 DEF Batch

\* enqueue_locked leaves a task for the row, forgets none, and never makes a second
\* task of a key.
LEMMA EnqueueSafe ==
    ASSUME TypeOK, KeyedSingle, NEW r \in Rows, EnqueueLocked(r), UNCHANGED executed
    PROVE  /\ task' \in [Rows -> {"none", "queued", "leased", "settled"}]
           /\ InQueue(r)'
           /\ \A s \in Rows : InQueue(s) => InQueue(s)'
           /\ KeyedSingle'
<1>1. CASE Deduplicated(r)
  BY <1>1 DEF EnqueueLocked, Deduplicated, InQueue, SameTask, TypeOK, KeyedSingle
<1>2. CASE ~Deduplicated(r)
  <2>1. task' = [task EXCEPT ![r] = "queued"]
    BY <1>2 DEF EnqueueLocked
  <2>2. \A s \in Rows : task'[s] = IF s = r THEN "queued" ELSE task[s]
    BY <2>1 DEF TypeOK
  <2>3. KeyOf[r] # None => \A s \in Rows : KeyOf[s] = KeyOf[r] => task[s] = "none"
    BY <1>2 DEF Deduplicated
  <2>4. KeyedSingle'
    BY <2>2, <2>3 DEF KeyedSingle, TypeOK
  <2>5. \A s \in Rows : InQueue(s) => InQueue(s)'
    BY <2>2 DEF InQueue
  <2>6. InQueue(r)'
    BY <2>2 DEF InQueue, SameTask
  <2> QED
    BY <2>1, <2>4, <2>5, <2>6 DEF TypeOK
<1> QED BY <1>1, <1>2

-----------------------------------------------------------------------------
(***************************************************************************)
(* Initial states and steps                                                *)
(***************************************************************************)

LEMMA InitIInv == Init => IInv
<1> SUFFICES ASSUME Init PROVE IInv
  OBVIOUS
<1> USE DEF Init, IdleRelay
<1>1. TypeOK
  <2>1. checkpoint \in BOOLEAN
    BY Zenon
  <2>2. relay \in [pc : {"idle", "enqueue", "mark"}, todo : SUBSET Rows]
        /\ (relay.pc = "idle" <=> relay.todo = {})
    OBVIOUS
  <2>3. executed \in [Rows -> 0 .. 2] /\ faults \in 0 .. MaxFaults
    OBVIOUS
  <2> QED BY <2>1, <2>2, <2>3 DEF TypeOK
<1>2. Accounted /\ RelayHonest /\ WriterHonest
  BY DEF Accounted, RelayHonest, WriterHonest
<1>3. KeyedSingle
  BY DEF KeyedSingle
<1> QED BY <1>1, <1>2, <1>3 DEF IInv

LEMMA NextIInv == IInv /\ [Next]_vars => IInv'
<1> SUFFICES ASSUME IInv, [Next]_vars
             PROVE  IInv'
  OBVIOUS
<1> USE DEF IInv
<1>1. ASSUME NEW r \in Rows, Admit(r)
      PROVE  IInv'
  BY <1>1 DEF Admit, TypeOK, Accounted, RelayHonest, WriterHonest, KeyedSingle, InQueue, IsOldest
<1>2. ASSUME NEW r \in Rows, EnqueueTask(r)
      PROVE  IInv'
  <2>1. /\ task' \in [Rows -> {"none", "queued", "leased", "settled"}]
        /\ InQueue(r)'
        /\ \A s \in Rows : InQueue(s) => InQueue(s)'
        /\ KeyedSingle'
    BY <1>2, EnqueueSafe DEF EnqueueTask
  <2> QED
    BY <1>2, <2>1 DEF EnqueueTask, TypeOK, Accounted, RelayHonest, WriterHonest, IsOldest
<1>3. ASSUME NEW r \in Rows, OutboxEnqueue(r)
      PROVE  IInv'
  BY <1>3 DEF OutboxEnqueue, OutboxFree, TypeOK, Accounted, RelayHonest, WriterHonest,
              KeyedSingle, InQueue, IsOldest
<1>4. CASE WriterAdmit
  BY <1>4 DEF WriterAdmit, TypeOK, Accounted, RelayHonest, WriterHonest, KeyedSingle, InQueue, IsOldest
<1>5. CASE WriterLock
  BY <1>5 DEF WriterLock, TypeOK, Accounted, RelayHonest, WriterHonest, KeyedSingle, InQueue, IsOldest
<1>6. ASSUME NEW r \in Rows, WriterRow(r)
      PROVE  IInv'
  BY <1>6 DEF WriterRow, TypeOK, Accounted, RelayHonest, WriterHonest, KeyedSingle, InQueue, IsOldest
<1>7. CASE WriterRowsDone
  BY <1>7 DEF WriterRowsDone, TypeOK, Accounted, RelayHonest, WriterHonest, KeyedSingle, InQueue, IsOldest
<1>8. CASE WriterCheckpoint
  BY <1>8 DEF WriterCheckpoint, TypeOK, Accounted, RelayHonest, WriterHonest, KeyedSingle, InQueue,
              IsOldest
<1>9. CASE RelayStart
  <2>1. Batch \subseteq Rows /\ Batch # {}
    BY <1>9, BatchNonEmpty DEF RelayStart, Batch, Pending
  <2> QED
    BY <1>9, <2>1 DEF RelayStart, TypeOK, Accounted, RelayHonest, WriterHonest, KeyedSingle, InQueue
<1>10. ASSUME NEW r \in Rows, RelayEnqueue(r)
       PROVE  IInv'
  <2>1. /\ task' \in [Rows -> {"none", "queued", "leased", "settled"}]
        /\ InQueue(r)'
        /\ \A s \in Rows : InQueue(s) => InQueue(s)'
        /\ KeyedSingle'
    BY <1>10, EnqueueSafe DEF RelayEnqueue
  <2>2. \A s \in Rows : IsOldest(s, relay.todo) => s = r
    BY <1>10 DEF RelayEnqueue, IsOldest, TypeOK
  <2>3. relay'.todo = relay.todo /\ relay'.pc = "mark" /\ relay.todo # {}
        /\ relay' \in [pc : {"idle", "enqueue", "mark"}, todo : SUBSET Rows]
    BY <1>10 DEF RelayEnqueue, IsOldest, TypeOK
  <2>4. RelayHonest'
    BY <2>1, <2>2, <2>3 DEF RelayHonest, IsOldest
  <2> QED
    BY <1>10, <2>1, <2>3, <2>4 DEF RelayEnqueue, TypeOK, Accounted, WriterHonest
<1>11. ASSUME NEW r \in Rows, RelayMark(r)
       PROVE  IInv'
  <2>1. InQueue(r)
    BY <1>11 DEF RelayMark, RelayHonest
  <2>2. \A s \in Rows : InQueue(s) <=> InQueue(s)'
    BY <1>11 DEF RelayMark, InQueue
  <2>3. \A s \in Rows : row'[s] = IF s = r THEN "published" ELSE row[s]
    BY <1>11 DEF RelayMark, TypeOK
  <2>4. Accounted' /\ WriterHonest'
    BY <1>11, <2>1, <2>2, <2>3 DEF RelayMark, Accounted, WriterHonest
  <2>5. TypeOK' /\ relay'.pc # "mark"
    BY <1>11 DEF RelayMark, TypeOK, IdleRelay, IsOldest
  <2> QED
    BY <1>11, <2>4, <2>5 DEF RelayMark, RelayHonest, KeyedSingle
<1>12. ASSUME NEW r \in Rows, Claim(r)
       PROVE  IInv'
  BY <1>12 DEF Claim, TasksFree, TypeOK, Accounted, RelayHonest, WriterHonest, KeyedSingle, InQueue
<1>13. ASSUME NEW r \in Rows, Complete(r)
       PROVE  IInv'
  BY <1>13 DEF Complete, TasksFree, TypeOK, Accounted, RelayHonest, WriterHonest, KeyedSingle, InQueue
<1>14. CASE RelayIoError
  BY <1>14 DEF RelayIoError, IdleRelay, TypeOK, Accounted, RelayHonest, WriterHonest, KeyedSingle,
               InQueue
<1>15. CASE WriterIoError
  BY <1>15 DEF WriterIoError, TypeOK, Accounted, RelayHonest, WriterHonest, KeyedSingle, InQueue,
               IsOldest
<1>16. CASE Crash
  BY <1>16 DEF Crash, IdleRelay, TypeOK, Accounted, RelayHonest, WriterHonest, KeyedSingle, InQueue
<1>17. CASE UNCHANGED vars
  BY <1>17 DEF vars, TypeOK, Accounted, RelayHonest, WriterHonest, KeyedSingle, InQueue, IsOldest
<1> QED
  BY <1>1, <1>2, <1>3, <1>4, <1>5, <1>6, <1>7, <1>8, <1>9, <1>10, <1>11, <1>12, <1>13, <1>14,
     <1>15, <1>16, <1>17 DEF Next, WriterStep, RelayStep

LEMMA Inductive == Spec => []IInv
BY InitIInv, NextIInv, PTL DEF Spec

-----------------------------------------------------------------------------
(***************************************************************************)
(* Theorems                                                                *)
(***************************************************************************)

\* However often the server dies or a write fails, and wherever, an accepted
\* submission is in the outbox or in the queue (outbox_publish_pending marks a row
\* only after it enqueued it).
THEOREM SubmissionsKept == Spec => []NothingLost
<1>1. IInv => NothingLost
  BY DEF IInv, Accounted, NothingLost
<1> QED BY Inductive, <1>1, PTL

\* checkpoint_and_enqueue writes every row before the checkpoint, so no failure in
\* between leaves a checkpoint without its rows.
THEOREM CheckpointBacked == Spec => []CheckpointHasRows
<1>1. IInv => CheckpointHasRows
  BY DEF IInv, WriterHonest, CheckpointHasRows
<1> QED BY Inductive, <1>1, PTL

\* enqueue_locked's look at the index makes the execution of a key single, for any
\* number of rows that share it and any number of repeated passes.
THEOREM KeyExecutedOnce == Spec => []KeyedOnce
<1>1. IInv => KeyedOnce
  BY DEF IInv, TypeOK, KeyedSingle, KeyedOnce, SameTask
<1> QED BY Inductive, <1>1, PTL
=============================================================================
