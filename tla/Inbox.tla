-------------------------------- MODULE Inbox --------------------------------
(***************************************************************************)
(* The durable inbox of a run (rusty-core inbox.rs) as operators on one    *)
(* record: the sends not yet settled, the three queues they settle into,   *)
(* the latched cancellation and the snapshot a checkpoint header carries.  *)
(* Every method of Inbox takes its mutex once, so each is one operator.    *)
(* The intake sequence is kept as far as anything reads it: whether it is  *)
(* still zero.  Inbox::replaying, which reads a recorded journal instead   *)
(* of live sends, is left out.                                             *)
(***************************************************************************)
EXTENDS Naturals, FiniteSets, SequencesExt

CONSTANTS
  MaxQueue,   \* InboxBounds: max_steering, max_followups and max_staged
  MaxPending, \* InboxBounds: max_pending
  None

Kinds == {"steering", "followup", "injected"}

\* A message: its content, told apart by a number, and its InboxKind.
Message == [id : Nat, kind : Kinds]

InboxType ==
  [pending : Seq(Message), steering : Seq(Message), followup : Seq(Message),
   injected : Seq(Message), touched : BOOLEAN, cancel : BOOLEAN \cup {None}]

\* InboxSnapshot, and a checkpoint's stamp: a snapshot or none.
InboxSnapshot ==
  [steering : Seq(Message), followup : Seq(Message), injected : Seq(Message),
   pending_delivery : Seq(Message)]
SnapshotType == InboxSnapshot \cup {None}

ASSUME InboxAssumption ==
  /\ MaxQueue \in Nat
  /\ MaxPending \in Nat
  /\ None \notin BOOLEAN
  /\ None \notin InboxSnapshot

\* Inbox::new.  touched stands for next_seq > 0.
FreshInbox ==
  [pending |-> <<>>, steering |-> <<>>, followup |-> <<>>, injected |-> <<>>,
   touched |-> FALSE, cancel |-> None]

\* The elements of s at the positions I, in the order of s.
Pick(s, I) ==
  LET Earlier(i) == {j \in I : j < i}
  IN [k \in 1..Cardinality(I) |-> s[CHOOSE i \in I : Cardinality(Earlier(i)) = k - 1]]

OfKind(s, k) == Pick(s, {i \in DOMAIN s : s[i].kind = k})

\* The occupancy send counts: what is queued and what is still to settle.
Occupied(box, k) == Len(OfKind(box.pending, k)) + Len(box[k])

CanSend(box, k) ==
  /\ Occupied(box, k) < MaxQueue
  /\ Len(box.pending) < MaxPending

Sent(box, m) ==
  [box EXCEPT !.pending = Append(@, m), !.touched = TRUE]

\* Inbox::cancel: the first request wins until the executor takes it.
Cancelled(box, keep) ==
  IF box.cancel = None THEN [box EXCEPT !.cancel = keep] ELSE box

\* settle: every pending message moves to the queue of its kind.
Settled(box) ==
  [box EXCEPT !.pending = <<>>,
              !.steering = @ \o OfKind(box.pending, "steering"),
              !.followup = @ \o OfKind(box.pending, "followup"),
              !.injected = @ \o OfKind(box.pending, "injected")]

\* clear: a cancellation without keep_inbox drops queued and pending alike.
Cleared(box) ==
  [box EXCEPT !.pending = <<>>, !.steering = <<>>, !.followup = <<>>,
              !.injected = <<>>]

\* snapshot: None for an untouched inbox, and never the pending sends.
Snapshot(box, delivery) ==
  IF ~box.touched THEN None
  ELSE [steering |-> box.steering, followup |-> box.followup,
        injected |-> box.injected, pending_delivery |-> delivery]

\* seed: only an inbox that never accepted a send adopts the snapshot.
Seeded(box, snapshot) ==
  IF box.touched \/ snapshot = None THEN box
  ELSE [box EXCEPT !.steering = snapshot.steering,
                   !.followup = snapshot.followup,
                   !.injected = snapshot.injected,
                   !.touched = TRUE]

Queued(box) == ToSet(box.steering) \cup ToSet(box.followup) \cup ToSet(box.injected)

\* The messages a checkpoint's stamp preserves.
Stamped(snapshot) ==
  IF snapshot = None THEN {}
  ELSE ToSet(snapshot.steering) \cup ToSet(snapshot.followup)
         \cup ToSet(snapshot.injected) \cup ToSet(snapshot.pending_delivery)

=============================================================================
