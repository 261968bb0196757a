--------------------------- MODULE CoordinationProofs ---------------------------
(***************************************************************************)
(* Invariance proofs for Coordination, for any number of members and of    *)
(* passes that overlap, any window and any quorum.                         *)
(*                                                                         *)
(* Nothing excludes two passes, so the invariant is about what a pass may  *)
(* rely on although its view is old: a settled task stays as it is, and a  *)
(* submitted member stays submitted (ViewTrue).  The window holds because  *)
(* members are submitted in contract order: the members with a row or a    *)
(* task are a prefix of the contract (Prefix), and the rows a pass has     *)
(* still to write continue that prefix (InOrder) and end where the window  *)
(* does (Room), whatever was submitted since it counted.                   *)
(***************************************************************************)
EXTENDS Coordination, FiniteSetTheorems, WellFoundedInduction, TLAPS

TaskType == [status : Terminal \cup {"open", None}, at : Nat, signalled : BOOLEAN]
JournalType == [start : BOOLEAN, sends : SUBSET Members, receives : SUBSET Members,
                end : OutcomeType \cup {None}]
RecordType == [settled : BOOLEAN, outcome : OutcomeType \cup {None}]
PassType == [pc : {"journal", "tasks", "commit", "latch"}, record : RecordType,
             dirty : BOOLEAN, journal : JournalType, seen : Seq(TaskType),
             cancels : SUBSET Members, dlq : BOOLEAN, rows : SUBSET (Members \cup {Outcome})]

Typed ==
  /\ contract \in Contracts
  /\ tasks \in [1..N -> TaskType]
  /\ \A m \in (1..N) \ Members : tasks[m].status = None
  /\ rows \subseteq Members \cup {Outcome}
  /\ message \in OutcomeType \cup {None}
  /\ dlq \in OutcomeType \cup {None}
  /\ journal \in JournalType
  /\ record \in RecordType \cup {None}
  /\ drive \in [Drives -> PassType \cup {None}]

\* The member has been submitted: its row is pending or its task exists.
Backed(m) == m \in rows \/ tasks[m].status # None

\* A completion is stamped with its place among the settlements.
Clocked ==
  /\ \A m \in Members : tasks[m].status = "completed" => tasks[m].at <= Cardinality(Settled(tasks))
  /\ \A m, l \in Members :
       tasks[m].status = "completed" /\ tasks[l].status = "completed"
         /\ tasks[m].at = tasks[l].at => m = l

\* What a pass has read of a task is what it is or what it was before it settled.
ViewTrue(p) ==
  /\ Len(p.seen) < Cardinality(Members)
  /\ \A i \in DOMAIN p.seen :
       /\ p.seen[i].status # None => tasks[i].status # None
       /\ p.seen[i].status \in Terminal => p.seen[i] = tasks[i]

Unsettled(m) == {l \in 1..m : tasks[l].status \notin Terminal}

InOrder(p) == \A m \in p.rows \cap Members : \A l \in 1..m : Backed(l) \/ l \in p.rows
Room(p) == \A m \in p.rows \cap Members : Cardinality(Unsettled(m)) <= Window

Claimed(p) == \A m \in p.journal.sends : Backed(m) \/ m \in p.rows

Borne(o) == o # None => Justified(o)

PassSound(p) ==
  /\ p.pc # "commit" => p.rows = {}
  /\ p.pc = "commit" => p.seen = <<>>
  /\ Claimed(p)
  /\ ViewTrue(p)
  /\ InOrder(p)
  /\ Room(p)
  /\ Borne(p.journal.end)
  /\ Borne(p.record.outcome)
  /\ p.dlq => /\ contract.pattern = "race"
              /\ p.record.outcome # None => p.record.outcome.status = "failed"

Outstanding == {m \in Members : Backed(m) /\ tasks[m].status \notin Terminal}
WithinWindow == Cardinality(Outstanding) <= Window
Prefix == \A m, l \in Members : Backed(m) /\ l < m => Backed(l)
World == Clocked /\ Prefix /\ WithinWindow

Store ==
  /\ \A m \in journal.sends : Backed(m)
  /\ Borne(message) /\ Borne(dlq) /\ Borne(journal.end)
  /\ record # None => Borne(record.outcome)
  /\ dlq # None => contract.pattern = "race" /\ dlq.status = "failed"

Passes == \A d \in Drives : drive[d] # None => PassSound(drive[d])

IInv == Typed /\ World /\ Store /\ Passes

USE CoordAssumption

-----------------------------------------------------------------------------
(***************************************************************************)
(* Counting                                                                *)
(***************************************************************************)

\* The size of an interval.
LEMMA IntervalCount ==
  ASSUME NEW n \in Nat
  PROVE  /\ IsFiniteSet(1..n) /\ Cardinality(1..n) = n
         /\ IsFiniteSet(0..(n - 1)) /\ Cardinality(0..(n - 1)) = n
<1>1. IsFiniteSet(1..n) /\ Cardinality(1..n) = IF 1 > n THEN 0 ELSE n - 1 + 1
  BY FS_Interval
<1>2. n - 1 \in Int
  OBVIOUS
<1>3. IsFiniteSet(0..(n - 1)) /\ Cardinality(0..(n - 1)) = IF 0 > n - 1 THEN 0 ELSE n - 1 - 0 + 1
  BY <1>2, FS_Interval
<1> QED BY <1>1, <1>3

\* How many members of S have a smaller key than m.
Rank(S, key, m) == Cardinality({o \in S : key[o] < key[m]})
FirstByKey(S, key, k) == {m \in S : Rank(S, key, m) < k}

\* Members with different keys have different ranks, below the size of the set.
LEMMA RankInjective ==
  ASSUME NEW S, IsFiniteSet(S), NEW key \in [S -> Nat],
         \A m, l \in S : key[m] = key[l] => m = l
  PROVE  /\ \A m \in S : Rank(S, key, m) \in 0..(Cardinality(S) - 1)
         /\ \A m, l \in S : Rank(S, key, m) = Rank(S, key, l) => m = l
<1> DEFINE below(m) == {o \in S : key[o] < key[m]}
<1>1. \A m \in S : below(m) \in SUBSET S /\ below(m) # S
  OBVIOUS
<1>2. \A m \in S : IsFiniteSet(below(m)) /\ Cardinality(below(m)) \in Nat
                   /\ Cardinality(below(m)) < Cardinality(S) /\ Cardinality(S) \in Nat
  BY <1>1, FS_Subset, FS_CardinalityType
<1>3. ASSUME NEW m \in S, NEW l \in S, key[m] < key[l]
      PROVE  Cardinality(below(m)) < Cardinality(below(l))
  <2>1. below(m) \in SUBSET below(l) /\ below(m) # below(l)
    BY <1>3
  <2> HIDE DEF below
  <2> QED BY <1>2, <2>1, FS_Subset
<1>4. \A m \in S : Rank(S, key, m) = Cardinality(below(m))
  BY DEF Rank
<1> HIDE DEF below
<1>5. ASSUME NEW m \in S, NEW l \in S, Rank(S, key, m) = Rank(S, key, l)
      PROVE  m = l
  BY <1>2, <1>3, <1>4, <1>5
<1> QED BY <1>2, <1>4, <1>5

\* The k smallest are at most k, and exactly k when there are as many.
LEMMA FirstCount ==
  ASSUME NEW S, IsFiniteSet(S), NEW key \in [S -> Nat],
         \A m, l \in S : key[m] = key[l] => m = l,
         NEW k \in Nat
  PROVE  /\ IsFiniteSet(FirstByKey(S, key, k))
         /\ Cardinality(FirstByKey(S, key, k)) <= k
         /\ k <= Cardinality(S) => Cardinality(FirstByKey(S, key, k)) = k
<1> DEFINE n == Cardinality(S)
           D == FirstByKey(S, key, k)
           r == [m \in S |-> Rank(S, key, m)]
           f == [m \in D |-> Rank(S, key, m)]
<1>1. n \in Nat
  BY FS_CardinalityType
<1>2. D \subseteq S
  BY DEF FirstByKey
<1>3. IsFiniteSet(0..(k - 1)) /\ Cardinality(0..(k - 1)) = k
  BY IntervalCount
<1>4. IsFiniteSet(0..(n - 1)) /\ Cardinality(0..(n - 1)) = n
  BY <1>1, IntervalCount
<1>5. /\ \A m \in S : Rank(S, key, m) \in 0..(n - 1)
      /\ \A m, l \in S : Rank(S, key, m) = Rank(S, key, l) => m = l
  BY RankInjective
<1>6. f \in Injection(D, 0..(k - 1))
  BY <1>1, <1>2, <1>5 DEF Injection, IsInjective, FirstByKey
<1>7. ASSUME k <= n PROVE f \in Surjection(D, 0..(k - 1))
  <2>1. r \in Injection(S, 0..(n - 1))
    BY <1>5 DEF Injection, IsInjective
  <2>2. r \in Surjection(S, 0..(n - 1))
    BY <1>4, <2>1, FS_Injection
  <2>3. \A i \in 0..(n - 1) : \E m \in S : Rank(S, key, m) = i
    BY <2>2 DEF Surjection
  <2>4. \A i \in 0..(k - 1) : \E m \in D : Rank(S, key, m) = i
    BY <1>1, <1>7, <2>3 DEF FirstByKey
  <2> QED BY <1>6, <2>4 DEF Surjection, Injection
<1> HIDE DEF n, D, r, f
<1>8. IsFiniteSet(D) /\ Cardinality(D) <= k /\ (k <= n => Cardinality(D) = k)
  BY <1>3, <1>6, <1>7, FS_Injection
<1> QED BY <1>8 DEF D, n

\* The members are the first of the numbers up to N.
LEMMA MembersFirst ==
  ASSUME contract \in Contracts
  PROVE  /\ Members \subseteq 1..N /\ 1 \in Members
         /\ IsFiniteSet(Members)
         /\ Cardinality(Members) \in 1..N
         /\ Members = 1..Cardinality(Members)
<1>1. CASE contract.pattern = "delegate"
  <2>1. Members = 1..1
    BY <1>1 DEF Members
  <2>2. Cardinality(1..1) = 1 /\ IsFiniteSet(1..1)
    BY IntervalCount
  <2> QED BY <2>1, <2>2
<1>2. CASE contract.pattern # "delegate"
  <2>1. Members = 1..N
    BY <1>2 DEF Members
  <2>2. Cardinality(1..N) = N /\ IsFiniteSet(1..N)
    BY IntervalCount
  <2> QED BY <2>1, <2>2
<1> QED BY <1>1, <1>2

-----------------------------------------------------------------------------
(***************************************************************************)
(* What steps of others leave true                                         *)
(***************************************************************************)

\* Every step: no settled task changes, no task and no submission disappears.
Evolves ==
  /\ contract' = contract
  /\ tasks' \in [1..N -> TaskType]
  /\ \A m \in 1..N : /\ tasks[m].status \in Terminal => tasks'[m] = tasks[m]
                     /\ tasks[m].status # None => tasks'[m].status # None
                     /\ Backed(m) => Backed(m)'

\* What the tasks bear out, they go on to bear out.
LEMMA JustifiedStable ==
  ASSUME Typed, Evolves, NEW o \in OutcomeType, Justified(o)
  PROVE  Justified(o)'
<1>1. Members' = Members /\ Members \subseteq 1..N /\ 1 \in Members /\ IsFiniteSet(Members)
  BY MembersFirst DEF Typed, Evolves, Members
<1>2. \A m \in Members : tasks[m].status \in Terminal => tasks'[m].status = tasks[m].status
  BY <1>1 DEF Evolves
<1>3. o.contributing \subseteq Members /\ \A m \in Members : o.members[m] \in Terminal
  BY DEF OutcomeType
<1>4. Settled(tasks) \subseteq Settled(tasks)' /\ Settled(tasks)' \subseteq Members
  BY <1>1, <1>2 DEF Settled
<1>5. \A m \in Settled(tasks) : m \in Completed(tasks) <=> m \in Completed(tasks)'
  BY <1>1, <1>2 DEF Settled, Completed
<1>6. Completed(tasks) \subseteq Settled(tasks) /\ Completed(tasks)' \subseteq Settled(tasks)'
  BY <1>1 DEF Completed, Settled, Terminal
<1>7. \A m \in o.contributing : tasks'[m].status = "completed"
  BY <1>2, <1>3 DEF Justified, Terminal
<1>8. \A m \in Members : o.members[m] # "cancelled" => tasks'[m].status = o.members[m]
  BY <1>2, <1>3 DEF Justified
<1>9. CASE contract.pattern = "delegate"
  <2>1. tasks[1].status = o.status
    BY <1>9 DEF Justified
  <2>2. tasks[1].status \in Terminal \cup {"open", None} /\ o.status # "open" /\ o.status # "unreachable"
    BY <2>1 DEF Typed, TaskType, OutcomeType, Terminal
  <2>3. o.status \in Terminal
    BY <2>2 DEF OutcomeType, Terminal
  <2>4. tasks'[1].status = o.status
    BY <1>1, <1>2, <2>1, <2>3
  <2> QED BY <1>1, <1>7, <1>8, <1>9, <2>4 DEF Justified, Evolves
<1>10. CASE contract.pattern = "race"
  <2>1. o.status = "completed" => Cardinality(o.contributing) = 1
    BY <1>10 DEF Justified
  <2>2. o.status # "completed" => Settled(tasks)' = Members /\ Completed(tasks)' = {}
    <3> SUFFICES ASSUME o.status # "completed"
                 PROVE  Settled(tasks)' = Members /\ Completed(tasks)' = {}
      OBVIOUS
    <3>1. Settled(tasks) = Members /\ Completed(tasks) = {}
      BY <1>10 DEF Justified
    <3> QED BY <3>1, <1>4, <1>5, <1>6
  <2> QED BY <1>1, <1>7, <1>8, <1>10, <2>1, <2>2 DEF Justified, Evolves
<1>11. CASE contract.pattern = "quorum"
  <2> DEFINE lost == Settled(tasks) \ Completed(tasks)
             lost2 == Settled(tasks)' \ Completed(tasks)'
  <2>1. lost \in SUBSET lost2 /\ lost2 \in SUBSET Members
    BY <1>4, <1>5, <1>6
  <2>2. IsFiniteSet(lost2) /\ Cardinality(lost) <= Cardinality(lost2)
        /\ Cardinality(lost) \in Nat /\ Cardinality(lost2) \in Nat
    BY <1>1, <2>1, FS_Subset, FS_CardinalityType
  <2>3. contract.k \in Nat
    BY DEF Typed
  <2> HIDE DEF lost, lost2
  <2>4. N - Cardinality(lost) < contract.k => N - Cardinality(lost2) < contract.k
    BY <2>2, <2>3
  <2> QED BY <1>1, <1>7, <1>8, <1>11, <2>4 DEF Justified, Evolves, lost, lost2
<1>12. CASE contract.pattern \notin {"delegate", "race", "quorum"}
  <2>1. o.status = "completed" => Settled(tasks)' = Members /\ o.contributing = Completed(tasks)'
    <3> SUFFICES ASSUME o.status = "completed"
                 PROVE  Settled(tasks)' = Members /\ o.contributing = Completed(tasks)'
      OBVIOUS
    <3>1. Settled(tasks) = Members /\ o.contributing = Completed(tasks)
      BY <1>12 DEF Justified
    <3> QED BY <3>1, <1>4, <1>5, <1>6
  <2>2. o.status # "completed" => \E m \in Members : tasks'[m].status = "failed"
    BY <1>2, <1>12 DEF Justified, Terminal
  <2> QED BY <1>1, <1>7, <1>8, <1>12, <2>1, <2>2 DEF Justified, Evolves
<1> QED BY <1>9, <1>10, <1>11, <1>12

\* A pass that was sound stays so while others act.
LEMMA PassStable ==
  ASSUME Typed, Evolves, NEW p \in PassType, PassSound(p)
  PROVE  PassSound(p)'
<1>1. Members' = Members /\ Members \subseteq 1..N /\ Window' = Window /\ Window \in Nat
      /\ Members = 1..Cardinality(Members)
  BY MembersFirst DEF Typed, Evolves, Members, Window
<1> \A m \in Members : m \in 1..N /\ 1..m \subseteq 1..N
  BY <1>1
<1>2. Claimed(p)' /\ InOrder(p)'
  <2>1. p.journal.sends \subseteq Members
    BY DEF PassType, JournalType
  <2>2. Claimed(p)'
    BY <1>1, <2>1 DEF PassSound, Claimed, Evolves
  <2>3. InOrder(p)'
    BY <1>1 DEF PassSound, InOrder, Evolves
  <2> QED BY <2>2, <2>3
<1>3. ViewTrue(p)'
  <2>1. DOMAIN p.seen \subseteq 1..N
    <3>1. p.seen \in Seq(TaskType) /\ Len(p.seen) < Cardinality(Members)
      BY DEF PassSound, ViewTrue, PassType
    <3>2. DOMAIN p.seen = 1..Len(p.seen) /\ Len(p.seen) \in Nat
      BY <3>1
    <3>3. Cardinality(Members) \in 1..N
      BY MembersFirst DEF Typed
    <3> QED BY <3>1, <3>2, <3>3
  <2> QED BY <1>1, <2>1 DEF PassSound, ViewTrue, Evolves
<1>4. Room(p)'
  <2> SUFFICES ASSUME NEW m \in p.rows \cap Members
               PROVE  Cardinality(Unsettled(m))' <= Window
    BY <1>1 DEF Room
  <2>1. Unsettled(m)' \in SUBSET Unsettled(m) /\ Unsettled(m) \in SUBSET (1..N)
    BY DEF Unsettled, Evolves
  <2>2. IsFiniteSet(Unsettled(m))
    BY <2>1, IntervalCount, FS_Subset
  <2>3. Cardinality(Unsettled(m)') <= Cardinality(Unsettled(m)) /\ Cardinality(Unsettled(m)) \in Nat
        /\ Cardinality(Unsettled(m)') \in Nat
    BY <2>1, <2>2, FS_Subset, FS_CardinalityType
  <2>4. Cardinality(Unsettled(m)) <= Window
    BY DEF PassSound, Room
  <2> QED BY <1>1, <2>3, <2>4
<1>5. Borne(p.journal.end)' /\ Borne(p.record.outcome)'
  BY JustifiedStable DEF PassSound, Borne, PassType, JournalType, RecordType
<1> QED
  BY <1>2, <1>3, <1>4, <1>5 DEF PassSound, Evolves

\* The queue, the window and the prefix depend on tasks and rows alone.
LEMMA WorldQuiet ==
  ASSUME Typed, World, UNCHANGED <<contract, tasks, rows>>
  PROVE  World' /\ Evolves
BY DEF World, Clocked, Prefix, WithinWindow, Outstanding, Backed, Settled, Members, Window, Evolves,
       Typed

\* What was recorded stays borne out.
LEMMA StoreStable ==
  ASSUME Typed, Store, Evolves, UNCHANGED <<message, dlq, journal, record>>
  PROVE  Store'
<1>1. \A o \in OutcomeType : Justified(o) => Justified(o)'
  BY JustifiedStable
<1>2. journal.sends \subseteq 1..N
  BY MembersFirst DEF Typed, JournalType
<1>3. /\ message \in OutcomeType \cup {None} /\ dlq \in OutcomeType \cup {None}
      /\ journal.end \in OutcomeType \cup {None}
      /\ record # None => record.outcome \in OutcomeType \cup {None}
  BY DEF Typed, JournalType, RecordType
<1>4. \A m \in journal'.sends : Backed(m)'
  BY <1>2 DEF Store, Evolves
<1> QED BY <1>1, <1>3, <1>4 DEF Store, Borne, Evolves

\* The other passes stay sound.
LEMMA PassesStable ==
  ASSUME Typed, Passes, Evolves, NEW d \in Drives,
         \A e \in Drives : e # d => drive'[e] = drive[e],
         (drive[d] # None => PassSound(drive[d]))'
  PROVE  Passes'
<1> SUFFICES ASSUME NEW e \in Drives, drive'[e] # None
             PROVE  PassSound(drive[e])'
  BY DEF Passes
<1>1. CASE e = d
  BY <1>1
<1>2. CASE e # d
  <2>1. drive[e] \in PassType /\ PassSound(drive[e]) /\ drive'[e] = drive[e]
    BY <1>2 DEF Typed, Passes
  <2>2. \A p \in PassType : PassSound(p) => PassSound(p)'
    BY PassStable
  <2> QED BY <2>1, <2>2
<1> QED BY <1>1, <1>2

\* A step that moves no pass.
LEMMA PassesIdle ==
  ASSUME Typed, Passes, Evolves, UNCHANGED drive
  PROVE  Passes'
<1> SUFFICES ASSUME NEW e \in Drives, drive[e] # None
             PROVE  PassSound(drive[e])'
  BY DEF Passes
<1>1. drive[e] \in PassType /\ PassSound(drive[e]) /\ drive'[e] = drive[e]
  BY DEF Typed, Passes
<1>2. \A p \in PassType : PassSound(p) => PassSound(p)'
  BY PassStable
<1> QED BY <1>1, <1>2

-----------------------------------------------------------------------------
(***************************************************************************)
(* The steps that touch neither the queue nor the pending rows             *)
(***************************************************************************)

\* Such a step keeps the invariant when what it puts in its slot is sound.
LEMMA QuietStep ==
  ASSUME IInv, UNCHANGED <<contract, tasks, rows>>, NEW d \in Drives,
         NEW q \in PassType \cup {None}, q # None => PassSound(q),
         drive' = [drive EXCEPT ![d] = q]
  PROVE  /\ World' /\ Passes' /\ Evolves
         /\ drive' \in [Drives -> PassType \cup {None}]
<1> USE DEF IInv
<1>1. World' /\ Evolves
  BY WorldQuiet
<1>2. drive \in [Drives -> PassType \cup {None}]
  BY DEF Typed
<1>3. drive' \in [Drives -> PassType \cup {None}] /\ drive'[d] = q
      /\ \A e \in Drives : e # d => drive'[e] = drive[e]
  BY <1>2
<1>4. \A p \in PassType : PassSound(p) => PassSound(p)'
  BY <1>1, PassStable
<1>5. (drive[d] # None => PassSound(drive[d]))'
  BY <1>3, <1>4
<1>6. Passes'
  BY <1>1, <1>3, <1>5, PassesStable
<1> QED BY <1>1, <1>3, <1>6

\* The types of what is unchanged are those of the members, and these do not change.
LEMMA TypesQuiet ==
  ASSUME contract' = contract
  PROVE  /\ Members' = Members /\ OutcomeType' = OutcomeType
         /\ JournalType' = JournalType /\ RecordType' = RecordType
         /\ PassType' = PassType
<1>1. Members' = Members
  BY DEF Members
<1>2. OutcomeType' = OutcomeType
  BY <1>1 DEF OutcomeType
<1>3. JournalType' = JournalType /\ RecordType' = RecordType
  BY <1>1, <1>2 DEF JournalType, RecordType
<1>4. PassType' = PassType
  BY <1>1, <1>3 DEF PassType
<1> QED BY <1>1, <1>2, <1>3, <1>4

\* A pass that begins, with the record it was given.
LEMMA PassBegins ==
  ASSUME Typed, NEW r \in RecordType, Borne(r.outcome)
  PROVE  Pass(r) \in PassType /\ PassSound(Pass(r))
<1>1. FALSE \in BOOLEAN /\ <<>> \in Seq(TaskType)
  OBVIOUS
<1>2. NoJournal \in JournalType
  BY <1>1 DEF NoJournal, JournalType
<1>3. Pass(r) \in PassType
  BY <1>1, <1>2 DEF Pass, PassType
<1>4. Cardinality(Members) \in 1..N
  BY MembersFirst DEF Typed
<1>5. ViewTrue(Pass(r))
  BY <1>4 DEF ViewTrue, Pass
<1>6. Claimed(Pass(r)) /\ InOrder(Pass(r)) /\ Room(Pass(r))
  BY DEF Claimed, InOrder, Room, Pass, NoJournal
<1> QED BY <1>3, <1>5, <1>6 DEF PassSound, Pass, NoJournal, Borne

LEMMA InitIInv == Init => IInv
<1> SUFFICES ASSUME Init PROVE IInv
  OBVIOUS
<1>1. Typed
  <2>1. NoTask \in TaskType /\ NoTask.status = None
    BY DEF NoTask, TaskType
  <2>2. FALSE \in BOOLEAN
    OBVIOUS
  <2>3. NoJournal \in JournalType
    BY <2>2 DEF NoJournal, JournalType
  <2> QED BY <2>1, <2>3 DEF Typed, Init
<1>2. \A m \in 1..N : tasks[m].status = None
  BY DEF Init, NoTask
<1>3. Members \subseteq 1..N /\ Window \in Nat
  BY <1>1, MembersFirst DEF Typed, Window
<1>4. \A m \in Members : ~Backed(m)
  BY <1>2, <1>3 DEF Init, Backed
<1>5. World
  <2>1. Clocked
    BY <1>2, <1>3 DEF Clocked, Terminal
  <2>2. Prefix
    BY <1>4 DEF Prefix
  <2>3. Outstanding = {}
    BY <1>4 DEF Outstanding
  <2>4. WithinWindow
    BY <1>3, <2>3, FS_EmptySet DEF WithinWindow
  <2> QED BY <2>1, <2>2, <2>4 DEF World
<1>6. Store
  BY DEF Store, Init, NoJournal, Borne
<1>7. Passes
  BY DEF Passes, Init
<1> QED BY <1>1, <1>5, <1>6, <1>7 DEF IInv

\* submit_coordination.
LEMMA SubmitIInv ==
  ASSUME IInv, NEW d \in Drives, NEW admitted \in BOOLEAN, Submit(d, admitted)
  PROVE  IInv'
<1>1. NewRecord \in RecordType /\ Borne(NewRecord.outcome)
  <2>1. FALSE \in BOOLEAN
    OBVIOUS
  <2> QED BY <2>1 DEF NewRecord, RecordType, Borne
<1>2. Pass(NewRecord) \in PassType /\ PassSound(Pass(NewRecord))
  BY <1>1, PassBegins DEF IInv
<1>3. UNCHANGED <<contract, tasks, rows, message, dlq, journal>> /\ record' = NewRecord
  BY DEF Submit
<1>4. World' /\ Passes' /\ Evolves /\ drive' \in [Drives -> PassType \cup {None}]
  <2>1. CASE admitted
    <3>1. drive' = [drive EXCEPT ![d] = Pass(NewRecord)]
      BY <2>1 DEF Submit
    <3> QED BY <1>2, <1>3, <3>1, QuietStep
  <2>2. CASE ~admitted
    <3>1. drive' = drive
      BY <2>2 DEF Submit
    <3>2. World' /\ Evolves
      BY <1>3, WorldQuiet DEF IInv
    <3> QED BY <3>1, <3>2, PassesIdle DEF IInv, Typed
  <2> QED BY <2>1, <2>2
<1>5. Typed'
  BY <1>1, <1>3, <1>4, TypesQuiet DEF IInv, Typed
<1>6. Store'
  <2>1. \A o \in OutcomeType : Justified(o) => Justified(o)'
    BY <1>4, JustifiedStable DEF IInv
  <2>2. \A m \in journal.sends : Backed(m)'
    BY <1>3 DEF IInv, Store, Backed
  <2>3. Borne(message)' /\ Borne(dlq)' /\ Borne(journal.end)'
    BY <1>3, <2>1 DEF IInv, Store, Borne, Typed, JournalType
  <2>4. Borne(record.outcome)'
    BY <1>3 DEF Borne, NewRecord
  <2> QED BY <1>3, <2>2, <2>3, <2>4 DEF Store, IInv
<1> QED BY <1>4, <1>5, <1>6 DEF IInv

\* A reader, or the hook of a settled member.
LEMMA BeginIInv ==
  ASSUME IInv, NEW d \in Drives, Begin(d)
  PROVE  IInv'
<1>1. record \in RecordType /\ Borne(record.outcome)
  BY DEF Begin, IInv, Typed, Store
<1>2. Pass(record) \in PassType /\ PassSound(Pass(record))
  BY <1>1, PassBegins DEF IInv
<1>3. UNCHANGED <<contract, tasks, rows, message, dlq, journal, record>>
      /\ drive' = [drive EXCEPT ![d] = Pass(record)]
  BY DEF Begin
<1>4. World' /\ Passes' /\ Evolves /\ drive' \in [Drives -> PassType \cup {None}]
  BY <1>2, <1>3, QuietStep
<1>5. Typed'
  BY <1>3, <1>4, TypesQuiet DEF IInv, Typed
<1>6. Store'
  BY <1>3, <1>4, StoreStable DEF IInv
<1> QED BY <1>4, <1>5, <1>6 DEF IInv

\* A step that only moves its pass.
LEMMA PassMoves ==
  ASSUME IInv, NEW d \in Drives, NEW q \in PassType \cup {None}, q # None => PassSound(q),
         drive' = [drive EXCEPT ![d] = q],
         UNCHANGED <<contract, tasks, rows, message, dlq, journal, record>>
  PROVE  IInv'
<1>1. World' /\ Passes' /\ Evolves /\ drive' \in [Drives -> PassType \cup {None}]
  BY QuietStep
<1>2. Typed'
  BY <1>1, TypesQuiet DEF IInv, Typed
<1>3. Store'
  BY <1>1, StoreStable DEF IInv
<1> QED BY <1>1, <1>2, <1>3 DEF IInv

\* The journal is read: everything it claims exists.
LEMMA ReadJournalIInv ==
  ASSUME IInv, NEW d \in Drives, ReadJournal(d)
  PROVE  IInv'
<1> DEFINE p == drive[d]
           q == [p EXCEPT !.pc = "tasks", !.dirty = ~journal.start,
                          !.journal = [journal EXCEPT !.start = TRUE]]
<1>1. p \in PassType /\ PassSound(p) /\ p.pc = "journal"
  BY DEF ReadJournal, At, IInv, Typed, Passes
<1>2. journal \in JournalType
  BY DEF IInv, Typed
<1>3. drive' = [drive EXCEPT ![d] = q]
  BY <1>1 DEF ReadJournal, IInv, Typed, PassType
<1>4. [journal EXCEPT !.start = TRUE] \in JournalType
  BY <1>2 DEF JournalType
<1>5. (~journal.start) \in BOOLEAN
  BY Zenon
<1>6. q \in PassType
  BY <1>1, <1>4, <1>5 DEF PassType
<1>7. /\ q.pc = "tasks" /\ q.seen = p.seen /\ q.rows = p.rows /\ q.record = p.record
      /\ q.dlq = p.dlq /\ q.journal.sends = journal.sends /\ q.journal.end = journal.end
  BY <1>1, <1>2 DEF PassType, JournalType
<1> HIDE DEF q
<1>8. PassSound(q)
  BY <1>1, <1>7 DEF PassSound, Claimed, ViewTrue, InOrder, Room, IInv, Store
<1>9. UNCHANGED <<contract, tasks, rows, message, dlq, journal, record>>
  BY DEF ReadJournal
<1> QED BY <1>3, <1>6, <1>8, <1>9, PassMoves

\* One more task is read: the view is right about it now.
LEMMA ReadTaskIInv ==
  ASSUME IInv, NEW d \in Drives, ReadTask(d)
  PROVE  IInv'
<1> DEFINE p == drive[d]
           n == Len(p.seen)
           q == [p EXCEPT !.seen = Append(@, tasks[Len(@) + 1])]
<1>1. p \in PassType /\ PassSound(p) /\ p.pc = "tasks"
  BY DEF ReadTask, At, IInv, Typed, Passes
<1>2. p.seen \in Seq(TaskType) /\ n \in Nat /\ DOMAIN p.seen = 1..n
  BY <1>1 DEF PassType
<1>3. Cardinality(Members) \in 1..N /\ n + 1 < Cardinality(Members)
  BY <1>2, MembersFirst DEF ReadTask, IInv, Typed
<1>4. tasks[n + 1] \in TaskType
  BY <1>2, <1>3 DEF IInv, Typed
<1>5. drive' = [drive EXCEPT ![d] = q]
  BY <1>1 DEF ReadTask, IInv, Typed, PassType
<1>6. q \in PassType
  <2>1. Append(p.seen, tasks[n + 1]) \in Seq(TaskType)
    BY <1>2, <1>4
  <2> HIDE DEF p
  <2> QED BY <1>1, <2>1 DEF PassType
<1>7. /\ q.pc = "tasks" /\ q.rows = p.rows /\ q.record = p.record
      /\ q.dlq = p.dlq /\ q.journal = p.journal /\ q.seen = Append(p.seen, tasks[n + 1])
  BY <1>1 DEF PassType
<1> HIDE DEF q
<1>8. ViewTrue(q)
  <2>1. Len(q.seen) = n + 1 /\ DOMAIN q.seen = 1..(n + 1) /\ q.seen[n + 1] = tasks[n + 1]
        /\ \A i \in 1..n : q.seen[i] = p.seen[i]
    BY <1>2, <1>4, <1>7
  <2>2. Len(q.seen) < Cardinality(Members)
    BY <1>3, <2>1
  <2>3. \A i \in 1..(n + 1) : i = n + 1 \/ i \in DOMAIN p.seen
    BY <1>2
  <2> QED BY <1>1, <1>2, <2>1, <2>2, <2>3 DEF PassSound, ViewTrue
<1>9. PassSound(q)
  BY <1>1, <1>7, <1>8 DEF PassSound, Claimed, InOrder, Room
<1>10. UNCHANGED <<contract, tasks, rows, message, dlq, journal, record>>
  BY DEF ReadTask
<1> QED BY <1>5, <1>6, <1>9, <1>10, PassMoves

\* The dead letter of a race says that it failed, and is borne out.
LEMMA DeadLetterIInv ==
  ASSUME IInv, NEW d \in Drives, DeadLetter(d)
  PROVE  IInv'
<1> DEFINE p == drive[d]
           q == [p EXCEPT !.dlq = FALSE]
<1>1. p \in PassType /\ PassSound(p) /\ p.dlq
  BY DEF DeadLetter, At, IInv, Typed, Passes
<1>2. drive' = [drive EXCEPT ![d] = q]
  BY <1>1 DEF DeadLetter, IInv, Typed, PassType
<1>3. q \in PassType
  <2>1. FALSE \in BOOLEAN
    OBVIOUS
  <2> QED BY <1>1, <2>1 DEF PassType
<1>4. /\ q.pc = p.pc /\ q.rows = p.rows /\ q.record = p.record
      /\ q.dlq = FALSE /\ q.journal = p.journal /\ q.seen = p.seen
  BY <1>1 DEF PassType
<1>5. UNCHANGED <<contract, tasks, rows, message, journal, record>>
  BY DEF DeadLetter
<1> HIDE DEF q
<1>6. PassSound(q)
  BY <1>1, <1>4 DEF PassSound, Claimed, ViewTrue, InOrder, Room
<1>7. World' /\ Passes' /\ Evolves /\ drive' \in [Drives -> PassType \cup {None}]
  BY <1>2, <1>3, <1>5, <1>6, QuietStep
<1>8. p.record.outcome \in OutcomeType \cup {None}
  BY <1>1 DEF PassType, RecordType
<1>9. dlq' \in OutcomeType \cup {None}
      /\ (dlq' # None => Justified(dlq') /\ contract.pattern = "race" /\ dlq'.status = "failed")
  BY <1>1, <1>8 DEF DeadLetter, IInv, Typed, PassSound, Borne, Store
<1>10. Typed'
  BY <1>5, <1>7, <1>9, TypesQuiet DEF IInv, Typed
<1>11. Store'
  <2>1. \A o \in OutcomeType : Justified(o) => Justified(o)'
    BY <1>7, JustifiedStable DEF IInv
  <2>2. \A m \in journal'.sends : Backed(m)'
    BY <1>5 DEF IInv, Store, Backed
  <2>3. Borne(message)' /\ Borne(journal.end)' /\ (record # None => Borne(record.outcome))'
    BY <1>5, <2>1 DEF IInv, Store, Borne, Typed, JournalType, RecordType
  <2>4. Borne(dlq)' /\ (dlq' # None => contract'.pattern = "race" /\ dlq'.status = "failed")
    BY <1>5, <1>9, <2>1 DEF Borne
  <2> QED BY <2>2, <2>3, <2>4 DEF Store
<1> QED BY <1>7, <1>10, <1>11 DEF IInv

\* The journal a pass writes claims what was submitted: its rows are all down.
LEMMA WriteJournalIInv ==
  ASSUME IInv, NEW d \in Drives, WriteJournal(d)
  PROVE  IInv'
<1> DEFINE p == drive[d]
           q == [p EXCEPT !.pc = "latch", !.journal = NoJournal, !.dirty = FALSE]
<1>1. p \in PassType /\ PassSound(p) /\ p.pc = "commit" /\ p.rows = {} /\ ~p.dlq
  BY DEF WriteJournal, RowsFirst, At, IInv, Typed, Passes
<1>2. drive' = [drive EXCEPT ![d] = q]
  BY <1>1 DEF WriteJournal, IInv, Typed, PassType
<1>3. q \in PassType
  <2>1. FALSE \in BOOLEAN
    OBVIOUS
  <2>2. NoJournal \in JournalType
    BY <2>1 DEF NoJournal, JournalType
  <2> QED BY <1>1, <2>1, <2>2 DEF PassType
<1>4. /\ q.pc = "latch" /\ q.rows = p.rows /\ q.record = p.record
      /\ q.dlq = p.dlq /\ q.journal = NoJournal /\ q.seen = p.seen
  BY <1>1 DEF PassType
<1>5. UNCHANGED <<contract, tasks, rows, message, dlq, record>>
  BY DEF WriteJournal
<1> HIDE DEF q
<1>6. PassSound(q)
  BY <1>1, <1>4 DEF PassSound, Claimed, ViewTrue, InOrder, Room, NoJournal, Borne
<1>7. World' /\ Passes' /\ Evolves /\ drive' \in [Drives -> PassType \cup {None}]
  BY <1>2, <1>3, <1>5, <1>6, QuietStep
<1>8. /\ journal' \in JournalType
      /\ \A m \in journal'.sends : Backed(m)
      /\ Borne(journal'.end)
  BY <1>1 DEF WriteJournal, IInv, Typed, Store, PassSound, Claimed, PassType
<1>9. Typed'
  BY <1>5, <1>7, <1>8, TypesQuiet DEF IInv, Typed
<1>10. Store'
  <2>1. \A o \in OutcomeType : Justified(o) => Justified(o)'
    BY <1>7, JustifiedStable DEF IInv
  <2>2. \A m \in journal'.sends : Backed(m)'
    BY <1>5, <1>8 DEF Backed
  <2>3. Borne(message)' /\ Borne(dlq)' /\ (record # None => Borne(record.outcome))'
    BY <1>5, <2>1 DEF IInv, Store, Borne, Typed, RecordType
  <2>4. Borne(journal.end)'
    BY <1>8, <2>1 DEF Borne, JournalType
  <2> QED BY <1>5, <2>2, <2>3, <2>4 DEF Store, IInv
<1> QED BY <1>7, <1>9, <1>10 DEF IInv

LEMMA WriteRecordIInv ==
  ASSUME IInv, NEW d \in Drives, WriteRecord(d)
  PROVE  IInv'
<1> DEFINE p == drive[d]
<1>1. p \in PassType /\ PassSound(p)
  BY DEF WriteRecord, At, IInv, Typed, Passes
<1>2. drive' = [drive EXCEPT ![d] = None] /\ record' = p.record
      /\ UNCHANGED <<contract, tasks, rows, message, dlq, journal>>
  BY DEF WriteRecord
<1>3. World' /\ Passes' /\ Evolves /\ drive' \in [Drives -> PassType \cup {None}]
  BY <1>2, QuietStep
<1>4. record' \in RecordType /\ Borne(record'.outcome)
  BY <1>1, <1>2 DEF PassType, PassSound
<1>5. Typed'
  BY <1>2, <1>3, <1>4, TypesQuiet DEF IInv, Typed
<1>6. Store'
  <2>1. \A o \in OutcomeType : Justified(o) => Justified(o)'
    BY <1>3, JustifiedStable DEF IInv
  <2>2. \A m \in journal'.sends : Backed(m)'
    BY <1>2 DEF IInv, Store, Backed
  <2>3. Borne(message)' /\ Borne(dlq)' /\ Borne(journal.end)'
    BY <1>2, <2>1 DEF IInv, Store, Borne, Typed, JournalType
  <2>4. Borne(record.outcome)'
    BY <1>4, <2>1 DEF Borne, RecordType
  <2> QED BY <1>2, <2>2, <2>3, <2>4 DEF Store, IInv
<1> QED BY <1>3, <1>5, <1>6 DEF IInv

LEMMA DriveDiesIInv ==
  ASSUME IInv, NEW d \in Drives, DriveDies(d)
  PROVE  IInv'
<1>1. drive' = [drive EXCEPT ![d] = None]
      /\ UNCHANGED <<contract, tasks, rows, message, dlq, journal, record>>
  BY DEF DriveDies
<1> QED BY <1>1, PassMoves

-----------------------------------------------------------------------------
(***************************************************************************)
(* The steps of the queue                                                  *)
(***************************************************************************)

\* A nonempty set of naturals has a least element, the one Min chooses.
LEMMA LeastOf ==
  ASSUME NEW S \in SUBSET Nat, S # {}
  PROVE  Min(S) \in S /\ \A n \in S : Min(S) <= n
<1>1. PICK m \in S : \A n \in S : <<n, m>> \notin OpToRel(<, Nat)
  BY NatLessThanWellFounded, WFMin
<1>2. \A n \in S : ~(n < m)
  BY <1>1 DEF OpToRel
<1>3. \A n \in S : m <= n
  BY <1>2
<1> QED BY <1>3 DEF Min

\* An open task is told, or settles with the next stamp.
LEMMA TaskMoves ==
  ASSUME Typed, World, UNCHANGED <<contract, rows>>,
         NEW m \in 1..N, tasks[m].status = "open",
         NEW t \in TaskType, t.status \in Terminal \cup {"open"},
         t.status = "completed" => t.at = Cardinality(Settled(tasks)) + 1,
         tasks' = [tasks EXCEPT ![m] = t]
  PROVE  /\ World' /\ Evolves
         /\ \A l \in (1..N) \ Members : tasks'[l].status = None
<1>1. Members' = Members /\ Members \subseteq 1..N /\ Window' = Window /\ Window \in Nat
      /\ IsFiniteSet(Members)
  BY MembersFirst DEF Typed, Members, Window
<1>2. None \notin Terminal \cup {"open"} /\ "open" \notin Terminal
  BY DEF Terminal
<1>3. m \in Members
  BY <1>2 DEF Typed
<1>4. \A l \in 1..N : tasks'[l] = IF l = m THEN t ELSE tasks[l]
  BY DEF Typed
<1>5. tasks' \in [1..N -> TaskType]
  BY DEF Typed
<1>6. Evolves
  BY <1>2, <1>4, <1>5 DEF Evolves, Backed
<1>7. \A l \in (1..N) \ Members : tasks'[l].status = None
  BY <1>3, <1>4 DEF Typed
<1>8. \A l \in Members : Backed(l)' <=> Backed(l)
  BY <1>1, <1>2, <1>4 DEF Backed
<1>9. Prefix'
  BY <1>1, <1>8 DEF World, Prefix
<1>10. WithinWindow'
  <2>1. Outstanding' \in SUBSET Outstanding /\ Outstanding \in SUBSET Members
    BY <1>1, <1>2, <1>4, <1>8 DEF Outstanding
  <2>2. /\ Cardinality(Outstanding') <= Cardinality(Outstanding)
        /\ Cardinality(Outstanding) \in Nat /\ Cardinality(Outstanding') \in Nat
    BY <1>1, <2>1, FS_Subset, FS_CardinalityType
  <2> QED BY <1>1, <2>2 DEF World, WithinWindow
<1>11. Clocked'
  <2> DEFINE was == Settled(tasks)
             is == Settled(tasks)'
  <2>1. was \in SUBSET Members /\ IsFiniteSet(was) /\ Cardinality(was) \in Nat
    BY <1>1, FS_Subset, FS_CardinalityType DEF Settled
  <2>2. CASE t.status = "open"
    <3>1. is = was
      BY <1>1, <1>2, <1>3, <1>4, <2>2 DEF Settled
    <3>2. \A l \in Members : tasks'[l].status = "completed" => tasks'[l] = tasks[l]
      BY <1>1, <1>4, <2>2
    <3> QED BY <1>1, <3>1, <3>2 DEF World, Clocked
  <2>3. CASE t.status # "open"
    <3>1. is = was \cup {m} /\ m \notin was
      BY <1>1, <1>2, <1>3, <1>4, <2>3 DEF Settled
    <3> HIDE DEF was, is
    <3>2. Cardinality(is) = Cardinality(was) + 1
      BY <2>1, <3>1, FS_AddElement
    <3>3. \A l \in Members : l # m /\ tasks'[l].status = "completed"
             => tasks'[l] = tasks[l] /\ tasks'[l].at <= Cardinality(was) /\ tasks'[l].at \in Nat
      BY <1>1, <1>4, <1>5 DEF World, Clocked, was, TaskType
    <3>4. tasks'[m].status = "completed" => tasks'[m].at = Cardinality(was) + 1
      BY <1>3, <1>4 DEF was
    <3>5. \A l \in Members' : tasks'[l].status = "completed" => tasks'[l].at <= Cardinality(is)
      BY <1>1, <2>1, <3>2, <3>3, <3>4
    <3>6. \A l, k \in Members' :
            tasks'[l].status = "completed" /\ tasks'[k].status = "completed"
              /\ tasks'[l].at = tasks'[k].at => l = k
      <4> SUFFICES ASSUME NEW l \in Members, NEW k \in Members, tasks'[l].status = "completed",
                          tasks'[k].status = "completed", tasks'[l].at = tasks'[k].at
                   PROVE  l = k
        BY <1>1
      <4>1. CASE l # m /\ k # m
        BY <3>3, <4>1 DEF World, Clocked
      <4>2. CASE l = m \/ k = m
        BY <2>1, <3>3, <3>4, <4>2
      <4> QED BY <4>1, <4>2
    <3> QED BY <3>5, <3>6 DEF Clocked, is
  <2> QED BY <2>2, <2>3
<1> QED BY <1>6, <1>7, <1>9, <1>10, <1>11 DEF World

\* A holder settles its task.
LEMMA SettleIInv ==
  ASSUME IInv, NEW m \in 1..N, NEW how \in Terminal, Settle(m, how)
  PROVE  IInv'
<1> DEFINE n == Cardinality(Settled(tasks)) + 1
           t == [tasks[m] EXCEPT !.status = how, !.at = n]
<1>1. Settled(tasks) \in SUBSET Members /\ IsFiniteSet(Members)
  BY MembersFirst DEF Settled, IInv, Typed
<1>2. n \in Nat
  <2>1. Cardinality(Settled(tasks)) \in Nat
    BY <1>1, FS_Subset, FS_CardinalityType
  <2> QED BY <2>1
<1>3. tasks[m] \in TaskType
  BY DEF IInv, Typed
<1> HIDE DEF n
<1>4. t \in TaskType /\ t.status = how /\ t.at = n
  BY <1>2, <1>3 DEF TaskType
<1>5. tasks' = [tasks EXCEPT ![m] = t]
  BY <1>3 DEF Settle, IInv, Typed, TaskType, n
<1> HIDE DEF t
<1>6. /\ tasks[m].status = "open"
      /\ UNCHANGED <<contract, rows, message, dlq, journal, record, drive>>
  BY DEF Settle
<1>7. World' /\ Evolves /\ \A l \in (1..N) \ Members : tasks'[l].status = None
  BY <1>4, <1>5, <1>6, TaskMoves DEF IInv, n
<1>8. Typed'
  BY <1>6, <1>7, TypesQuiet DEF IInv, Typed, Evolves
<1>9. Store' /\ Passes'
  BY <1>6, <1>7, StoreStable, PassesIdle DEF IInv
<1> QED BY <1>7, <1>8, <1>9 DEF IInv

LEMMA ExpireIInv ==
  ASSUME IInv, NEW m \in 1..N, Expire(m)
  PROVE  IInv'
<1> DEFINE t == [tasks[m] EXCEPT !.status = "cancelled"]
<1>1. tasks[m] \in TaskType
  BY DEF IInv, Typed
<1>2. t \in TaskType /\ t.status = "cancelled"
  BY <1>1 DEF TaskType, Terminal
<1>3. tasks' = [tasks EXCEPT ![m] = t]
  BY <1>1 DEF Expire, IInv, Typed, TaskType
<1> HIDE DEF t
<1>4. /\ tasks[m].status = "open"
      /\ UNCHANGED <<contract, rows, message, dlq, journal, record, drive>>
  BY DEF Expire
<1>5. World' /\ Evolves /\ \A l \in (1..N) \ Members : tasks'[l].status = None
  BY <1>2, <1>3, <1>4, TaskMoves DEF IInv, Terminal
<1>6. Typed'
  BY <1>4, <1>5, TypesQuiet DEF IInv, Typed, Evolves
<1>7. Store' /\ Passes'
  BY <1>4, <1>5, StoreStable, PassesIdle DEF IInv
<1> QED BY <1>5, <1>6, <1>7 DEF IInv

\* A step of a pass that lets the queue evolve as any other step may.
LEMMA PassActs ==
  ASSUME IInv, Evolves, NEW d \in Drives, NEW q \in PassType, PassSound(q)',
         drive' = [drive EXCEPT ![d] = q]
  PROVE  Passes' /\ drive' \in [Drives -> PassType \cup {None}]
<1>1. drive \in [Drives -> PassType \cup {None}]
  BY DEF IInv, Typed
<1>2. drive' \in [Drives -> PassType \cup {None}] /\ drive'[d] = q
      /\ \A e \in Drives : e # d => drive'[e] = drive[e]
  BY <1>1
<1>3. (drive[d] # None => PassSound(drive[d]))'
  BY <1>2
<1> QED BY <1>2, <1>3, PassesStable DEF IInv

\* settle cancels one member: a queued task ends, a leased one is told.
LEMMA CancelMemberIInv ==
  ASSUME IInv, NEW d \in Drives, NEW leased \in BOOLEAN, CancelMember(d, leased)
  PROVE  IInv'
<1> DEFINE p == drive[d]
           m == Min(p.cancels)
           q == [p EXCEPT !.cancels = @ \ {m}]
<1>1. p \in PassType /\ PassSound(p) /\ p.cancels # {}
  BY DEF CancelMember, At, IInv, Typed, Passes
<1>2. Members \subseteq 1..N
  BY MembersFirst DEF IInv, Typed
<1>3. p.cancels \in SUBSET Members
  BY <1>1 DEF PassType
<1>4. m \in 1..N
  BY <1>1, <1>2, <1>3, LeastOf
<1>5. drive' = [drive EXCEPT ![d] = q]
  BY <1>1 DEF CancelMember, IInv, Typed, PassType
<1>6. UNCHANGED <<contract, rows, message, dlq, journal, record>>
      /\ tasks' = IF tasks[m].status # "open" THEN tasks
                  ELSE IF leased THEN [tasks EXCEPT ![m].signalled = TRUE]
                  ELSE [tasks EXCEPT ![m].status = "cancelled"]
  BY DEF CancelMember
<1> HIDE DEF m
<1>7. q \in PassType
  BY <1>1, <1>3 DEF PassType
<1>8. /\ q.pc = p.pc /\ q.rows = p.rows /\ q.record = p.record
      /\ q.dlq = p.dlq /\ q.journal = p.journal /\ q.seen = p.seen
  BY <1>1 DEF PassType
<1> HIDE DEF q
<1>9. PassSound(q)
  BY <1>1, <1>8 DEF PassSound, Claimed, ViewTrue, InOrder, Room
<1>10. World' /\ Evolves /\ \A l \in (1..N) \ Members : tasks'[l].status = None
  <2>1. CASE tasks[m].status # "open"
    BY <1>6, <2>1, WorldQuiet DEF IInv, Typed
  <2>2. CASE tasks[m].status = "open" /\ leased
    <3> DEFINE t == [tasks[m] EXCEPT !.signalled = TRUE]
    <3>1. tasks[m] \in TaskType
      BY <1>4 DEF IInv, Typed
    <3>2. TRUE \in BOOLEAN
      OBVIOUS
    <3>3. t \in TaskType /\ t.status = "open"
      BY <2>2, <3>1, <3>2 DEF TaskType
    <3>4. tasks' = [tasks EXCEPT ![m] = t]
      BY <1>4, <1>6, <2>2, <3>1 DEF IInv, Typed, TaskType
    <3> HIDE DEF t
    <3> QED BY <1>4, <1>6, <2>2, <3>3, <3>4, TaskMoves DEF IInv
  <2>3. CASE tasks[m].status = "open" /\ ~leased
    <3> DEFINE t == [tasks[m] EXCEPT !.status = "cancelled"]
    <3>1. tasks[m] \in TaskType
      BY <1>4 DEF IInv, Typed
    <3>2. t \in TaskType /\ t.status = "cancelled"
      BY <3>1 DEF TaskType, Terminal
    <3>3. tasks' = [tasks EXCEPT ![m] = t]
      BY <1>4, <1>6, <2>3, <3>1 DEF IInv, Typed, TaskType
    <3> HIDE DEF t
    <3> QED BY <1>4, <1>6, <2>3, <3>2, <3>3, TaskMoves DEF IInv, Terminal
  <2> QED BY <2>1, <2>2, <2>3
<1>11. PICK x : x = q
  OBVIOUS
<1>12. Passes' /\ drive' \in [Drives -> PassType \cup {None}]
  <2>1. x \in PassType /\ PassSound(x) /\ drive' = [drive EXCEPT ![d] = x]
    BY <1>5, <1>7, <1>9, <1>11
  <2>2. PassSound(x)'
    BY <1>10, <2>1, PassStable DEF IInv
  <2> QED BY <1>10, <2>1, <2>2, PassActs
<1>13. Typed'
  BY <1>6, <1>10, <1>12, TypesQuiet DEF IInv, Typed, Evolves
<1>14. Store'
  BY <1>6, <1>10, StoreStable DEF IInv
<1> QED BY <1>10, <1>12, <1>13, <1>14 DEF IInv

\* The relay turns a row into a task: the member stays submitted.
LEMMA RelayIInv ==
  ASSUME IInv, NEW r \in 1..Outcome, Relay(r)
  PROVE  IInv'
<1>1. Members' = Members /\ Members \subseteq 1..N /\ Window' = Window /\ Window \in Nat
  BY MembersFirst DEF Relay, IInv, Typed, Members, Window
<1>2. UNCHANGED <<contract, message, dlq, journal, record, drive>> /\ rows' = rows \ {r}
  BY DEF Relay
<1>3. None \notin Terminal \cup {"open"} /\ "open" \notin Terminal
  BY DEF Terminal
<1>4. tasks' \in [1..N -> TaskType]
      /\ \A l \in 1..N : \/ tasks'[l] = tasks[l] /\ ~(l \in Members /\ l = r /\ tasks[l].status = None)
                         \/ /\ l \in Members /\ l = r /\ tasks[l].status = None
                            /\ tasks'[l].status = "open"
  <2>1. CASE r \in Members /\ tasks[r].status = None
    <3> DEFINE t == [tasks[r] EXCEPT !.status = "open"]
    <3>1. r \in 1..N /\ tasks[r] \in TaskType
      BY <1>1, <2>1 DEF IInv, Typed
    <3>2. t \in TaskType /\ t.status = "open"
      BY <3>1 DEF TaskType
    <3>3. tasks' = [tasks EXCEPT ![r] = t]
      BY <2>1, <3>1 DEF Relay, IInv, Typed, TaskType
    <3> HIDE DEF t
    <3> QED BY <2>1, <3>1, <3>2, <3>3 DEF IInv, Typed
  <2>2. CASE ~(r \in Members /\ tasks[r].status = None)
    BY <2>2 DEF Relay, IInv, Typed
  <2> QED BY <2>1, <2>2
<1>5. \A l \in Members : Backed(l)' <=> Backed(l)
  BY <1>1, <1>2, <1>3, <1>4 DEF Relay, Backed
<1>6. Evolves
  <2>1. \A l \in 1..N : Backed(l) => Backed(l)'
    <3> SUFFICES ASSUME NEW l \in (1..N) \ Members, Backed(l) PROVE FALSE
      BY <1>5
    <3>1. l \in rows
      BY DEF Backed, IInv, Typed
    <3>2. l = Outcome
      BY <3>1 DEF IInv, Typed
    <3> QED BY <3>2 DEF Outcome
  <2> QED BY <1>2, <1>3, <1>4, <2>1 DEF Evolves
<1>7. \A l \in (1..N) \ Members : tasks'[l].status = None
  BY <1>4 DEF IInv, Typed
<1>8. World'
  <2>1. Prefix'
    BY <1>1, <1>5 DEF IInv, World, Prefix
  <2>2. \A l \in Members : tasks'[l].status \in Terminal <=> tasks[l].status \in Terminal
    BY <1>1, <1>3, <1>4
  <2>3. Outstanding' = Outstanding
    BY <1>1, <1>5, <2>2 DEF Outstanding
  <2>4. WithinWindow'
    BY <1>1, <2>3 DEF IInv, World, WithinWindow
  <2>5. Settled(tasks)' = Settled(tasks)
    BY <1>1, <2>2 DEF Settled
  <2>6. \A l \in Members : tasks'[l].status = "completed" => tasks'[l] = tasks[l]
    BY <1>1, <1>4
  <2>7. \A l \in Members : tasks'[l].status = "completed" =>
          tasks[l].status = "completed" /\ tasks'[l].at = tasks[l].at
                                       /\ tasks[l].at <= Cardinality(Settled(tasks))
    BY <2>6 DEF IInv, World, Clocked
  <2>8. Clocked'
    BY <1>1, <2>5, <2>7 DEF IInv, World, Clocked
  <2> QED BY <2>1, <2>4, <2>8 DEF World
<1>9. Typed'
  BY <1>2, <1>4, <1>7, TypesQuiet DEF IInv, Typed
<1>10. Store' /\ Passes'
  BY <1>2, <1>6, StoreStable, PassesIdle DEF IInv
<1> QED BY <1>8, <1>9, <1>10 DEF IInv

\* A row that is down is no longer the pass's to write.
LEMMA RowWritten ==
  ASSUME Typed, Evolves, NEW p \in PassType, PassSound(p), NEW r, Backed(r)',
         p.pc = "commit", NEW q \in PassType, q = [p EXCEPT !.rows = @ \ {r}]
  PROVE  PassSound(q)'
<1>1. /\ q.pc = p.pc /\ q.rows = p.rows \ {r} /\ q.record = p.record
      /\ q.dlq = p.dlq /\ q.journal = p.journal /\ q.seen = p.seen
  BY DEF PassType
<1>2. PassSound(p)'
  BY PassStable
<1>3. Claimed(q)' /\ InOrder(q)'
  BY <1>1, <1>2 DEF PassSound, Claimed, InOrder
<1>4. ViewTrue(q)' /\ Room(q)'
  BY <1>1, <1>2 DEF PassSound, ViewTrue, Room
<1> QED BY <1>1, <1>2, <1>3, <1>4 DEF PassSound

\* A pass writes its next row.  The member it submits continues the prefix, and the
\* members up to it that have not settled fit the window.
LEMMA PushRowIInv ==
  ASSUME IInv, NEW d \in Drives, PushRow(d)
  PROVE  IInv'
<1>0. PICK p : p = drive[d]
  OBVIOUS
<1> DEFINE r == Min(p.rows)
           q == [p EXCEPT !.rows = @ \ {r}]
<1>1. p \in PassType /\ PassSound(p) /\ p.rows # {} /\ p.pc = "commit"
  BY <1>0 DEF PushRow, At, IInv, Typed, Passes
<1>2. /\ Members' = Members /\ Members \subseteq 1..N /\ Window' = Window /\ Window \in Nat
      /\ IsFiniteSet(Members)
  BY MembersFirst DEF PushRow, IInv, Typed, Members, Window
<1>3. Outcome \in Nat /\ Outcome \notin Members
  BY <1>2 DEF Outcome
<1>4. p.rows \in SUBSET (Members \cup {Outcome})
  BY <1>1 DEF PassType
<1>5. r \in p.rows /\ \A n \in p.rows : r <= n
  <2>1. Members \subseteq Nat
    BY <1>2
  <2>2. p.rows \in SUBSET Nat
    BY <1>3, <1>4, <2>1
  <2> QED BY <1>1, <2>2, LeastOf
<1>6. drive' = [drive EXCEPT ![d] = q]
  BY <1>0, <1>1 DEF PushRow, IInv, Typed, PassType
<1>7. UNCHANGED <<contract, tasks, dlq, journal, record>> /\ rows' = rows \cup {r}
      /\ message' = IF r = Outcome /\ message = None THEN p.record.outcome ELSE message
  BY <1>0 DEF PushRow
<1> HIDE DEF r
<1>8. q \in PassType
  BY <1>1, <1>4 DEF PassType
<1>9. Evolves
  BY <1>7 DEF Evolves, Backed, IInv, Typed
<1>10. \A l : Backed(l)' <=> Backed(l) \/ l = r
  BY <1>7 DEF Backed
<1>11. PassSound(q)'
  BY <1>1, <1>8, <1>9, <1>10, RowWritten DEF IInv
<1> HIDE DEF q
<1>12. Passes' /\ drive' \in [Drives -> PassType \cup {None}]
  BY <1>6, <1>8, <1>9, <1>11, PassActs
<1>13. Clocked'
  BY <1>2, <1>7 DEF IInv, World, Clocked, Settled
<1>14. Prefix' /\ WithinWindow'
  <2>1. CASE r = Outcome \/ Backed(r)
    <3>1. \A l \in Members : Backed(l)' <=> Backed(l)
      BY <1>3, <1>10, <2>1
    <3>2. Outstanding' = Outstanding
      BY <1>2, <1>7, <3>1 DEF Outstanding
    <3> QED BY <1>2, <3>1, <3>2 DEF IInv, World, Prefix, WithinWindow
  <2>2. CASE r # Outcome /\ ~Backed(r)
    <3>1. r \in Members /\ r \in Nat
      <4>1. r \in Members
        BY <1>4, <1>5, <2>2
      <4> QED BY <1>2, <4>1
    <3>2. \A l \in Members : l < r => Backed(l)
      <4> SUFFICES ASSUME NEW l \in Members, l < r PROVE Backed(l)
        OBVIOUS
      <4>1. l \in Nat /\ l \in 1..r
        BY <1>2, <3>1
      <4>2. Backed(l) \/ l \in p.rows
        BY <1>1, <1>5, <3>1, <4>1 DEF PassSound, InOrder
      <4> QED BY <1>5, <3>1, <4>1, <4>2
    <3>3. \A l \in Members : Backed(l) => l < r
      <4> SUFFICES ASSUME NEW l \in Members, Backed(l) PROVE l < r
        OBVIOUS
      <4>1. ~(r < l)
        BY <2>2, <3>1 DEF IInv, World, Prefix
      <4>2. l \in Nat /\ l # r
        BY <1>2, <2>2
      <4> QED BY <3>1, <4>1, <4>2
    <3>4. Prefix'
      <4> SUFFICES ASSUME NEW m \in Members, NEW l \in Members, Backed(m)', l < m
                   PROVE  Backed(l)'
        BY <1>2 DEF Prefix
      <4>1. CASE m = r
        BY <1>10, <3>2, <4>1
      <4>2. CASE m # r
        BY <1>10, <4>2 DEF IInv, World, Prefix
      <4> QED BY <4>1, <4>2
    <3>5. Outstanding' \in SUBSET Unsettled(r)
      <4> SUFFICES ASSUME NEW l \in Members, Backed(l)', tasks[l].status \notin Terminal
                   PROVE  l \in Unsettled(r)
        BY <1>2, <1>7 DEF Outstanding
      <4>1. l \in Nat /\ l >= 1 /\ l <= r
        BY <1>2, <1>10, <3>1, <3>3
      <4> QED BY <3>1, <4>1 DEF Unsettled
    <3>6. Unsettled(r) \in SUBSET (1..N)
      BY <1>2, <3>1 DEF Unsettled
    <3>7. IsFiniteSet(Unsettled(r))
      BY <3>6, IntervalCount, FS_Subset
    <3>8. Cardinality(Outstanding') <= Cardinality(Unsettled(r))
          /\ Cardinality(Outstanding') \in Nat /\ Cardinality(Unsettled(r)) \in Nat
      BY <3>5, <3>7, FS_Subset, FS_CardinalityType
    <3>9. Cardinality(Unsettled(r)) <= Window
      BY <1>1, <1>5, <3>1 DEF PassSound, Room
    <3>10. WithinWindow'
      BY <1>2, <3>8, <3>9 DEF WithinWindow
    <3> QED BY <3>4, <3>10
  <2> QED BY <2>1, <2>2
<1>15. message' \in OutcomeType \cup {None} /\ Borne(message')
  BY <1>1, <1>7 DEF IInv, Typed, Store, PassType, RecordType, PassSound
<1>16. Typed'
  <2>1. rows' \subseteq Members \cup {Outcome}
    BY <1>4, <1>5, <1>7 DEF IInv, Typed
  <2> QED BY <1>7, <1>12, <1>15, <2>1, TypesQuiet DEF IInv, Typed
<1>17. Store'
  <2>1. \A o \in OutcomeType : Justified(o) => Justified(o)'
    BY <1>9, JustifiedStable DEF IInv
  <2>2. \A m \in journal'.sends : Backed(m)'
    BY <1>7, <1>10 DEF IInv, Store
  <2>3. Borne(journal.end)' /\ Borne(dlq)' /\ (record # None => Borne(record.outcome))'
    BY <1>7, <2>1 DEF IInv, Store, Borne, Typed, JournalType, RecordType
  <2>4. Borne(message)'
    BY <1>15, <2>1 DEF Borne
  <2> QED BY <1>7, <2>2, <2>3, <2>4 DEF Store, IInv
<1> QED BY <1>12, <1>13, <1>14, <1>16, <1>17 DEF IInv, World

-----------------------------------------------------------------------------
(***************************************************************************)
(* What a pass decides                                                     *)
(***************************************************************************)

\* All member tasks have been read, one by one, some of them a while ago.
Read(seen) ==
  /\ seen \in [Members -> TaskType]
  /\ \A m \in Members : /\ seen[m].status # None => tasks[m].status # None
                        /\ seen[m].status \in Terminal => seen[m] = tasks[m]

\* What the view has settled, the queue has, with the same result.
LEMMA ReadSettled ==
  ASSUME Typed, NEW seen, Read(seen)
  PROVE  /\ Settled(seen) \subseteq Settled(tasks) /\ Settled(tasks) \subseteq Members
         /\ Completed(seen) \subseteq Completed(tasks) /\ Completed(tasks) \subseteq Settled(tasks)
         /\ Settled(seen) \cap Completed(tasks) \subseteq Completed(seen)
         /\ Completed(seen) \subseteq Settled(seen)
         /\ \A m \in Settled(seen) : seen[m] = tasks[m]
BY DEF Read, Settled, Completed, Terminal

\* The first completions by the stamps of the records are as many as were asked for.
LEMMA EarliestCount ==
  ASSUME Typed, Clocked, NEW seen, Read(seen), NEW k \in Nat, k <= Cardinality(Completed(seen))
  PROVE  Earliest(seen, k) \subseteq Completed(seen) /\ Cardinality(Earliest(seen, k)) = k
<1> DEFINE S == Completed(seen)
           key == [m \in S |-> seen[m].at]
<1>1. S \subseteq Members /\ IsFiniteSet(Members)
  BY MembersFirst DEF Completed, Typed
<1>2. IsFiniteSet(S)
  BY <1>1, FS_Subset
<1>3. key \in [S -> Nat]
  BY <1>1 DEF Read, TaskType
<1>4. \A m, l \in S : key[m] = key[l] => m = l
  <2>1. \A m \in S : seen[m] = tasks[m] /\ tasks[m].status = "completed"
    BY <1>1 DEF Completed, Read, Terminal
  <2> QED BY <1>1, <2>1 DEF Clocked
<1>5. Earliest(seen, k) = FirstByKey(S, key, k)
  <2>1. \A m \in S : {o \in S : seen[o].at < seen[m].at} = {o \in S : key[o] < key[m]}
    OBVIOUS
  <2> QED BY <2>1 DEF Earliest, FirstByKey, Rank
<1>6. FirstByKey(S, key, k) \subseteq S
  BY DEF FirstByKey
<1> HIDE DEF S, key
<1>7. Cardinality(FirstByKey(S, key, k)) = k
  BY <1>2, <1>3, <1>4, FirstCount DEF S
<1> QED BY <1>5, <1>6, <1>7 DEF S

\* How a pattern may have come to a status with these contributions.
Grounded(status, contributing) ==
  CASE contract.pattern = "delegate" -> tasks[1].status = status
    [] contract.pattern = "race" ->
         IF status = "completed" THEN Cardinality(contributing) = 1
         ELSE Settled(tasks) = Members /\ Completed(tasks) = {}
    [] contract.pattern = "quorum" ->
         IF status = "completed" THEN Cardinality(contributing) = contract.k
         ELSE N - Cardinality(Settled(tasks) \ Completed(tasks)) < contract.k
    [] OTHER ->
         IF status = "completed"
         THEN Settled(tasks) = Members /\ contributing = Completed(tasks)
         ELSE \E m \in Members : tasks[m].status = "failed"

\* The plan of decide_settle: what each pattern may end with.
LEMMA PlanSound ==
  ASSUME Typed, Clocked, NEW seen, Read(seen), NEW submitted,
         NEW plan, plan = DecideSettle(seen, submitted), plan # None
  PROVE  /\ plan = Plan(plan.status, plan.contributing)
         /\ plan.status \in {"completed", "failed", "cancelled", "unreachable"}
         /\ plan.contributing \subseteq Completed(seen)
         /\ Grounded(plan.status, plan.contributing)
<1> DEFINE done == Completed(seen)
           failed == {m \in Members : seen[m].status = "failed"}
           all == AllTerminal(seen, submitted)
<1>1. /\ Settled(seen) \subseteq Settled(tasks) /\ Settled(tasks) \subseteq Members
      /\ done \subseteq Completed(tasks) /\ Completed(tasks) \subseteq Settled(tasks)
      /\ Settled(seen) \cap Completed(tasks) \subseteq done /\ done \subseteq Settled(seen)
      /\ \A m \in Settled(seen) : seen[m] = tasks[m]
  BY ReadSettled
<1>2. contract.pattern \in Patterns /\ contract.k \in 1..N
  BY DEF Typed
<1>3. all => Settled(tasks) = Members /\ Completed(tasks) = done
  BY <1>1 DEF AllTerminal
<1>4. \A s, c : Plan(s, c).status = s /\ Plan(s, c).contributing = c
  BY DEF Plan
<1>5. IsFiniteSet(Members) /\ 1 \in Members
  BY MembersFirst DEF Typed
<1>6. CASE contract.pattern = "delegate"
  <2>1. seen[1].status \in Terminal /\ plan = Plan(seen[1].status, done \cap {1})
    BY <1>6 DEF DecideSettle
  <2>2. seen[1] = tasks[1]
    BY <1>5, <2>1 DEF Read
  <2> QED BY <1>4, <1>6, <2>1, <2>2 DEF Terminal, Grounded
<1>7. CASE contract.pattern \in {"fan_out", "fail_fast"}
  <2>1. CASE contract.pattern = "fail_fast" /\ failed # {}
    <3>1. plan = Plan("failed", {})
      BY <2>1 DEF DecideSettle
    <3>2. \E m \in Members : tasks[m].status = "failed"
      <4>1. PICK m \in Members : seen[m].status = "failed"
        BY <2>1
      <4>2. seen[m] = tasks[m]
        BY <4>1 DEF Read, Terminal
      <4> QED BY <4>1, <4>2
    <3> QED BY <1>4, <2>1, <3>1, <3>2 DEF Grounded
  <2>2. CASE ~(contract.pattern = "fail_fast" /\ failed # {})
    <3>1. all /\ plan = Plan("completed", done)
      BY <1>7, <2>2 DEF DecideSettle
    <3> QED BY <1>3, <1>4, <1>7, <3>1 DEF Grounded
  <2> QED BY <2>1, <2>2
<1>8. CASE contract.pattern = "race"
  <2>1. CASE done # {}
    <3>1. plan = Plan("completed", Earliest(seen, 1))
      BY <1>8, <2>1 DEF DecideSettle
    <3>2. IsFiniteSet(done)
      BY <1>1, <1>5, FS_Subset
    <3>3. Cardinality(done) \in Nat /\ Cardinality(done) # 0
      BY <2>1, <3>2, FS_EmptySet, FS_CardinalityType
    <3>4. Earliest(seen, 1) \subseteq done /\ Cardinality(Earliest(seen, 1)) = 1
      BY <3>3, EarliestCount
    <3> QED BY <1>4, <1>8, <3>1, <3>4 DEF Grounded
  <2>2. CASE done = {}
    <3>1. all /\ plan = Plan("failed", {})
      BY <1>8, <2>2 DEF DecideSettle
    <3> QED BY <1>3, <1>4, <1>8, <2>2, <3>1 DEF Grounded
  <2> QED BY <2>1, <2>2
<1>9. CASE contract.pattern = "quorum"
  <2>1. CASE Cardinality(done) >= contract.k
    <3>1. plan = Plan("completed", Earliest(seen, contract.k))
      BY <1>9, <2>1 DEF DecideSettle
    <3>2. IsFiniteSet(done)
      BY <1>1, <1>5, FS_Subset
    <3>3. Cardinality(done) \in Nat
      BY <3>2, FS_CardinalityType
    <3>4. Earliest(seen, contract.k) \subseteq done
          /\ Cardinality(Earliest(seen, contract.k)) = contract.k
      BY <1>2, <2>1, <3>3, EarliestCount
    <3> QED BY <1>4, <1>9, <3>1, <3>4 DEF Grounded
  <2>2. CASE ~(Cardinality(done) >= contract.k)
    <3> DEFINE lost == Settled(seen) \ done
               lost2 == Settled(tasks) \ Completed(tasks)
    <3>1. N - Cardinality(lost) < contract.k /\ plan = Plan("unreachable", {})
      BY <1>9, <2>2 DEF DecideSettle
    <3>2. lost \in SUBSET lost2 /\ lost2 \in SUBSET Members
      BY <1>1
    <3> HIDE DEF lost, lost2
    <3>3. /\ Cardinality(lost) <= Cardinality(lost2)
          /\ Cardinality(lost) \in Nat /\ Cardinality(lost2) \in Nat
      BY <1>5, <3>2, FS_Subset, FS_CardinalityType
    <3>4. N - Cardinality(lost2) < contract.k
      BY <1>2, <3>1, <3>3
    <3> QED BY <1>4, <1>9, <3>1, <3>4 DEF lost2, Grounded
  <2> QED BY <2>1, <2>2
<1> QED BY <1>2, <1>6, <1>7, <1>8, <1>9 DEF Patterns

\* The outcome it makes of the plan.
LEMMA OutcomeSound ==
  ASSUME Typed, Clocked, NEW seen, Read(seen), NEW submitted,
         NEW plan, plan = DecideSettle(seen, submitted), plan # None
  PROVE  /\ OutcomeOf(plan, seen) \in OutcomeType
         /\ Justified(OutcomeOf(plan, seen))
         /\ NeedsDlq(plan) => /\ contract.pattern = "race"
                              /\ OutcomeOf(plan, seen).status = "failed"
<1> DEFINE o == OutcomeOf(plan, seen)
<1>1. /\ plan.status \in {"completed", "failed", "cancelled", "unreachable"}
      /\ plan.contributing \subseteq Completed(seen)
      /\ Grounded(plan.status, plan.contributing)
  BY PlanSound
<1>2. /\ o.status = plan.status /\ o.contributing = plan.contributing
      /\ o.members = [m \in Members |-> FinalDisposition(seen[m])]
  BY DEF OutcomeOf
<1>3. \A m \in Members : FinalDisposition(seen[m]) \in Terminal
  BY DEF FinalDisposition, Terminal
<1>4. Completed(seen) \subseteq Members
  BY DEF Completed
<1>5. o \in OutcomeType
  BY <1>1, <1>3, <1>4 DEF OutcomeOf, OutcomeType
<1>6. \A m \in o.contributing : tasks[m].status = "completed"
  BY <1>1, <1>2, ReadSettled DEF Completed
<1>7. \A m \in Members : o.members[m] # "cancelled" => tasks[m].status = o.members[m]
  BY <1>2 DEF FinalDisposition, Read
<1> HIDE DEF o
<1>8. Justified(o)
  BY <1>1, <1>2, <1>6, <1>7 DEF Justified, Grounded
<1>9. NeedsDlq(plan) => contract.pattern = "race" /\ o.status = "failed"
  BY <1>2 DEF NeedsDlq
<1> QED BY <1>5, <1>8, <1>9 DEF o

\* What a pass submits continues the contract where the submitted members end, and the
\* members up to the last one that have not settled fit the window.
LEMMA DueSound ==
  ASSUME Typed, NEW seen, Read(seen), NEW j \in JournalType, \A m \in j.sends : Backed(m),
         NEW admitted \in Nat, NEW due, due = ToSubmit(seen, j, admitted)
  PROVE  /\ due \subseteq Members
         /\ Submitted(seen, j) \subseteq Members
         /\ \A m \in Submitted(seen, j) : Backed(m)
         /\ \A m \in due : \A l \in 1..m : Backed(l) \/ l \in due
         /\ \A m \in due : Cardinality(Unsettled(m)) <= Window
<1> DEFINE waiting == Members \ Submitted(seen, j)
           flying == InFlight(seen, j)
           used == Cardinality(flying)
           room == IF used >= Window THEN 0 ELSE Window - used
           k == Min({room, admitted})
           key == [m \in waiting |-> m]
<1>1. /\ Members \subseteq 1..N /\ IsFiniteSet(Members)
      /\ Members = 1..Cardinality(Members) /\ Cardinality(Members) \in 1..N
      /\ Window \in Nat
  BY MembersFirst DEF Typed, Window
<1>2. Submitted(seen, j) \in SUBSET Members /\ flying \in SUBSET Members
  BY DEF Submitted, InFlight, JournalType
<1>3. \A m \in Submitted(seen, j) : Backed(m)
  BY DEF Submitted, Read, Backed
<1>4. IsFiniteSet(flying) /\ used \in Nat
  BY <1>1, <1>2, FS_Subset, FS_CardinalityType
<1>5. waiting \in SUBSET Members /\ IsFiniteSet(waiting)
  BY <1>1, FS_Subset
<1>6. due = {m \in waiting : Cardinality({w \in waiting : w < m}) < k}
  BY DEF ToSubmit
<1> HIDE DEF flying, used
<1>7. room \in Nat
  BY <1>1, <1>4
<1> HIDE DEF room
<1>8. k \in Nat /\ k <= room
  BY <1>7, LeastOf
<1> HIDE DEF k
<1>9. key \in [waiting -> Nat] /\ \A m, l \in waiting : key[m] = key[l] => m = l
  BY <1>1
<1>10. due = FirstByKey(waiting, key, k)
  <2>1. \A m \in waiting : {w \in waiting : w < m} = {w \in waiting : key[w] < key[m]}
    OBVIOUS
  <2> QED BY <1>6, <2>1 DEF FirstByKey, Rank
<1> HIDE DEF waiting, key
<1>11. IsFiniteSet(due) /\ Cardinality(due) <= k
  BY <1>5, <1>8, <1>9, <1>10, FirstCount
<1>12. ASSUME NEW m \in due, NEW l \in waiting, l <= m PROVE l \in due
  <2> DEFINE below(x) == {w \in waiting : w < x}
  <2>1. waiting \subseteq Nat
    BY <1>1, <1>5
  <2>2. below(l) \in SUBSET below(m) /\ below(m) \in SUBSET waiting
    <3>1. m \in waiting
      BY <1>6
    <3>2. m \in Nat /\ l \in Nat /\ \A w \in waiting : w \in Nat
      BY <2>1, <3>1
    <3>3. \A w \in waiting : w < l => w < m
      BY <1>12, <3>2
    <3> QED BY <3>3
  <2>3. Cardinality(below(m)) < k
    BY <1>6
  <2> HIDE DEF below
  <2>4. Cardinality(below(l)) <= Cardinality(below(m))
        /\ Cardinality(below(l)) \in Nat /\ Cardinality(below(m)) \in Nat
    BY <1>5, <2>2, FS_Subset, FS_CardinalityType
  <2>5. Cardinality(below(l)) < k
    BY <1>8, <2>3, <2>4
  <2> QED BY <1>6, <2>5 DEF below
<1>13. ASSUME NEW m \in due, NEW l \in 1..m
       PROVE  l \in Members /\ (l \in Submitted(seen, j) \/ l \in due)
  <2>1. m \in Members
    BY <1>5, <1>6
  <2>2. l \in Members
    BY <1>1, <2>1
  <2>3. l \in waiting \/ l \in Submitted(seen, j)
    BY <2>2 DEF waiting
  <2> QED BY <1>12, <1>13, <2>2, <2>3
<1>14. ASSUME NEW m \in due PROVE Cardinality(Unsettled(m)) <= Window
  <2>1. Unsettled(m) \in SUBSET (flying \cup due)
    <3> SUFFICES ASSUME NEW l \in 1..m, tasks[l].status \notin Terminal
                 PROVE  l \in flying \cup due
      BY DEF Unsettled
    <3>1. l \in Members /\ (l \in Submitted(seen, j) \/ l \in due)
      BY <1>13
    <3>2. l \notin Settled(seen)
      BY <3>1, ReadSettled DEF Settled
    <3> QED BY <3>1, <3>2 DEF flying, InFlight
  <2>2. /\ IsFiniteSet(flying \cup due)
        /\ Cardinality(flying \cup due) = used + Cardinality(due) - Cardinality(flying \cap due)
    BY <1>4, <1>11, FS_Union DEF used
  <2>3. Cardinality(flying \cap due) \in Nat /\ Cardinality(due) \in Nat
    <3>1. flying \cap due \in SUBSET flying
      OBVIOUS
    <3> QED BY <1>4, <1>11, <3>1, FS_Subset, FS_CardinalityType
  <2>4. Cardinality(Unsettled(m)) <= Cardinality(flying \cup due)
        /\ Cardinality(Unsettled(m)) \in Nat
    BY <2>1, <2>2, FS_Subset, FS_CardinalityType
  <2>5. k # 0
    <3>1. {w \in waiting : w < m} \in SUBSET waiting
      OBVIOUS
    <3>2. Cardinality({w \in waiting : w < m}) \in Nat
      BY <1>5, <3>1, FS_Subset, FS_CardinalityType
    <3>3. Cardinality({w \in waiting : w < m}) < k
      BY <1>6
    <3> QED BY <1>8, <3>2, <3>3
  <2>6. room = Window - used
    BY <1>8, <2>5 DEF room
  <2> QED BY <1>1, <1>4, <1>8, <1>11, <2>2, <2>3, <2>4, <2>6
<1>15. \A m \in due : \A l \in 1..m : Backed(l) \/ l \in due
  BY <1>3, <1>13
<1> QED BY <1>2, <1>3, <1>5, <1>6, <1>14, <1>15

\* The last task is read, and the pass decides: three ways to go on.
LEMMA DecideIInv ==
  ASSUME IInv, NEW d \in Drives, NEW admitted \in 0..N, Decide(d, admitted)
  PROVE  IInv'
<1> DEFINE p == drive[d]
           full == [p EXCEPT !.seen = Append(@, tasks[Len(@) + 1])]
           seen == full.seen
           j == full.journal
           due == ToSubmit(seen, j, admitted)
           submitted == Submitted(seen, j) \cup due
           plan == DecideSettle(seen, submitted)
           outcome == OutcomeOf(plan, seen)
           sent == [j EXCEPT !.sends = @ \cup due, !.receives = @ \cup Settled(seen)]
           ended == [sent EXCEPT !.receives = Members, !.end = outcome]
           losers == submitted \ (plan.contributing \cup Settled(seen))
           after == [full EXCEPT !.pc = "commit", !.seen = <<>>]
           waits == [after EXCEPT !.journal = sent, !.rows = due, !.dirty = @ \/ sent # j]
           settles == [after EXCEPT !.journal = ended,
                                    !.record = [settled |-> TRUE, outcome |-> outcome],
                                    !.cancels = losers, !.dlq = NeedsDlq(plan),
                                    !.rows = due \cup {Outcome}, !.dirty = TRUE]
<1>1. p \in PassType /\ PassSound(p) /\ p.pc = "tasks" /\ Len(p.seen) = Cardinality(Members) - 1
  BY DEF Decide, At, IInv, Typed, Passes
<1>2. UNCHANGED <<contract, tasks, rows, message, dlq, journal, record>>
  BY DEF Decide
<1>3. drive' = [drive EXCEPT ![d] = IF j.end # None THEN after
                                    ELSE IF plan = None THEN waits ELSE settles]
  BY Zenon DEF Decide
<1> HIDE DEF p
<1>4. /\ Cardinality(Members) \in 1..N /\ Members = 1..Cardinality(Members)
      /\ IsFiniteSet(Members) /\ Members \subseteq 1..N
  BY MembersFirst DEF IInv, Typed
<1>5. /\ seen = Append(p.seen, tasks[Cardinality(Members)]) /\ j = p.journal
      /\ full.record = p.record /\ full.rows = p.rows /\ full.cancels = p.cancels
      /\ full.dlq = p.dlq /\ full.dirty = p.dirty
  <2>1. Len(p.seen) + 1 = Cardinality(Members)
    BY <1>1, <1>4
  <2> QED BY <1>1, <2>1 DEF PassType
<1>6. Read(seen)
  <2> DEFINE c == Cardinality(Members)
  <2>1. p.seen \in Seq(TaskType) /\ DOMAIN p.seen = 1..(c - 1) /\ Len(p.seen) = c - 1
    BY <1>1, <1>4 DEF PassType
  <2>2. tasks[c] \in TaskType /\ c \in Nat \ {0}
    BY <1>4 DEF IInv, Typed
  <2> HIDE DEF c
  <2>3. \A i \in 1..c : seen[i] = IF i = c THEN tasks[c] ELSE p.seen[i]
    BY <1>5, <2>1, <2>2 DEF c
  <2>4. seen \in [1..c -> TaskType]
    <3> HIDE DEF seen
    <3>1. seen = Append(p.seen, tasks[c])
      BY <1>5 DEF c
    <3>2. seen \in Seq(TaskType) /\ Len(seen) = Len(p.seen) + 1
      BY <2>1, <2>2, <3>1
    <3>3. Len(seen) = c
      BY <2>1, <2>2, <3>2
    <3> QED BY <3>2, <3>3
  <2>5. \A i \in 1..c : i = c \/ i \in DOMAIN p.seen
    BY <2>1, <2>2
  <2>6. Members = 1..c
    BY <1>4 DEF c
  <2> QED BY <1>1, <2>3, <2>4, <2>5, <2>6 DEF Read, PassSound, ViewTrue
<1>7. j \in JournalType /\ p.rows = {} /\ (\A m \in j.sends : Backed(m)) /\ admitted \in Nat
  BY <1>1, <1>5 DEF PassType, PassSound, Claimed
<1>8. /\ after \in PassType /\ after.pc = "commit" /\ after.seen = <<>> /\ after.rows = {}
      /\ after.record = p.record /\ after.journal = j /\ after.dlq = p.dlq
  <2>1. full \in PassType
    <3>1. seen \in Seq(TaskType)
      <4>1. tasks[Cardinality(Members)] \in TaskType /\ p.seen \in Seq(TaskType)
        BY <1>1, <1>4 DEF IInv, Typed, PassType
      <4> QED BY <1>5, <4>1
    <3>2. full = [p EXCEPT !.seen = seen]
      BY <1>1 DEF PassType
    <3> HIDE DEF seen, full
    <3> QED BY <1>1, <3>1, <3>2 DEF PassType
  <2> HIDE DEF full, seen, j
  <2>2. <<>> \in Seq(TaskType) /\ after = [full EXCEPT !.pc = "commit", !.seen = <<>>]
    OBVIOUS
  <2>3. after.journal = full.journal
    BY <2>1, <2>2 DEF PassType
  <2> HIDE DEF after
  <2> QED BY <1>5, <1>7, <2>1, <2>2, <2>3 DEF PassType, j
<1> HIDE DEF full, after, seen, j
<1>9. /\ due \subseteq Members /\ Submitted(seen, j) \subseteq Members
      /\ \A m \in Submitted(seen, j) : Backed(m)
      /\ \A m \in due : \A l \in 1..m : Backed(l) \/ l \in due
      /\ \A m \in due : Cardinality(Unsettled(m)) <= Window
  BY <1>6, <1>7, DueSound DEF IInv
<1>10. Outcome \notin Members /\ Settled(seen) \subseteq Members
  BY <1>4 DEF Outcome, Settled
<1> HIDE DEF due
<1>11. sent \in JournalType /\ sent.sends = j.sends \cup due /\ sent.end = j.end
  BY <1>7, <1>9, <1>10 DEF JournalType
<1> HIDE DEF sent
<1>12. ASSUME NEW q \in PassType, q.pc = "commit", q.seen = <<>>,
              q.rows \cap Members = due, q.journal.sends = j.sends \cup due,
              Borne(q.journal.end), Borne(q.record.outcome),
              q.dlq => /\ contract.pattern = "race"
                       /\ q.record.outcome # None => q.record.outcome.status = "failed"
       PROVE  PassSound(q)
  <2>1. Claimed(q)
    BY <1>7, <1>12 DEF Claimed
  <2>2. ViewTrue(q)
    BY <1>4, <1>12 DEF ViewTrue
  <2>3. InOrder(q)
    BY <1>9, <1>12 DEF InOrder
  <2>4. Room(q)
    BY <1>9, <1>12 DEF Room
  <2> QED BY <1>12, <2>1, <2>2, <2>3, <2>4 DEF PassSound
<1>13. PassSound(after)
  BY <1>1, <1>4, <1>5, <1>7, <1>8 DEF PassSound, Claimed, ViewTrue, InOrder, Room
<1>14. CASE j.end # None
  <2>1. drive' = [drive EXCEPT ![d] = after]
    BY <1>3, <1>14
  <2> QED BY <1>2, <1>8, <1>13, <2>1, PassMoves
<1>15. CASE j.end = None /\ plan = None
  <2>1. drive' = [drive EXCEPT ![d] = waits]
    BY <1>3, <1>15
  <2>2. (after.dirty \/ sent # j) \in BOOLEAN
    BY Zenon
  <2> DEFINE b == after.dirty \/ sent # j
  <2> HIDE DEF b
  <2>3. waits = [after EXCEPT !.journal = sent, !.rows = due, !.dirty = b]
    BY DEF b
  <2>4. b \in BOOLEAN
    BY <2>2 DEF b
  <2> HIDE DEF waits
  <2>5. /\ waits \in PassType /\ waits.pc = "commit" /\ waits.seen = <<>> /\ waits.rows = due
        /\ waits.journal = sent /\ waits.record = p.record /\ waits.dlq = p.dlq
    BY <1>8, <1>9, <1>11, <2>3, <2>4 DEF PassType
  <2>6. PassSound(waits)
    <3>1. Borne(waits.journal.end)
      BY <1>11, <1>15, <2>5 DEF Borne
    <3> QED BY <1>1, <1>9, <1>11, <1>12, <2>5, <3>1 DEF PassSound
  <2> QED BY <1>2, <2>1, <2>5, <2>6, PassMoves
<1>16. CASE j.end = None /\ plan # None
  <2>1. drive' = [drive EXCEPT ![d] = settles]
    BY <1>3, <1>16
  <2>2. /\ outcome \in OutcomeType /\ Justified(outcome)
        /\ NeedsDlq(plan) => contract.pattern = "race" /\ outcome.status = "failed"
    BY <1>6, <1>16, OutcomeSound DEF IInv, World
  <2>3. NeedsDlq(plan) \in BOOLEAN
    BY Zenon DEF NeedsDlq
  <2> DEFINE b == NeedsDlq(plan)
             r == [settled |-> TRUE, outcome |-> outcome]
  <2>4. losers \in SUBSET Members
    BY <1>9
  <2> HIDE DEF losers, outcome, submitted, plan
  <2>5. r \in RecordType /\ r.outcome = outcome
    <3>1. TRUE \in BOOLEAN
      OBVIOUS
    <3> QED BY <2>2, <3>1 DEF RecordType
  <2>6. ended \in JournalType /\ ended.sends = j.sends \cup due /\ ended.end = outcome
    BY <1>11, <2>2 DEF JournalType
  <2>7. settles = [after EXCEPT !.journal = ended, !.record = r, !.cancels = losers, !.dlq = b,
                                !.rows = due \cup {Outcome}, !.dirty = TRUE]
    BY DEF b, r
  <2> HIDE DEF settles, ended, r, b
  <2>8. TRUE \in BOOLEAN /\ b \in BOOLEAN /\ due \cup {Outcome} \in SUBSET (Members \cup {Outcome})
    BY <1>9, <2>3 DEF b
  <2>9. /\ settles \in PassType /\ settles.pc = "commit" /\ settles.seen = <<>>
        /\ settles.rows = due \cup {Outcome} /\ settles.journal = ended
        /\ settles.record = r /\ settles.dlq = b
    BY <1>8, <2>4, <2>5, <2>6, <2>7, <2>8 DEF PassType
  <2>10. PassSound(settles)
    <3>1. settles.rows \cap Members = due
      BY <1>9, <1>10, <2>9
    <3>2. Borne(settles.journal.end) /\ Borne(settles.record.outcome)
      BY <2>2, <2>5, <2>6, <2>9 DEF Borne
    <3>3. settles.dlq => contract.pattern = "race" /\ settles.record.outcome.status = "failed"
      BY <2>2, <2>5, <2>9 DEF b
    <3> QED BY <1>12, <2>6, <2>9, <3>1, <3>2, <3>3
  <2> QED BY <1>2, <2>1, <2>9, <2>10, PassMoves
<1> QED BY <1>14, <1>15, <1>16

-----------------------------------------------------------------------------
(***************************************************************************)
(* The theorems                                                            *)
(***************************************************************************)

\* Every step of Next, and stuttering, keeps the invariant.
LEMMA NextIInv == IInv /\ [Next]_vars => IInv'
<1> SUFFICES ASSUME IInv, [Next]_vars PROVE IInv'
  OBVIOUS
<1>1. ASSUME NEW d \in Drives, NEW admitted \in BOOLEAN, Submit(d, admitted) PROVE IInv'
  BY <1>1, SubmitIInv
<1>2. ASSUME NEW d \in Drives, Begin(d) PROVE IInv'
  BY <1>2, BeginIInv
<1>3. ASSUME NEW d \in Drives, DriveStep(d) PROVE IInv'
  <2>1. ASSUME NEW admitted \in 0..N, Decide(d, admitted) PROVE IInv'
    BY <2>1, DecideIInv
  <2>2. ASSUME NEW leased \in BOOLEAN, CancelMember(d, leased) PROVE IInv'
    BY <2>2, CancelMemberIInv
  <2> QED
    BY <1>3, <2>1, <2>2, ReadJournalIInv, ReadTaskIInv, DeadLetterIInv, PushRowIInv,
       WriteJournalIInv, WriteRecordIInv DEF DriveStep
<1>4. ASSUME NEW d \in Drives, DriveDies(d) PROVE IInv'
  BY <1>4, DriveDiesIInv
<1>5. ASSUME NEW r \in 1..Outcome, Relay(r) PROVE IInv'
  BY <1>5, RelayIInv
<1>6. ASSUME NEW m \in 1..N, Work(m) PROVE IInv'
  BY <1>6, SettleIInv DEF Work
<1>7. ASSUME NEW m \in 1..N, Expire(m) PROVE IInv'
  BY <1>7, ExpireIInv
<1>8. CASE UNCHANGED vars
  <2>1. UNCHANGED <<contract, tasks, rows, message, dlq, journal, record, drive>>
    BY <1>8 DEF vars
  <2>2. World' /\ Evolves
    BY <2>1, WorldQuiet DEF IInv
  <2>3. Store' /\ Passes'
    BY <2>1, <2>2, StoreStable, PassesIdle DEF IInv
  <2>4. Typed'
    BY <2>1, TypesQuiet DEF IInv, Typed
  <2> QED BY <2>2, <2>3, <2>4 DEF IInv
<1> QED BY <1>1, <1>2, <1>3, <1>4, <1>5, <1>6, <1>7, <1>8 DEF Next

LEMMA Inductive == Spec => []IInv
BY InitIInv, NextIInv, PTL DEF Spec

\* journal_and_enqueue: however many passes overlap, overwrite each other's journal and
\* die, the journal claims no submission without a row or a task.
THEOREM NoPhantomSends == Spec => []SendsBacked
<1>1. IInv => SendsBacked
  <2> SUFFICES ASSUME IInv PROVE SendsBacked
    OBVIOUS
  <2>1. Members \subseteq 1..N
    BY MembersFirst DEF IInv, Typed
  <2>2. CoordTypeOK
    <3>1. \A m \in Members : tasks[m].status \in Terminal \cup {"open", None}
      BY <2>1 DEF IInv, Typed, TaskType
    <3>2. /\ journal.sends \subseteq Members /\ journal.receives \subseteq Members
          /\ {message, dlq, journal.end} \subseteq OutcomeType \cup {None}
          /\ record # None => record.outcome \in OutcomeType \cup {None}
      BY DEF IInv, Typed, JournalType, RecordType
    <3> QED BY <3>1, <3>2 DEF CoordTypeOK, IInv, Typed
  <2> QED BY <2>2 DEF SendsBacked, IInv, Store, Backed
<1> QED BY <1>1, Inductive, PTL

\* The fan-out window: overlapping passes, each with an old count, never have more
\* members at work or on their way than it allows.
THEOREM Backpressure == Spec => []WindowRespected
<1>1. IInv => WindowRespected
  <2> SUFFICES ASSUME IInv PROVE WindowRespected
    OBVIOUS
  <2>1. Members \subseteq 1..N
    BY MembersFirst DEF IInv, Typed
  <2>2. \A m \in Members : tasks[m].status \in Terminal \cup {"open", None}
    BY <2>1 DEF IInv, Typed, TaskType
  <2>3. Outstanding = {m \in Members : tasks[m].status = "open"
                                         \/ (m \in rows /\ tasks[m].status = None)}
    BY <2>2 DEF Outstanding, Backed, Terminal
  <2> QED BY <2>3 DEF WindowRespected, IInv, World, WithinWindow
<1> QED BY <1>1, Inductive, PTL

\* decide_settle, from tasks read one by one while others settle: every result that is
\* recorded, journaled, sent or dead-lettered is one the member tasks bear out.
THEOREM ResultsBorneOut == Spec => []OutcomeJustified
<1>1. IInv => OutcomeJustified
  BY DEF OutcomeJustified, IInv, Store, Borne
<1> QED BY <1>1, Inductive, PTL
=============================================================================
