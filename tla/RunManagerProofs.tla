-------------------------- MODULE RunManagerProofs --------------------------
(***************************************************************************)
(* Invariance proofs for RunManager, for any set of runs, threads, caps    *)
(* and numbers of faults, cancellations and restarts.                      *)
(*                                                                         *)
(* There are two layers.  What the manager keeps in memory (ManagerInv) is *)
(* sound whatever the store and the restore do.  What relates memory to    *)
(* the store (BootInv) needs that a run the boot may still come to is      *)
(* known to the manager as long as it lives in this process: the restore   *)
(* recognises a run it must skip by looking it up among the retained ones. *)
(***************************************************************************)
EXTENDS RunManager, TLAPS, FiniteSetTheorems, FunctionTheorems, SequenceTheorems,
        WellFoundedInduction, NaturalsInduction

USE RunAssumption

-----------------------------------------------------------------------------
(***************************************************************************)
(* retain                                                                  *)
(***************************************************************************)

\* Counting up to each of its members numbers a finite set of indices without gaps.
LEMMA RankCovers ==
  ASSUME NEW len \in Nat, NEW at \in SUBSET (1..len)
  PROVE  /\ IsFiniteSet(at) /\ Cardinality(at) \in Nat
         /\ \A i \in at : Cardinality({j \in at : j <= i}) \in 1..Cardinality(at)
         /\ \A i, k \in at :
              Cardinality({j \in at : j <= i}) = Cardinality({j \in at : j <= k}) => i = k
         /\ \A n \in 1..Cardinality(at) :
              \E i \in at : Cardinality({j \in at : j <= i}) = n
<1>1. IsFiniteSet(at) /\ Cardinality(at) \in Nat
  <2>1. IsFiniteSet(1..len)
    BY FS_Interval
  <2>2. IsFiniteSet(at)
    BY <2>1, FS_Subset
  <2> QED BY <2>2, FS_CardinalityType
<1> DEFINE upto(i) == {j \in at : j <= i}
           rank == [i \in at |-> Cardinality(upto(i))]
<1>2. \A i \in at : IsFiniteSet(upto(i)) /\ Cardinality(upto(i)) \in 1..Cardinality(at)
  <2> SUFFICES ASSUME NEW i \in at
               PROVE  IsFiniteSet(upto(i)) /\ Cardinality(upto(i)) \in 1..Cardinality(at)
    OBVIOUS
  <2>1. upto(i) \in SUBSET at /\ i \in upto(i)
    OBVIOUS
  <2>2. IsFiniteSet(upto(i)) /\ Cardinality(upto(i)) <= Cardinality(at)
    BY <1>1, <2>1, FS_Subset
  <2>3. Cardinality(upto(i)) \in Nat /\ Cardinality(upto(i)) # 0
    BY <2>1, <2>2, FS_CardinalityType, FS_EmptySet
  <2> HIDE DEF upto
  <2> QED BY <1>1, <2>2, <2>3
<1>3. \A i, k \in at : i < k => Cardinality(upto(i)) < Cardinality(upto(k))
  <2> SUFFICES ASSUME NEW i \in at, NEW k \in at, i < k
               PROVE  Cardinality(upto(i)) < Cardinality(upto(k))
    OBVIOUS
  <2>0. \A j \in at : j \in Nat
    OBVIOUS
  <2>1. upto(i) \cup {k} \in SUBSET upto(k) /\ k \notin upto(i)
    <3>1. \A j \in at : j <= i => j <= k
      BY <2>0
    <3>2. ~(k <= i) /\ k <= k
      BY <2>0
    <3> QED BY <3>1, <3>2
  <2> HIDE DEF upto
  <2>2. Cardinality(upto(i) \cup {k}) = Cardinality(upto(i)) + 1
    BY <1>2, <2>1, FS_AddElement
  <2>3. Cardinality(upto(i) \cup {k}) <= Cardinality(upto(k))
    BY <1>2, <2>1, FS_Subset
  <2> QED BY <1>2, <2>2, <2>3
<1>4. rank \in Injection(at, 1..Cardinality(at))
  <2> HIDE DEF upto
  <2>1. rank \in [at -> 1..Cardinality(at)]
    BY <1>2
  <2>2. \A i, k \in at : rank[i] = rank[k] => i = k
    <3> SUFFICES ASSUME NEW i \in at, NEW k \in at, Cardinality(upto(i)) = Cardinality(upto(k))
                 PROVE  i = k
      OBVIOUS
    <3>1. ~(i < k) /\ ~(k < i)
      BY <1>2, <1>3
    <3> QED BY <3>1
  <2> QED BY <2>1, <2>2 DEF Injection, IsInjective
<1>5. IsFiniteSet(1..Cardinality(at)) /\ Cardinality(1..Cardinality(at)) = Cardinality(at)
  BY <1>1, FS_Interval
<1>6. rank \in Surjection(at, 1..Cardinality(at))
  BY <1>4, <1>5, FS_Injection
<1>7. \A n \in 1..Cardinality(at) : \E i \in at : rank[i] = n
  BY <1>6 DEF Surjection
<1>8. \A i, k \in at : rank[i] = rank[k] => i = k
  BY <1>4 DEF Injection, IsInjective
<1> QED BY <1>1, <1>2, <1>7, <1>8

\* An element appears once at most.
Distinct(s) == \A i, j \in DOMAIN s : s[i] = s[j] => i = j

Elements(s) == {s[i] : i \in DOMAIN s}

\* retain keeps exactly the elements asked for and repeats none.
LEMMA RetainKeeps ==
  ASSUME NEW S, NEW s \in Seq(S), NEW kept
  PROVE  /\ retain(s, kept) \in Seq(S)
         /\ Elements(retain(s, kept)) = Elements(s) \cap kept
         /\ Distinct(s) => Distinct(retain(s, kept))
<1> DEFINE at == {i \in DOMAIN s : s[i] \in kept}
           count(i) == Cardinality({j \in at : j <= i})
           nth(n) == CHOOSE i \in at : count(i) = n
           m == Cardinality(at)
<1>1. Len(s) \in Nat /\ DOMAIN s = 1..Len(s) /\ at \in SUBSET (1..Len(s))
  OBVIOUS
<1>2. /\ m \in Nat
      /\ \A i \in at : count(i) \in 1..m
      /\ \A i, k \in at : count(i) = count(k) => i = k
      /\ \A n \in 1..m : \E i \in at : count(i) = n
  <2> DEFINE len == Len(s)
  <2>1. len \in Nat /\ at \in SUBSET (1..len)
    BY <1>1
  <2> HIDE DEF at, len
  <2> QED BY <2>1, RankCovers, ZenonT(40)
<1>3. \A n \in 1..m : nth(n) \in at /\ count(nth(n)) = n
  <2> HIDE DEF at, count, m
  <2> QED BY <1>2
<1>4. \A i \in at : nth(count(i)) = i
  <2> HIDE DEF at, count, nth, m
  <2> QED BY <1>2, <1>3
<1>5. retain(s, kept) = [n \in 1..m |-> s[nth(n)]]
  BY DEF retain
<1>6. \A n \in 1..m : nth(n) \in DOMAIN s /\ s[nth(n)] \in S \cap kept
  <2>1. \A i \in at : i \in DOMAIN s /\ s[i] \in S \cap kept
    BY <1>1
  <2> HIDE DEF at, nth, m
  <2> QED BY <1>3, <2>1
<1> DEFINE t == retain(s, kept)
<1>7. t \in Seq(S) /\ DOMAIN t = 1..m /\ \A n \in 1..m : t[n] = s[nth(n)]
  <2> HIDE DEF at, nth, m
  <2>1. t \in [1..m -> S]
    BY <1>5, <1>6
  <2> QED BY <1>2, <1>5, <2>1, IsASeq
<1>8. Elements(t) = Elements(s) \cap kept
  <2>1. ASSUME NEW x \in Elements(s) \cap kept PROVE x \in Elements(t)
    <3>1. PICK i \in DOMAIN s : s[i] = x
      BY <2>1 DEF Elements
    <3>2. i \in at
      BY <2>1, <3>1
    <3> HIDE DEF at, count, nth, m, t
    <3>3. count(i) \in 1..m /\ t[count(i)] = x
      BY <1>2, <1>4, <1>7, <3>1, <3>2
    <3> QED BY <1>7, <3>3 DEF Elements
  <2>2. ASSUME NEW x \in Elements(t) PROVE x \in Elements(s) \cap kept
    <3> HIDE DEF at, count, nth, m, t
    <3> QED BY <1>6, <1>7, <2>2 DEF Elements
  <2> QED BY <2>1, <2>2
<1>9. ASSUME Distinct(s) PROVE Distinct(t)
  <2> HIDE DEF at, count, nth, m, t
  <2> SUFFICES ASSUME NEW a \in 1..m, NEW b \in 1..m, s[nth(a)] = s[nth(b)] PROVE a = b
    BY <1>7 DEF Distinct
  <2>1. nth(a) = nth(b)
    BY <1>6, <1>9 DEF Distinct
  <2> QED BY <1>3, <2>1
<1> QED BY <1>7, <1>8, <1>9

-----------------------------------------------------------------------------
(***************************************************************************)
(* The manager's memory                                                    *)
(***************************************************************************)

Pends(r) == HasStatus(r, "pending")
Runs_(r) == HasStatus(r, "running")

\* The restore is at r or still has it to do.
Listed(r) == restore.cur = r \/ \E a \in restore.todo : a.run = r

\* A run is driven by a task exactly while it holds the slot of its thread.
Slots ==
  /\ \A r \in Runs : task[r] # "none" => Runs_(r)
  /\ \A r \in Runs : Runs_(r) => active[thread_id[r]] = r
  /\ \A t \in Threads : active[t] # None => task[active[t]] # "none" /\ thread_id[active[t]] = t

\* The queue of a thread is its pending runs.
Lines ==
  \A t \in Threads :
    /\ Distinct(queues[t])
    /\ Elements(queues[t]) = {r \in Runs : thread_id[r] = t /\ Pends(r)}
    /\ queues[t] # <<>> => active[t] # None \/ draining

\* A slot is given up without a promotion only in a drain.
Drained == \A r \in Runs : task[r] = "release" => draining

\* A run that was not inserted yet is unknown, and nothing of it is in the store
\* unless its record was written.
Fresh ==
  \A r \in Runs :
    /\ submit[r].stage \in {"none", "insert"} => runs[r] = None /\ r \notin journals
    /\ submit[r].stage \in {"none", "insert", "persist", "undo", "answered"} =>
         records[r] = None /\ ~Listed(r)

\* The restore names a run exactly while it works on one.
Naming == (restore.cur # None) <=> restore.stage \in {"insert", "start"}

ManagerInv == RunTypeOK /\ Slots /\ Lines /\ Drained /\ Fresh /\ Naming

\* A handle is written: the others keep their status.
LEMMA SetHandle ==
  ASSUME runs \in [Runs -> Handle \cup {None}], NEW r \in Runs,
         NEW status \in Status, NEW token \in BOOLEAN,
         runs' = [runs EXCEPT ![r] = [status |-> status, token |-> token]]
  PROVE  /\ runs' \in [Runs -> Handle \cup {None}]
         /\ \A q \in Runs : Known(q)' <=> Known(q) \/ q = r
         /\ \A q \in Runs : \A s : HasStatus(q, s)' <=>
              IF q = r THEN s = status ELSE HasStatus(q, s)
<1> DEFINE h == [status |-> status, token |-> token]
<1>1. h \in Handle /\ h.status = status
  BY DEF Handle
<1>2. h # None
  BY <1>1, NoneAssumption, Zenon
<1> HIDE DEF h
<1>3. \A q \in Runs : runs'[q] = IF q = r THEN h ELSE runs[q]
  BY DEF h
<1> QED BY <1>1, <1>2, <1>3 DEF Known, HasStatus, h

\* A run at the end of a queue.
LEMMA AppendElement ==
  ASSUME NEW S, NEW s \in Seq(S), NEW x \in S, x \notin Elements(s), Distinct(s)
  PROVE  /\ Append(s, x) \in Seq(S)
         /\ Distinct(Append(s, x))
         /\ Elements(Append(s, x)) = Elements(s) \cup {x}
<1> DEFINE t == Append(s, x)
           n == Len(s)
<1>1. /\ t \in Seq(S) /\ DOMAIN t = 1..(n + 1) /\ DOMAIN s = 1..n /\ n \in Nat
      /\ \A i \in 1..n : t[i] = s[i]
      /\ t[n + 1] = x
  BY AppendProperties
<1> HIDE DEF t, n
<1>2. Distinct(t)
  <2> SUFFICES ASSUME NEW i \in 1..(n + 1), NEW j \in 1..(n + 1), t[i] = t[j] PROVE i = j
    BY <1>1 DEF Distinct
  <2>1. CASE i \in 1..n /\ j \in 1..n
    BY <1>1, <2>1 DEF Distinct
  <2>2. CASE i = n + 1 /\ j \in 1..n
    BY <1>1, <2>2 DEF Elements
  <2>3. CASE j = n + 1 /\ i \in 1..n
    BY <1>1, <2>3 DEF Elements
  <2> QED BY <1>1, <2>1, <2>2, <2>3
<1>3. ASSUME NEW y \in Elements(t) PROVE y \in Elements(s) \cup {x}
  <2>1. PICK i \in 1..(n + 1) : y = t[i]
    BY <1>1, <1>3 DEF Elements
  <2>2. i \in 1..n \/ i = n + 1
    BY <1>1
  <2> QED BY <1>1, <2>1, <2>2 DEF Elements
<1>4. ASSUME NEW y \in Elements(s) \cup {x} PROVE y \in Elements(t)
  <2>1. \A i \in 1..n : i \in 1..(n + 1)
    BY <1>1
  <2>2. n + 1 \in 1..(n + 1)
    BY <1>1
  <2> QED BY <1>1, <1>4, <2>1, <2>2 DEF Elements
<1> QED BY <1>1, <1>2, <1>3, <1>4 DEF t

\* Memory is sound after a step that leaves it alone.
LEMMA MemoryKept ==
  ASSUME Slots, Lines, Drained, UNCHANGED memory
  PROVE  Slots' /\ Lines' /\ Drained'
BY DEF Slots, Lines, Drained, memory, Runs_, Pends, HasStatus, Known

\* A task that goes from one stage to the next keeps its slot.
LEMMA StageKept ==
  ASSUME RunTypeOK, Slots, Lines, Drained, UNCHANGED <<runs, active, queues, draining>>,
         \A q \in Runs : /\ task'[q] = "none" <=> task[q] = "none"
                         /\ task'[q] = "release" => task[q] = "release" \/ draining
  PROVE  Slots' /\ Lines' /\ Drained'
<1>1. \A q \in Runs : (Runs_(q)' <=> Runs_(q)) /\ (Pends(q)' <=> Pends(q))
  BY DEF Runs_, Pends, HasStatus, Known
<1>2. \A t \in Threads : active'[t] # None => active'[t] \in Runs
  BY DEF RunTypeOK
<1>3. Slots'
  BY <1>1, <1>2 DEF Slots
<1>4. Lines'
  BY <1>1 DEF Lines
<1> QED BY <1>3, <1>4 DEF Drained

\* The empty manager of the first process.
LEMMA InitManager == Init => ManagerInv
<1> SUFFICES ASSUME Init PROVE ManagerInv
  OBVIOUS
<1>1. RunTypeOK
  <2>1. draining \in BOOLEAN
    BY Zenon DEF Init
  <2>2. NoneLeft \in RestoreState
    BY DEF RestoreState, NoneLeft
  <2>3. [stage |-> "none", seq |-> 0] \in Submission
    BY DEF Submission
  <2> QED BY <2>1, <2>2, <2>3 DEF Init, RunTypeOK, TaskStage
<1>2. Lines
  BY DEF Init, Lines, Distinct, Elements, Pends, HasStatus, Known
<1> QED
  BY <1>1, <1>2 DEF Init, ManagerInv, Slots, Drained, Fresh, Naming, Listed, NoneLeft,
     Runs_, HasStatus, Known

\* What a done record leaves of the restore.
LEMMA DoneTyped ==
  ASSUME NEW s \in RestoreState
  PROVE  /\ Done(s) \in RestoreState
         /\ Done(s).cur = None /\ Done(s).stage = "next"
         /\ Done(s).todo = s.todo
BY DEF Done, RestoreState, NoneLeft

\* The answers of insert keep the memory sound when the run was not there.
LEMMA InsertKeeps ==
  ASSUME ManagerInv, NEW r \in Runs, runs[r] = None, draining' = draining
  PROVE  /\ \A stage \in TaskStage \ {"none", "release"} :
              InsertStarted(r) /\ task' = [task EXCEPT ![r] = stage] => Slots' /\ Lines' /\ Drained'
         /\ \A cap \in Nat : InsertQueued(r, cap) /\ task' = task => Slots' /\ Lines' /\ Drained'
         /\ \A cap \in Nat : \A s : InsertRefused(r, s, cap) /\ task' = task => Slots' /\ Lines' /\ Drained'
         /\ (InsertStarted(r) \/ \E cap \in Nat : \E s : InsertQueued(r, cap) \/ InsertRefused(r, s, cap))
              => /\ runs' \in [Runs -> Handle \cup {None}]
                 /\ active' \in [Threads -> Runs \cup {None}]
                 /\ queues' \in [Threads -> Seq(Runs)]
                 /\ order' \in Seq(Runs) /\ queue_seq' \in Nat
<1> DEFINE t == thread_id[r]
<1>0. /\ t \in Threads /\ r \in Nat /\ r # None
      /\ {"running", "pending"} \subseteq Status /\ FALSE \in BOOLEAN
      /\ ~Pends(r) /\ ~Runs_(r)
  BY DEF Status, Pends, Runs_, HasStatus, Known
<1>5. ASSUME InsertStarted(r)
      PROVE  /\ runs' \in [Runs -> Handle \cup {None}]
             /\ \A q \in Runs : \A s : HasStatus(q, s)' <=>
                  IF q = r THEN s = "running" ELSE HasStatus(q, s)
  <2>1. runs \in [Runs -> Handle \cup {None}]
        /\ runs' = [runs EXCEPT ![r] = [status |-> "running", token |-> FALSE]]
    BY <1>5 DEF InsertStarted, ManagerInv, RunTypeOK
  <2>2. "running" \in Status
    BY DEF Status
  <2> QED BY <1>0, <2>1, <2>2, SetHandle, Zenon
<1>6. ASSUME \E cap \in Nat : InsertQueued(r, cap)
      PROVE  /\ runs' \in [Runs -> Handle \cup {None}]
             /\ \A q \in Runs : \A s : HasStatus(q, s)' <=>
                  IF q = r THEN s = "pending" ELSE HasStatus(q, s)
  <2>1. runs \in [Runs -> Handle \cup {None}]
        /\ runs' = [runs EXCEPT ![r] = [status |-> "pending", token |-> FALSE]]
    BY <1>6 DEF InsertQueued, ManagerInv, RunTypeOK
  <2>2. "pending" \in Status
    BY DEF Status
  <2> QED BY <1>0, <2>1, <2>2, SetHandle, Zenon
<1>1. ASSUME InsertStarted(r), NEW stage \in TaskStage \ {"none", "release"},
             task' = [task EXCEPT ![r] = stage]
      PROVE  Slots' /\ Lines' /\ Drained'
  <2>1. active[t] = None /\ active' = [active EXCEPT ![t] = r] /\ queues' = queues
    BY <1>1 DEF InsertStarted, busy
  <2>2. \A q \in Runs : (Pends(q)' <=> Pends(q)) /\ (Runs_(q)' <=> Runs_(q) \/ q = r)
    BY <1>0, <1>1, <1>5 DEF Pends, Runs_
  <2>3. Slots'
    BY <1>0, <1>1, <2>1, <2>2 DEF Slots, ManagerInv, RunTypeOK
  <2>4. Lines'
    BY <1>0, <2>1, <2>2 DEF Lines, ManagerInv, RunTypeOK
  <2>5. Drained'
    BY <1>1 DEF Drained, ManagerInv, RunTypeOK
  <2> QED BY <2>3, <2>4, <2>5
<1>2. ASSUME NEW cap \in Nat, InsertQueued(r, cap), task' = task
      PROVE  Slots' /\ Lines' /\ Drained'
  <2>1. active[t] # None /\ active' = active /\ queues' = [queues EXCEPT ![t] = Append(@, r)]
    BY <1>2 DEF InsertQueued, busy
  <2>2. \A q \in Runs : (Runs_(q)' <=> Runs_(q)) /\ (Pends(q)' <=> Pends(q) \/ q = r)
    BY <1>0, <1>2, <1>6 DEF Pends, Runs_
  <2>3. Slots'
    BY <1>2, <2>1, <2>2 DEF Slots, ManagerInv, RunTypeOK
  <2>4. Lines'
    <3> SUFFICES ASSUME NEW u \in Threads
                 PROVE  /\ Distinct(queues'[u])
                        /\ Elements(queues'[u]) = {q \in Runs : thread_id[q] = u /\ Pends(q)'}
                        /\ queues'[u] # <<>> => active'[u] # None \/ draining'
      BY DEF Lines
    <3>1. CASE u # t
      <4>1. queues'[u] = queues[u]
        BY <2>1, <3>1 DEF ManagerInv, RunTypeOK
      <4>2. \A q \in Runs : thread_id[q] = u => (Pends(q)' <=> Pends(q))
        BY <2>2, <3>1
      <4>3. /\ Distinct(queues[u])
            /\ Elements(queues[u]) = {q \in Runs : thread_id[q] = u /\ Pends(q)}
            /\ queues[u] # <<>> => active[u] # None \/ draining
        BY <1>0 DEF Lines, ManagerInv
      <4>4. {q \in Runs : thread_id[q] = u /\ Pends(q)'} = {q \in Runs : thread_id[q] = u /\ Pends(q)}
        BY <4>2
      <4> QED BY <2>1, <4>1, <4>3, <4>4
    <3>2. CASE u = t
      <4>1. queues[t] \in Seq(Runs) /\ queues'[t] = Append(queues[t], r)
        BY <1>0, <2>1 DEF ManagerInv, RunTypeOK
      <4>2. Distinct(queues[t]) /\ Elements(queues[t]) = {q \in Runs : thread_id[q] = t /\ Pends(q)}
        BY <1>0 DEF Lines, ManagerInv
      <4>3. r \notin Elements(queues[t])
        BY <1>0, <4>2
      <4>4. Distinct(queues'[t]) /\ Elements(queues'[t]) = Elements(queues[t]) \cup {r}
        BY <4>1, <4>2, <4>3, AppendElement
      <4>5. r \in Runs /\ thread_id[r] = t
        OBVIOUS
      <4>6. {q \in Runs : thread_id[q] = t /\ Pends(q)'}
            = {q \in Runs : thread_id[q] = t /\ Pends(q)} \cup {r}
        BY <2>2, <4>5
      <4> QED BY <2>1, <3>2, <4>2, <4>4, <4>6
    <3> QED BY <3>1, <3>2
  <2>5. Drained'
    BY <1>2 DEF Drained, ManagerInv
  <2> QED BY <2>3, <2>4, <2>5
<1>3. ASSUME NEW cap \in Nat, NEW s, InsertRefused(r, s, cap), task' = task
      PROVE  Slots' /\ Lines' /\ Drained'
  BY <1>3 DEF InsertRefused, Slots, Lines, Drained, ManagerInv, Runs_, Pends, HasStatus, Known
<1>4. ASSUME InsertStarted(r) \/ \E cap \in Nat : \E s : InsertQueued(r, cap) \/ InsertRefused(r, s, cap)
      PROVE  /\ runs' \in [Runs -> Handle \cup {None}]
             /\ active' \in [Threads -> Runs \cup {None}]
             /\ queues' \in [Threads -> Seq(Runs)]
             /\ order' \in Seq(Runs) /\ queue_seq' \in Nat
  <2>1. order' = Append(order, r) /\ queue_seq' = queue_seq + 1
    BY <1>4 DEF InsertStarted, InsertQueued, InsertRefused, Stamp
  <2>2. queues' = queues \/ queues' = [queues EXCEPT ![t] = Append(@, r)]
    BY <1>4 DEF InsertStarted, InsertQueued, InsertRefused
  <2>3. queues' \in [Threads -> Seq(Runs)]
    <3>1. queues \in [Threads -> Seq(Runs)]
      BY DEF ManagerInv, RunTypeOK
    <3>2. Append(queues[t], r) \in Seq(Runs)
      BY <1>0, <3>1, AppendProperties
    <3> QED BY <1>0, <2>2, <3>1, <3>2
  <2>4. active' \in [Threads -> Runs \cup {None}]
    BY <1>0, <1>4 DEF InsertStarted, InsertQueued, InsertRefused, ManagerInv, RunTypeOK
  <2>5. runs' \in [Runs -> Handle \cup {None}]
    <3>1. CASE InsertStarted(r)
      BY <1>5, <3>1
    <3>2. CASE \E cap \in Nat : InsertQueued(r, cap)
      BY <1>6, <3>2
    <3>3. CASE \E cap \in Nat : \E s : InsertRefused(r, s, cap)
      BY <3>3 DEF InsertRefused, ManagerInv, RunTypeOK
    <3> QED BY <1>4, <3>1, <3>2, <3>3
  <2> QED BY <2>1, <2>3, <2>4, <2>5 DEF ManagerInv, RunTypeOK
<1> QED BY <1>1, <1>2, <1>3, <1>4

\* A pending run leaves its queue, for good or because it ends.
LEMMA LeavesLine ==
  ASSUME ManagerInv, NEW r \in Runs, Pends(r),
         queues' = queue_without(r), active' = active, draining' = draining, task' = task,
         \A q \in Runs : (Runs_(q)' <=> Runs_(q)) /\ (Pends(q)' <=> Pends(q) /\ q # r)
  PROVE  Slots' /\ Lines' /\ Drained' /\ queues' \in [Threads -> Seq(Runs)]
<1> DEFINE t == thread_id[r]
           left == retain(queues[t], Runs \ {r})
<1>1. t \in Threads /\ queues \in [Threads -> Seq(Runs)] /\ queues[t] \in Seq(Runs)
  BY DEF ManagerInv, RunTypeOK
<1>2. /\ left \in Seq(Runs) /\ Elements(left) = Elements(queues[t]) \cap (Runs \ {r})
      /\ Distinct(queues[t]) => Distinct(left)
  BY <1>1, RetainKeeps
<1> HIDE DEF left
<1>3. queues' = [queues EXCEPT ![t] = left]
  BY DEF queue_without, left
<1>4. Lines'
  <2> SUFFICES ASSUME NEW u \in Threads
               PROVE  /\ Distinct(queues'[u])
                      /\ Elements(queues'[u]) = {q \in Runs : thread_id[q] = u /\ Pends(q)'}
                      /\ queues'[u] # <<>> => active'[u] # None \/ draining'
    BY DEF Lines
  <2>0. /\ Distinct(queues[u])
        /\ Elements(queues[u]) = {q \in Runs : thread_id[q] = u /\ Pends(q)}
        /\ queues[u] # <<>> => active[u] # None \/ draining
    BY DEF Lines, ManagerInv
  <2>1. CASE u # t
    <3>1. queues'[u] = queues[u]
      BY <1>1, <1>3, <2>1
    <3>2. \A q \in Runs : thread_id[q] = u => (Pends(q)' <=> Pends(q))
      BY <2>1
    <3> QED BY <2>0, <3>1, <3>2
  <2>2. CASE u = t
    <3>1. queues'[u] = left
      BY <1>1, <1>3, <2>2
    <3>2. queues[u] # <<>>
      <4>1. r \in Elements(queues[u])
        BY <2>0, <2>2
      <4> QED BY <4>1 DEF Elements
    <3> QED BY <1>2, <2>0, <2>2, <3>1, <3>2
  <2> QED BY <2>1, <2>2
<1>5. Slots' /\ Drained'
  BY DEF Slots, Drained, ManagerInv
<1> QED BY <1>1, <1>2, <1>3, <1>4, <1>5

\* A set of numbers that is not empty has a least one.
LEMMA LeastIndex ==
  ASSUME NEW S \in SUBSET Nat, S # {}
  PROVE  \E n \in S : \A m \in S : n <= m
<1>1. PICK n \in S : \A m \in S : <<m, n>> \notin OpToRel(<, Nat)
  BY NatLessThanWellFounded, WFMin
<1>2. \A m \in S : ~(m < n)
  BY <1>1 DEF OpToRel
<1> QED BY <1>2

\* The number of entries the eviction pops.
LEMMA ScanBounded ==
  ASSUME NEW handles, order \in Seq(Runs)
  PROVE  EvictionScan(handles) \in 0..Len(order)
<1> DEFINE counted(n) == Cardinality({i \in 1..n : Evictable(handles, order[i])})
           enough == {n \in 0..Len(order) : counted(n) >= excess(handles)}
<1>1. Len(order) \in Nat /\ enough \subseteq Nat /\ enough \subseteq 0..Len(order)
  OBVIOUS
<1>2. EvictionScan(handles) =
        IF enough = {} THEN Len(order) ELSE CHOOSE n \in enough : \A m \in enough : n <= m
  BY DEF EvictionScan
<1> HIDE DEF enough
<1>3. ASSUME enough # {} PROVE \E n \in enough : \A m \in enough : n <= m
  BY <1>1, <1>3, LeastIndex
<1> DEFINE least == CHOOSE n \in enough : \A m \in enough : n <= m
<1>4. enough # {} => least \in enough
  BY <1>3, Zenon
<1> HIDE DEF least
<1>5. EvictionScan(handles) = IF enough = {} THEN Len(order) ELSE least
  BY <1>2 DEF least
<1>6. Len(order) \in 0..Len(order)
  BY <1>1
<1>7. CASE enough = {}
  BY <1>5, <1>6, <1>7
<1>8. CASE enough # {}
  BY <1>1, <1>4, <1>5, <1>8
<1> QED BY <1>7, <1>8

\* Eviction takes terminal runs only.
LEMMA EvictKeeps ==
  ASSUME NEW handles \in [Runs -> Handle \cup {None}], order \in Seq(Runs), Evict(handles)
  PROVE  /\ runs' \in [Runs -> Handle \cup {None}] /\ order' \in Seq(Runs)
         /\ \A q \in Runs : runs'[q] = handles[q] \/ (runs'[q] = None /\ handles[q].status = "terminal")
<1> DEFINE n == EvictionScan(handles)
           scanned == SubSeq(order, 1, n)
           popped == {scanned[i] : i \in DOMAIN scanned}
           stay == retain(scanned, {r \in Runs : ~Evictable(handles, r)})
           rest == SubSeq(order, Len(scanned) + 1, Len(order))
<1>1. n \in 0..Len(order) /\ Len(order) \in Nat
  BY ScanBounded
<1> HIDE DEF n
<1>2. scanned \in Seq(Runs) /\ Len(scanned) = n
  BY <1>1, SubSeqProperties
<1>3. rest \in Seq(Runs)
  <2> HIDE DEF scanned
  <2> QED BY <1>1, <1>2, SubSeqProperties
<1>4. stay \in Seq(Runs)
  <2> HIDE DEF scanned
  <2> QED BY <1>2, RetainKeeps
<1>5. order' = rest \o stay
      /\ runs' = [r \in Runs |-> IF r \in popped /\ Evictable(handles, r) THEN None ELSE handles[r]]
  BY DEF Evict, n
<1> HIDE DEF rest, stay, popped, scanned
<1>6. order' \in Seq(Runs)
  BY <1>3, <1>4, <1>5, ConcatProperties
<1> QED BY <1>5, <1>6 DEF Evictable

\* A record is cleared, or a fault is counted.
LEMMA ClearTyped ==
  ASSUME RunTypeOK, NEW r \in Runs, clear_pending_record(r)
  PROVE  /\ records' \in [Runs -> Nat \cup {None}] /\ faults' \in 0..MaxFaults
         /\ \A q \in Runs : records'[q] = records[q] \/ (q = r /\ records'[q] = None)
         /\ faults' = 0 => records'[r] = None
         /\ faults' = 0 => faults = 0
BY DEF clear_pending_record, StoreFails, RunTypeOK

\* The stage of one submission moves.
LEMMA GotoTyped ==
  ASSUME RunTypeOK, NEW r \in Runs,
         NEW stage \in {"none", "insert", "persist", "check", "sweep", "undo",
                        "answered", "queued", "lost"},
         Goto(r, stage)
  PROVE  /\ submit' \in [Runs -> Submission]
         /\ submit'[r].stage = stage
         /\ \A q \in Runs : q # r => submit'[q] = submit[q]
<1>1. submit[r] \in Submission /\ submit \in [Runs -> Submission]
  BY DEF RunTypeOK
<1>2. [submit[r] EXCEPT !.stage = stage] \in Submission
      /\ [submit[r] EXCEPT !.stage = stage].stage = stage
  BY <1>1 DEF Submission
<1>3. submit' = [submit EXCEPT ![r] = [submit[r] EXCEPT !.stage = stage]]
  BY DEF Goto
<1> QED BY <1>1, <1>2, <1>3

LEMMA ScheduleKeeps ==
  ASSUME ManagerInv, NEW r \in Runs, Schedule(r)
  PROVE  ManagerInv'
<1>1. UNCHANGED <<memory, durable, told, bounds, cancel, restore>> /\ Goto(r, "insert") /\ At(r, "none")
  BY DEF Schedule
<1>2. submit' \in [Runs -> Submission] /\ \A q \in Runs : q # r => submit'[q] = submit[q]
  BY <1>1, GotoTyped DEF ManagerInv
<1>3. RunTypeOK'
  BY <1>1, <1>2 DEF ManagerInv, RunTypeOK, memory, durable, bounds
<1>4. Slots' /\ Lines' /\ Drained'
  BY <1>1, MemoryKept DEF ManagerInv
<1>5. Fresh'
  BY <1>1, <1>2 DEF Fresh, ManagerInv, At, Listed, memory, durable
<1>6. Naming'
  BY <1>1 DEF Naming, ManagerInv
<1> QED BY <1>3, <1>4, <1>5, <1>6 DEF ManagerInv

LEMMA ScheduleInsertKeeps ==
  ASSUME ManagerInv, NEW r \in Runs, NEW strategy \in {"enqueue", "reject"},
         ScheduleInsert(r, strategy)
  PROVE  ManagerInv'
<1>1. /\ UNCHANGED <<draining, durable, told, bounds, cancel, restore>>
      /\ submit[r].stage = "insert"
  BY DEF ScheduleInsert, At
<1>2. runs[r] = None /\ r \notin journals /\ records[r] = None /\ ~Listed(r)
  BY <1>1 DEF ManagerInv, Fresh
<1>3. \/ InsertStarted(r) /\ task' = [task EXCEPT ![r] = "execute"] /\ Goto(r, "answered")
      \/ /\ InsertQueued(r, QueueCap) /\ task' = task
         /\ submit' = [submit EXCEPT ![r] = [stage |-> "persist", seq |-> queue_seq']]
      \/ InsertRefused(r, strategy, QueueCap) /\ task' = task /\ Goto(r, "answered")
  BY DEF ScheduleInsert
<1>4. Slots' /\ Lines' /\ Drained'
  <2>1. "execute" \in TaskStage \ {"none", "release"}
    BY DEF TaskStage
  <2> QED BY <1>1, <1>2, <1>3, <2>1, InsertKeeps
<1>5. /\ runs' \in [Runs -> Handle \cup {None}] /\ active' \in [Threads -> Runs \cup {None}]
      /\ queues' \in [Threads -> Seq(Runs)] /\ order' \in Seq(Runs) /\ queue_seq' \in Nat
  <2>1. InsertStarted(r) \/ InsertQueued(r, QueueCap) \/ InsertRefused(r, strategy, QueueCap)
    BY <1>3
  <2> QED BY <1>1, <1>2, <2>1, InsertKeeps
<1>6. /\ submit' \in [Runs -> Submission] /\ submit'[r].stage \in {"answered", "persist"}
      /\ \A q \in Runs : q # r => submit'[q] = submit[q]
  <2>1. CASE Goto(r, "answered")
    BY <2>1, GotoTyped DEF ManagerInv
  <2>2. CASE submit' = [submit EXCEPT ![r] = [stage |-> "persist", seq |-> queue_seq']]
    <3>1. [stage |-> "persist", seq |-> queue_seq'] \in Submission
      BY <1>5 DEF Submission
    <3> QED BY <2>2, <3>1 DEF ManagerInv, RunTypeOK
  <2> QED BY <1>3, <2>1, <2>2
<1>7. task' \in [Runs -> TaskStage]
  BY <1>3 DEF ManagerInv, RunTypeOK, TaskStage
<1>8. RunTypeOK'
  BY <1>1, <1>5, <1>6, <1>7 DEF ManagerInv, RunTypeOK, durable, bounds
<1>9. \A q \in Runs : q # r => runs'[q] = runs[q]
  BY <1>3 DEF InsertStarted, InsertQueued, InsertRefused, ManagerInv, RunTypeOK
<1>10. Fresh'
  BY <1>1, <1>2, <1>6, <1>9 DEF Fresh, ManagerInv, Listed, durable
<1>11. Naming'
  BY <1>1 DEF Naming, ManagerInv
<1> QED BY <1>4, <1>8, <1>10, <1>11 DEF ManagerInv

LEMMA SchedulePersistKeeps ==
  ASSUME ManagerInv, NEW r \in Runs, SchedulePersist(r)
  PROVE  ManagerInv'
<1>1. /\ UNCHANGED <<memory, journals, told, restarts, cancels, cancel, restore>>
      /\ submit[r].stage = "persist" /\ submit[r].seq \in Nat
      /\ \/ /\ records' = [records EXCEPT ![r] = submit[r].seq] /\ Goto(r, "check") /\ faults' = faults
         \/ /\ StoreFails /\ Goto(r, "undo") /\ records' = records
  BY DEF SchedulePersist, At, ManagerInv, RunTypeOK, Submission
<1>2. /\ submit' \in [Runs -> Submission] /\ submit'[r].stage \in {"check", "undo"}
      /\ submit'[r].stage = "undo" => records' = records
      /\ \A q \in Runs : q # r => submit'[q] = submit[q]
  BY <1>1, GotoTyped DEF ManagerInv
<1>3. records' \in [Runs -> Nat \cup {None}] /\ faults' \in 0..MaxFaults
      /\ \A q \in Runs : q # r => records'[q] = records[q]
  BY <1>1 DEF StoreFails, ManagerInv, RunTypeOK
<1>4. RunTypeOK'
  BY <1>1, <1>2, <1>3 DEF ManagerInv, RunTypeOK, memory
<1>5. Slots' /\ Lines' /\ Drained'
  BY <1>1, MemoryKept DEF ManagerInv
<1>6. Fresh'
  BY <1>1, <1>2, <1>3 DEF Fresh, ManagerInv, Listed, memory
<1>7. Naming'
  BY <1>1 DEF Naming, ManagerInv
<1> QED BY <1>4, <1>5, <1>6, <1>7 DEF ManagerInv

LEMMA ScheduleUndoKeeps ==
  ASSUME ManagerInv, NEW r \in Runs, ScheduleUndo(r)
  PROVE  ManagerInv'
<1>1. /\ UNCHANGED <<active, queue_seq, task, draining, durable, told, bounds, cancel, restore>>
      /\ submit[r].stage = "undo" /\ Goto(r, "answered")
  BY DEF ScheduleUndo, At
<1>2. /\ submit' \in [Runs -> Submission] /\ submit'[r].stage = "answered"
      /\ \A q \in Runs : q # r => submit'[q] = submit[q]
  BY <1>1, GotoTyped DEF ManagerInv
<1>3. /\ Slots' /\ Lines' /\ Drained'
      /\ queues' \in [Threads -> Seq(Runs)] /\ runs' \in [Runs -> Handle \cup {None}]
      /\ order' \in Seq(Runs)
      /\ \A q \in Runs : runs[q] = None => runs'[q] = None
  <2>1. CASE ~Pends(r)
    <3>1. UNCHANGED memory
      BY <1>1, <2>1 DEF ScheduleUndo, Pends, memory
    <3> QED BY <3>1, MemoryKept DEF memory, ManagerInv, RunTypeOK
  <2>2. CASE Pends(r)
    <3>1. queues' = queue_without(r) /\ runs' = [runs EXCEPT ![r] = None]
          /\ order' = retain(order, Runs \ {r})
      BY <2>2 DEF ScheduleUndo, Pends
    <3>2. order' \in Seq(Runs)
      <4>1. order \in Seq(Runs)
        BY DEF ManagerInv, RunTypeOK
      <4> QED BY <3>1, <4>1, RetainKeeps
    <3>3. runs' \in [Runs -> Handle \cup {None}]
          /\ \A q \in Runs : runs'[q] = IF q = r THEN None ELSE runs[q]
      BY <3>1 DEF ManagerInv, RunTypeOK
    <3>4. \A q \in Runs : (Runs_(q)' <=> Runs_(q)) /\ (Pends(q)' <=> Pends(q) /\ q # r)
      BY <2>2, <3>3 DEF Pends, Runs_, HasStatus, Known
    <3>5. Slots' /\ Lines' /\ Drained' /\ queues' \in [Threads -> Seq(Runs)]
      BY <1>1, <2>2, <3>1, <3>4, LeavesLine
    <3> QED BY <3>2, <3>3, <3>5
  <2> QED BY <2>1, <2>2
<1>4. RunTypeOK'
  BY <1>1, <1>2, <1>3 DEF ManagerInv, RunTypeOK, durable, bounds
<1>5. Fresh'
  BY <1>1, <1>2, <1>3 DEF Fresh, ManagerInv, Listed, durable
<1>6. Naming'
  BY <1>1 DEF Naming, ManagerInv
<1> QED BY <1>3, <1>4, <1>5, <1>6 DEF ManagerInv

LEMMA ScheduleEndKeeps ==
  ASSUME ManagerInv, NEW r \in Runs, ScheduleCheck(r) \/ ScheduleSweep(r)
  PROVE  ManagerInv'
<1>1. /\ UNCHANGED <<memory, journals, told, restarts, cancels, cancel, restore>>
      /\ submit[r].stage \in {"check", "sweep"}
      /\ \E stage \in {"queued", "sweep"} : Goto(r, stage)
      /\ (records' = records /\ faults' = faults) \/ clear_pending_record(r)
  BY DEF ScheduleCheck, ScheduleSweep, At, durable, bounds
<1>2. /\ submit' \in [Runs -> Submission] /\ submit'[r].stage \in {"queued", "sweep"}
      /\ \A q \in Runs : q # r => submit'[q] = submit[q]
  BY <1>1, GotoTyped DEF ManagerInv
<1>3. records' \in [Runs -> Nat \cup {None}] /\ faults' \in 0..MaxFaults
      /\ \A q \in Runs : q # r => records'[q] = records[q]
  BY <1>1, ClearTyped DEF ManagerInv, RunTypeOK
<1>4. RunTypeOK'
  BY <1>1, <1>2, <1>3 DEF ManagerInv, RunTypeOK, memory
<1>5. Slots' /\ Lines' /\ Drained'
  BY <1>1, MemoryKept DEF ManagerInv
<1>6. Fresh'
  BY <1>1, <1>2, <1>3 DEF Fresh, ManagerInv, Listed, memory
<1>7. Naming'
  BY <1>1 DEF Naming, ManagerInv
<1> QED BY <1>4, <1>5, <1>6, <1>7 DEF ManagerInv

LEMMA SpawnKeeps ==
  ASSUME ManagerInv, NEW r \in Runs, SpawnPromoted(r)
  PROVE  ManagerInv'
<1>1. /\ UNCHANGED <<runs, active, queues, order, queue_seq, draining,
                     journals, told, restarts, cancels, submit, cancel>>
      /\ task[r] = "clear" /\ clear_pending_record(r)
      /\ task' = [task EXCEPT ![r] = "execute"]
      /\ restore' = restore \/ (restore.stage = "start" /\ restore' = Done(restore))
  BY DEF SpawnPromoted
<1>2. records' \in [Runs -> Nat \cup {None}] /\ faults' \in 0..MaxFaults
      /\ \A q \in Runs : records'[q] = records[q] \/ records'[q] = None
  BY <1>1, ClearTyped DEF ManagerInv
<1>3. /\ restore' \in RestoreState /\ Naming'
      /\ \A q \in Runs : Listed(q)' => Listed(q)
  <2>1. CASE restore' = restore
    BY <2>1 DEF ManagerInv, RunTypeOK, Naming, Listed
  <2>2. CASE restore' = Done(restore)
    <3>1. /\ restore' \in RestoreState /\ restore'.cur = None /\ restore'.stage = "next"
          /\ restore'.todo = restore.todo
      BY <2>2, DoneTyped DEF ManagerInv, RunTypeOK
    <3> QED BY <3>1 DEF Naming, Listed
  <2> QED BY <1>1, <2>1, <2>2
<1>4. task' \in [Runs -> TaskStage]
  BY <1>1 DEF ManagerInv, RunTypeOK, TaskStage
<1>5. RunTypeOK'
  BY <1>1, <1>2, <1>3, <1>4 DEF ManagerInv, RunTypeOK
<1>6. Slots' /\ Lines' /\ Drained'
  <2>1. \A q \in Runs : task'[q] = IF q = r THEN "execute" ELSE task[q]
    BY <1>1 DEF ManagerInv, RunTypeOK
  <2> QED BY <1>1, <2>1, StageKept DEF ManagerInv
<1>7. Fresh'
  BY <1>1, <1>2, <1>3 DEF Fresh, ManagerInv
<1> QED BY <1>3, <1>5, <1>6, <1>7 DEF ManagerInv

LEMMA ExecuteKeeps ==
  ASSUME ManagerInv, NEW r \in Runs, FlushJournal(r) \/ EndRun(r)
  PROVE  ManagerInv'
<1>1. /\ UNCHANGED <<runs, active, queues, order, queue_seq, draining, records, told, bounds,
                     submit, cancel, restore>>
      /\ task[r] = "execute"
      /\ journals' \in {journals, journals \cup {r}}
      /\ \/ task' = task
         \/ task' = [task EXCEPT ![r] = IF draining THEN "release" ELSE "promote"]
  BY DEF FlushJournal, EndRun, memory
<1>2. task' \in [Runs -> TaskStage]
  BY <1>1 DEF ManagerInv, RunTypeOK, TaskStage
<1>3. RunTypeOK'
  BY <1>1, <1>2 DEF ManagerInv, RunTypeOK, bounds
<1>4. \A q \in Runs : (task'[q] = "none" <=> task[q] = "none")
                      /\ (task'[q] = "release" => task[q] = "release" \/ draining)
  BY <1>1 DEF ManagerInv, RunTypeOK
<1>5. Slots' /\ Lines' /\ Drained'
  BY <1>1, <1>4, StageKept DEF ManagerInv
<1>6. Known(r)
  BY <1>1 DEF ManagerInv, Slots, Runs_, HasStatus
<1>8. Fresh'
  BY <1>1, <1>6 DEF Fresh, ManagerInv, Listed, Known
<1>9. Naming'
  BY <1>1 DEF Naming, ManagerInv
<1> QED BY <1>3, <1>5, <1>8, <1>9 DEF ManagerInv

\* The slot goes to the head of the queue, or is free.
LEMMA FinishKeeps ==
  ASSUME ManagerInv, NEW r \in Runs, Finish(r)
  PROVE  /\ ManagerInv'
         /\ \A q \in Runs : task'[q] # "none" => task[q] # "none" \/ (Pends(q) /\ task'[q] = "clear")
         /\ \A q \in Runs : runs'[q] # None =>
              \/ Pends(q) /\ (Pends(q)' \/ task'[q] = "clear")
              \/ runs[q] # None /\ ~Pends(q) /\ ~Pends(q)'
                 /\ (task'[q] = task[q] \/ task[q] \in {"promote", "release"})
         /\ task'[r] = "none" /\ \A q \in Runs : q # r /\ task'[q] = "none" => task[q] = "none"
         /\ \E handles \in [Runs -> Handle \cup {None}] :
              /\ Evict(handles)
              /\ \A q \in Runs : /\ handles[q] = None <=> runs[q] = None
                                 /\ Evictable(handles, q) => q = r \/ HasStatus(q, "terminal")
<1> DEFINE t == thread_id[r]
           next == next_queued(r)
           released == IF active[t] = r THEN None ELSE active[t]
           ended == [runs EXCEPT ![r].status = "terminal"]
           handles == [q \in Runs |-> IF q = next /\ ended[q] # None
                                      THEN [ended[q] EXCEPT !.status = "running"] ELSE ended[q]]
<1>1. /\ task[r] \in {"promote", "release"}
      /\ active' = [active EXCEPT ![t] = IF next = None THEN released ELSE next]
      /\ queues' = [queues EXCEPT ![t] = IF next = None THEN @ ELSE Tail(@)]
      /\ task' = [q \in Runs |-> IF q = next THEN "clear" ELSE IF q = r THEN "none" ELSE task[q]]
      /\ Evict(handles)
      /\ UNCHANGED <<queue_seq, draining, durable, told, bounds, submit, cancel, restore>>
  BY DEF Finish
<1>2. /\ t \in Threads /\ r # None /\ Runs_(r) /\ active[t] = r /\ ~Pends(r)
      /\ runs \in [Runs -> Handle \cup {None}] /\ runs[r] \in Handle
      /\ queues \in [Threads -> Seq(Runs)] /\ queues[t] \in Seq(Runs)
      /\ task \in [Runs -> TaskStage] /\ active \in [Threads -> Runs \cup {None}]
  <2>1. /\ runs \in [Runs -> Handle \cup {None}] /\ queues \in [Threads -> Seq(Runs)]
        /\ task \in [Runs -> TaskStage] /\ active \in [Threads -> Runs \cup {None}]
    BY DEF ManagerInv, RunTypeOK
  <2>2. t \in Threads /\ r # None
    OBVIOUS
  <2>3. Runs_(r) /\ active[t] = r
    BY <1>1 DEF ManagerInv, Slots
  <2>4. runs[r] \in Handle /\ ~Pends(r)
    BY <2>1, <2>3 DEF Runs_, Pends, HasStatus, Known
  <2> QED BY <2>1, <2>2, <2>3, <2>4
<1>3. /\ Distinct(queues[t]) /\ Elements(queues[t]) = {q \in Runs : thread_id[q] = t /\ Pends(q)}
  BY <1>2 DEF ManagerInv, Lines
<1>4. \/ /\ next = None
         /\ queues[t] = <<>> \/ draining
      \/ /\ next \in Runs /\ thread_id[next] = t /\ Pends(next) /\ next # r
         /\ Tail(queues[t]) \in Seq(Runs) /\ Distinct(Tail(queues[t]))
         /\ Elements(Tail(queues[t])) = Elements(queues[t]) \ {next}
  <2>1. CASE task[r] = "promote" /\ queues[t] # <<>>
    <3>1. next = Head(queues[t])
      BY <2>1 DEF next_queued
    <3> DEFINE s == queues[t]
               rest == Tail(s)
    <3>2. /\ s \in Seq(Runs) /\ Len(s) \in Nat /\ Len(s) > 0 /\ DOMAIN s = 1..Len(s)
          /\ Head(s) = s[1]
          /\ rest \in Seq(Runs) /\ DOMAIN rest = 1..(Len(s) - 1)
          /\ \A i \in 1..(Len(s) - 1) : rest[i] = s[i + 1]
      BY <1>2, <2>1, HeadTailProperties
    <3> HIDE DEF s, rest
    <3>3. Distinct(s) /\ next = s[1]
      BY <1>3, <3>1, <3>2 DEF s
    <3>4. Distinct(rest)
      <4> SUFFICES ASSUME NEW i \in 1..(Len(s) - 1), NEW j \in 1..(Len(s) - 1), rest[i] = rest[j]
                   PROVE  i = j
        BY <3>2 DEF Distinct
      <4>1. i + 1 \in DOMAIN s /\ j + 1 \in DOMAIN s /\ s[i + 1] = s[j + 1]
        BY <3>2
      <4>2. i + 1 = j + 1
        BY <3>3, <4>1 DEF Distinct
      <4> QED BY <4>2
    <3>5. Elements(rest) = Elements(s) \ {next}
      <4>1. ASSUME NEW x \in Elements(rest) PROVE x \in Elements(s) \ {next}
        <5>1. PICK i \in 1..(Len(s) - 1) : x = rest[i]
          BY <3>2, <4>1 DEF Elements
        <5>2. i + 1 \in DOMAIN s /\ x = s[i + 1] /\ 1 \in DOMAIN s /\ i + 1 # 1
          BY <3>2, <5>1
        <5> QED BY <3>3, <5>2 DEF Elements, Distinct
      <4>2. ASSUME NEW x \in Elements(s) \ {next} PROVE x \in Elements(rest)
        <5>1. PICK i \in 1..Len(s) : x = s[i]
          BY <3>2, <4>2 DEF Elements
        <5>2. i # 1
          BY <3>3, <4>2, <5>1
        <5>3. i - 1 \in 1..(Len(s) - 1) /\ (i - 1) + 1 = i
          BY <3>2, <5>2
        <5>4. rest[i - 1] = x
          BY <3>2, <5>1, <5>3
        <5> QED BY <3>2, <5>3, <5>4 DEF Elements
      <4> QED BY <4>1, <4>2
    <3>6. next \in Elements(s)
      BY <3>2, <3>3 DEF Elements
    <3>7. next \in Runs /\ thread_id[next] = t /\ Pends(next)
      BY <1>3, <3>6 DEF s
    <3> QED BY <1>2, <3>2, <3>4, <3>5, <3>7 DEF s, rest
  <2>2. CASE ~(task[r] = "promote" /\ queues[t] # <<>>)
    <3>1. next = None
      BY <2>2 DEF next_queued
    <3>2. queues[t] = <<>> \/ draining
      BY <1>1, <2>2 DEF ManagerInv, Drained
    <3> QED BY <3>1, <3>2
  <2> QED BY <2>1, <2>2
<1> HIDE DEF next
<1>5. /\ handles \in [Runs -> Handle \cup {None}]
      /\ \A q \in Runs :
           /\ handles[q] = None <=> runs[q] = None
           /\ runs[q] # None =>
                handles[q].status = IF q = r THEN "terminal" ELSE IF q = next THEN "running" ELSE runs[q].status
  <2>1. \A h \in Handle, s \in Status : [h EXCEPT !.status = s] \in Handle
                                        /\ [h EXCEPT !.status = s].status = s
    BY DEF Handle
  <2>2. ended \in [Runs -> Handle \cup {None}]
        /\ \A q \in Runs : ended[q] = IF q = r THEN [runs[q] EXCEPT !.status = "terminal"] ELSE runs[q]
    <3>1. ended = [runs EXCEPT ![r] = [runs[r] EXCEPT !.status = "terminal"]]
      OBVIOUS
    <3>2. [runs[r] EXCEPT !.status = "terminal"] \in Handle
      BY <1>2, <2>1 DEF Status
    <3> QED BY <1>2, <3>1, <3>2
  <2>3. None \notin Handle
    BY NoneAssumption
  <2>4. next # None => next \in Runs /\ next # r
    BY <1>4
  <2> HIDE DEF ended
  <2>5. \A q \in Runs : handles[q] = IF q = next /\ ended[q] # None
                                     THEN [ended[q] EXCEPT !.status = "running"] ELSE ended[q]
    OBVIOUS
  <2>6. {"running", "terminal"} \subseteq Status
    BY DEF Status
  <2>7. \A q \in Runs : ended[q] # None => ended[q] \in Handle
    BY <2>2
  <2>8. handles \in [Runs -> Handle \cup {None}]
    BY <2>1, <2>2, <2>6, <2>7
  <2> HIDE DEF handles
  <2>9. \A q \in Runs : ended[q] = None <=> runs[q] = None
    <3>1. \A q \in Runs : q # r => ended[q] = runs[q]
      BY <2>2
    <3>2. [runs[r] EXCEPT !.status = "terminal"] \in Handle
      BY <1>2, <2>1, <2>6
    <3>3. ended[r] # None /\ runs[r] # None
      BY <1>2, <2>2, <2>3, <3>2
    <3> QED BY <3>1, <3>3
  <2>10. \A q \in Runs : handles[q] = None <=> runs[q] = None
    <3> SUFFICES ASSUME NEW q \in Runs PROVE handles[q] = None <=> runs[q] = None
      OBVIOUS
    <3>1. CASE ended[q] = None
      BY <2>5, <2>9, <3>1
    <3>2. CASE ended[q] # None
      <4>1. [ended[q] EXCEPT !.status = "running"] \in Handle
        BY <2>1, <2>6, <2>7, <3>2
      <4> QED BY <2>3, <2>5, <2>7, <2>9, <3>2, <4>1
    <3> QED BY <3>1, <3>2
  <2>11. ASSUME NEW q \in Runs, runs[q] # None
         PROVE  handles[q].status = IF q = r THEN "terminal" ELSE IF q = next THEN "running" ELSE runs[q].status
    <3>1. ended[q] # None /\ ended[q] \in Handle
      BY <2>7, <2>9, <2>11
    <3>2. [ended[q] EXCEPT !.status = "running"].status = "running"
      BY <2>1, <2>6, <3>1
    <3>3. [runs[r] EXCEPT !.status = "terminal"].status = "terminal"
      BY <1>2, <2>1, <2>6
    <3>4. CASE q = next
      BY <2>4, <2>5, <3>1, <3>2, <3>4, RunAssumption
    <3>5. CASE q # next
      BY <2>2, <2>5, <3>3, <3>5
    <3> QED BY <3>4, <3>5
  <2> QED BY <2>8, <2>10, <2>11
<1> HIDE DEF handles
<1>6. /\ runs' \in [Runs -> Handle \cup {None}] /\ order' \in Seq(Runs)
      /\ \A q \in Runs : runs'[q] = handles[q] \/ (runs'[q] = None /\ handles[q].status = "terminal")
  BY <1>1, <1>5, EvictKeeps DEF ManagerInv, RunTypeOK
<1>7. \A q \in Runs :
        /\ Runs_(q)' <=> (Runs_(q) /\ q # r) \/ q = next
        /\ Pends(q)' <=> Pends(q) /\ q # next
        /\ runs'[q] # None => runs[q] # None
  <2> SUFFICES ASSUME NEW q \in Runs
               PROVE  /\ Runs_(q)' <=> (Runs_(q) /\ q # r) \/ q = next
                      /\ Pends(q)' <=> Pends(q) /\ q # next
                      /\ runs'[q] # None => runs[q] # None
    OBVIOUS
  <2>1. /\ handles[q] = None <=> runs[q] = None
        /\ runs[q] # None =>
             handles[q].status = IF q = r THEN "terminal" ELSE IF q = next THEN "running" ELSE runs[q].status
    BY <1>5
  <2>2. runs'[q] = handles[q] \/ (runs'[q] = None /\ handles[q].status = "terminal")
    BY <1>6
  <2>3. q = next => runs[q] # None /\ runs[q].status = "pending" /\ q # r
    BY <1>4, RunAssumption DEF Pends, HasStatus, Known
  <2>4. runs[r] # None /\ runs[r].status = "running"
    BY <1>2 DEF Runs_, HasStatus, Known
  <2>5. CASE runs[q] = None
    <3>1. runs'[q] = None
      BY <2>1, <2>2, <2>5
    <3> QED BY <2>3, <2>5, <3>1 DEF Runs_, Pends, HasStatus, Known
  <2>6. CASE q = r
    BY <2>1, <2>2, <2>3, <2>4, <2>6 DEF Runs_, Pends, HasStatus, Known
  <2>7. CASE runs[q] # None /\ q = next
    BY <2>1, <2>2, <2>3, <2>7 DEF Runs_, Pends, HasStatus, Known
  <2>8. CASE runs[q] # None /\ q # r /\ q # next
    BY <2>1, <2>2, <2>8 DEF Runs_, Pends, HasStatus, Known
  <2> QED BY <2>5, <2>6, <2>7, <2>8
<1>8. \A q \in Runs : task'[q] = IF q = next THEN "clear" ELSE IF q = r THEN "none" ELSE task[q]
  BY <1>1
<1>9. Slots' /\ Drained'
  <2>1. \A q \in Runs : task'[q] # "none" => Runs_(q)'
    BY <1>4, <1>7, <1>8 DEF Slots, ManagerInv
  <2>2. active'[t] = (IF next = None THEN None ELSE next)
        /\ \A u \in Threads : u # t => active'[u] = active[u]
    BY <1>1, <1>2
  <2>3. \A q \in Runs : Runs_(q)' => active'[thread_id[q]] = q
    BY <1>2, <1>4, <1>7, <2>2 DEF Slots, ManagerInv
  <2>4. \A u \in Threads : active'[u] # None => task'[active'[u]] # "none" /\ thread_id[active'[u]] = u
    <3> SUFFICES ASSUME NEW u \in Threads, active'[u] # None
                 PROVE  task'[active'[u]] # "none" /\ thread_id[active'[u]] = u
      OBVIOUS
    <3>1. CASE u = t
      BY <1>4, <1>8, <2>2, <3>1
    <3>2. CASE u # t
      <4>1. active[u] \in Runs /\ task[active[u]] # "none" /\ thread_id[active[u]] = u
        BY <1>2, <2>2, <3>2 DEF Slots, ManagerInv
      <4>2. active[u] # r
        BY <3>2, <4>1
      <4> QED BY <1>8, <2>2, <3>2, <4>1, <4>2
    <3> QED BY <3>1, <3>2
  <2>5. Drained'
    BY <1>1, <1>8 DEF Drained, ManagerInv
  <2> QED BY <2>1, <2>3, <2>4, <2>5 DEF Slots
<1>10. Lines'
  <2> SUFFICES ASSUME NEW u \in Threads
               PROVE  /\ Distinct(queues'[u])
                      /\ Elements(queues'[u]) = {q \in Runs : thread_id[q] = u /\ Pends(q)'}
                      /\ queues'[u] # <<>> => active'[u] # None \/ draining'
    BY DEF Lines
  <2>0. /\ Distinct(queues[u])
        /\ Elements(queues[u]) = {q \in Runs : thread_id[q] = u /\ Pends(q)}
        /\ queues[u] # <<>> => active[u] # None \/ draining
    BY DEF Lines, ManagerInv
  <2>1. CASE u # t
    <3>1. queues'[u] = queues[u] /\ active'[u] = active[u]
      BY <1>1, <1>2, <2>1
    <3>2. \A q \in Runs : thread_id[q] = u => (Pends(q)' <=> Pends(q))
      BY <1>4, <1>7, <2>1
    <3> QED BY <1>1, <2>0, <3>1, <3>2
  <2>2. CASE u = t
    <3>1. CASE next = None
      <4>1. queues'[u] = queues[u] /\ \A q \in Runs : Pends(q)' <=> Pends(q)
        BY <1>1, <1>2, <1>7, <2>2, <3>1
      <4>2. queues[u] # <<>> => draining'
        BY <1>1, <1>4, <2>2, <3>1
      <4> QED BY <2>0, <4>1, <4>2
    <3>2. CASE next # None
      <4>1. queues'[u] = Tail(queues[t]) /\ active'[u] = next
        BY <1>1, <1>2, <2>2, <3>2
      <4> QED BY <1>3, <1>4, <1>7, <2>2, <3>2, <4>1
    <3> QED BY <3>1, <3>2
  <2> QED BY <2>1, <2>2
<1>11. RunTypeOK'
  <2>1. active' \in [Threads -> Runs \cup {None}]
    <3>1. (IF next = None THEN released ELSE next) \in Runs \cup {None}
      BY <1>2, <1>4
    <3> HIDE DEF released
    <3> QED BY <1>1, <1>2, <3>1
  <2>2. queues' \in [Threads -> Seq(Runs)]
    <3>1. (IF next = None THEN queues[t] ELSE Tail(queues[t])) \in Seq(Runs)
      BY <1>2, <1>4
    <3>2. queues' = [queues EXCEPT ![t] = IF next = None THEN queues[t] ELSE Tail(queues[t])]
      BY <1>1
    <3> QED BY <1>2, <3>1, <3>2
  <2>3. task' \in [Runs -> TaskStage]
    BY <1>1, <1>2 DEF TaskStage
  <2> QED BY <1>1, <1>6, <2>1, <2>2, <2>3 DEF ManagerInv, RunTypeOK, durable, bounds
<1>12. Fresh' /\ Naming'
  BY <1>1, <1>7 DEF Fresh, Naming, Listed, ManagerInv, durable
<1>13. \A q \in Runs : task'[q] # "none" => task[q] # "none" \/ (Pends(q) /\ task'[q] = "clear")
  BY <1>4, <1>8
<1>14. ASSUME NEW q \in Runs, runs'[q] # None
       PROVE  \/ Pends(q) /\ (Pends(q)' \/ task'[q] = "clear")
              \/ runs[q] # None /\ ~Pends(q) /\ ~Pends(q)'
                 /\ (task'[q] = task[q] \/ task[q] \in {"promote", "release"})
  BY <1>1, <1>2, <1>4, <1>7, <1>8, <1>14
<1>15. task'[r] = "none" /\ \A q \in Runs : q # r /\ task'[q] = "none" => task[q] = "none"
  BY <1>4, <1>2, <1>8
<1>16. \A q \in Runs : Evictable(handles, q) => q = r \/ HasStatus(q, "terminal")
  BY <1>5 DEF Evictable, HasStatus, Known
<1>17. \E h \in [Runs -> Handle \cup {None}] :
         /\ Evict(h)
         /\ \A q \in Runs : /\ h[q] = None <=> runs[q] = None
                            /\ Evictable(h, q) => q = r \/ HasStatus(q, "terminal")
  BY <1>1, <1>5, <1>16
<1>18. ManagerInv'
  BY <1>9, <1>10, <1>11, <1>12 DEF ManagerInv
<1> QED BY <1>13, <1>14, <1>15, <1>17, <1>18

\* A cancellation that starts: its list is made of runs.
LEMMA NewCancelTyped ==
  ASSUME NEW todo \in Seq([run: Runs, was: {"named", "active", "queued"}])
  PROVE  /\ NewCancel(todo) \in CancelRequest /\ NewCancel(todo) # None
         /\ NewCancel(todo).todo = todo /\ NewCancel(todo).clear = {}
<1>1. NewCancel(todo) \in CancelRequest
  BY DEF NewCancel, CancelRequest
<1>2. NewCancel(todo) # None
  BY <1>1, NoneAssumption, Zenon
<1> QED BY <1>1, <1>2 DEF NewCancel

\* The active run first, then the pending ones.
LEMMA ThreadRunsTyped ==
  ASSUME ManagerInv, NEW t \in Threads
  PROVE  /\ thread_runs(t) \in Seq([run: Runs, was: {"named", "active", "queued"}])
         /\ \A i \in DOMAIN thread_runs(t) :
              /\ Known(thread_runs(t)[i].run)
              /\ thread_runs(t)[i].was = "active" => ~Pends(thread_runs(t)[i].run)
<1> DEFINE Entry == [run: Runs, was: {"named", "active", "queued"}]
           front == IF active[t] = None THEN <<>> ELSE <<[run |-> active[t], was |-> "active"]>>
           q == queues[t]
           back == [i \in DOMAIN q |-> [run |-> q[i], was |-> "queued"]]
<1>1. /\ active[t] \in Runs \cup {None} /\ q \in Seq(Runs)
      /\ active[t] # None => Runs_(active[t])
      /\ Elements(q) = {r \in Runs : thread_id[r] = t /\ Pends(r)}
  <2>1. active[t] \in Runs \cup {None} /\ q \in Seq(Runs)
    BY DEF ManagerInv, RunTypeOK
  <2>2. Slots /\ Lines
    BY DEF ManagerInv
  <2> QED BY <2>1, <2>2 DEF Slots, Lines
<1>2. Len(q) \in Nat /\ DOMAIN q = 1..Len(q) /\ \A i \in 1..Len(q) : q[i] \in Runs /\ Pends(q[i])
  <2>1. Len(q) \in Nat /\ DOMAIN q = 1..Len(q) /\ \A i \in 1..Len(q) : q[i] \in Runs
    <3> HIDE DEF q
    <3> QED BY <1>1, LenProperties, ElementOfSeq
  <2> HIDE DEF q
  <2> QED BY <1>1, <2>1 DEF Elements
<1>3. ASSUME active[t] # None
      PROVE  [run |-> active[t], was |-> "active"] \in Entry
  BY <1>1, <1>3
<1>4. front \in Seq(Entry)
  <2> HIDE DEF Entry
  <2> QED BY <1>3
<1>5. back \in Seq(Entry) /\ Len(back) = Len(q)
  <2> HIDE DEF q
  <2>1. back \in [1..Len(q) -> Entry]
    BY <1>2
  <2> HIDE DEF back, Entry
  <2> QED BY <1>2, <2>1, IsASeq, LenProperties
<1>6. Len(front) \in {0, 1} /\ (Len(front) = 1 => active[t] # None /\ front[1] = [run |-> active[t], was |-> "active"])
  BY <1>4
<1>7. thread_runs(t) = front \o back
  BY DEF thread_runs
<1>8. \A i \in 1..Len(q) : back[i] = [run |-> q[i], was |-> "queued"]
  BY <1>2
<1> HIDE DEF front, back, q
<1>9. /\ front \o back \in Seq(Entry) /\ DOMAIN (front \o back) = 1..(Len(front) + Len(q))
      /\ \A i \in 1..(Len(front) + Len(q)) :
           (front \o back)[i] = IF i <= Len(front) THEN front[i] ELSE back[i - Len(front)]
  <2> HIDE DEF Entry
  <2>1. /\ front \o back \in Seq(Entry) /\ Len(front \o back) = Len(front) + Len(back)
        /\ \A i \in 1..(Len(front) + Len(back)) :
             (front \o back)[i] = IF i <= Len(front) THEN front[i] ELSE back[i - Len(front)]
    <3>1. front \in Seq(Entry) /\ back \in Seq(Entry)
      BY <1>4, <1>5
    <3> QED BY ONLY <3>1, ConcatProperties
  <2>2. DOMAIN (front \o back) = 1..Len(front \o back)
    BY <2>1, LenProperties
  <2> QED BY <1>5, <2>1, <2>2
<1>10. ASSUME NEW i \in 1..(Len(front) + Len(q))
       PROVE  /\ Known((front \o back)[i].run)
              /\ (front \o back)[i].was = "active" => ~Pends((front \o back)[i].run)
  <2>1. CASE i <= Len(front)
    <3>1. i = 1 /\ Len(front) = 1
      <4> DEFINE n == Len(front)
                 m == Len(q)
      <4>1. n \in {0, 1} /\ m \in Nat /\ i \in 1..(n + m) /\ i <= n
        BY <1>2, <1>6, <1>10, <2>1
      <4> HIDE DEF n, m
      <4>2. i = 1 /\ n = 1
        BY <4>1
      <4> QED BY <4>2 DEF n
    <3>2. (front \o back)[i] = [run |-> active[t], was |-> "active"] /\ active[t] # None
      BY <1>6, <1>9, <2>1, <3>1
    <3> QED BY <1>1, <3>2 DEF Runs_, Pends, HasStatus
  <2>2. CASE ~(i <= Len(front))
    <3>1. i - Len(front) \in 1..Len(q)
      BY <1>2, <1>6, <2>2
    <3>2. (front \o back)[i] = [run |-> q[i - Len(front)], was |-> "queued"]
      BY <1>8, <1>9, <2>2, <3>1
    <3> QED BY <1>2, <3>1, <3>2 DEF Pends, HasStatus
  <2> QED BY <2>1, <2>2
<1> QED BY <1>7, <1>9, <1>10

\* A step of a cancellation that touches neither memory nor records.
LEMMA CancelStartKeeps ==
  ASSUME ManagerInv,
         (\E r \in Runs : CancelRun(r)) \/ (\E t \in Threads : CancelThreadRuns(t)) \/ CancelAnswer
  PROVE  ManagerInv'
<1>1. /\ UNCHANGED <<memory, durable, restarts, faults, submit, restore>>
      /\ cancels' \in 0..MaxCancels
  <2>1. cancels \in 0..MaxCancels
    BY DEF ManagerInv, RunTypeOK
  <2>2. ASSUME NEW r \in Runs, CancelRun(r)
        PROVE  /\ UNCHANGED <<memory, durable, restarts, faults, submit, restore>>
               /\ cancels' \in 0..MaxCancels
    BY <2>1, <2>2 DEF CancelRun
  <2>3. ASSUME NEW t \in Threads, CancelThreadRuns(t)
        PROVE  /\ UNCHANGED <<memory, durable, restarts, faults, submit, restore>>
               /\ cancels' \in 0..MaxCancels
    BY <2>1, <2>3 DEF CancelThreadRuns
  <2>4. ASSUME CancelAnswer
        PROVE  /\ UNCHANGED <<memory, durable, restarts, faults, submit, restore>>
               /\ cancels' \in 0..MaxCancels
    BY <2>1, <2>4 DEF CancelAnswer, bounds
  <2> QED BY <2>2, <2>3, <2>4
<1>2. cancel' \in CancelRequest \cup {None} /\ told' \subseteq Runs
  <2>1. ASSUME NEW r \in Runs, CancelRun(r) PROVE cancel' \in CancelRequest \cup {None} /\ told' \subseteq Runs
    <3>1. <<[run |-> r, was |-> "named"]>> \in Seq([run: Runs, was: {"named", "active", "queued"}])
      OBVIOUS
    <3> QED BY <2>1, <3>1, NewCancelTyped DEF CancelRun, ManagerInv, RunTypeOK
  <2>2. ASSUME NEW t \in Threads, CancelThreadRuns(t) PROVE cancel' \in CancelRequest \cup {None} /\ told' \subseteq Runs
    BY <2>2, ThreadRunsTyped, NewCancelTyped DEF CancelThreadRuns, ManagerInv, RunTypeOK
  <2>3. ASSUME CancelAnswer PROVE cancel' \in CancelRequest \cup {None} /\ told' \subseteq Runs
    BY <2>3 DEF CancelAnswer, ManagerInv, RunTypeOK, CancelRequest
  <2> QED BY <2>1, <2>2, <2>3
<1>3. RunTypeOK'
  BY <1>1, <1>2 DEF ManagerInv, RunTypeOK, memory, durable
<1>4. Slots' /\ Lines' /\ Drained'
  BY <1>1, MemoryKept DEF ManagerInv
<1>5. Fresh' /\ Naming'
  BY <1>1 DEF Fresh, Naming, Listed, ManagerInv, memory, durable
<1> QED BY <1>3, <1>4, <1>5 DEF ManagerInv

LEMMA CancelClearKeeps ==
  ASSUME ManagerInv, NEW r \in Runs, CancelClear(r)
  PROVE  ManagerInv'
<1>1. /\ UNCHANGED <<memory, journals, told, restarts, cancels, submit, restore>>
      /\ cancel \in CancelRequest /\ cancel' = [cancel EXCEPT !.clear = @ \ {r}]
      /\ clear_pending_record(r)
  BY DEF CancelClear, ManagerInv, RunTypeOK
<1>2. records' \in [Runs -> Nat \cup {None}] /\ faults' \in 0..MaxFaults
      /\ \A q \in Runs : records'[q] = records[q] \/ records'[q] = None
  BY <1>1, ClearTyped DEF ManagerInv
<1>3. cancel' \in CancelRequest
  BY <1>1 DEF CancelRequest
<1>4. RunTypeOK'
  BY <1>1, <1>2, <1>3 DEF ManagerInv, RunTypeOK, memory
<1>5. Slots' /\ Lines' /\ Drained'
  BY <1>1, MemoryKept DEF ManagerInv
<1>6. Fresh' /\ Naming'
  BY <1>1, <1>2 DEF Fresh, Naming, Listed, ManagerInv, memory
<1> QED BY <1>4, <1>5, <1>6 DEF ManagerInv

\* The request, less the run it has dealt with.
LEMMA CancelMoves ==
  ASSUME ManagerInv, CancelNext
  PROVE  /\ cancel \in CancelRequest /\ Head(cancel.todo).run \in Runs
         /\ cancel' \in CancelRequest /\ cancel' # None
         /\ cancel'.todo = Tail(cancel.todo)
         /\ \/ cancel'.clear = cancel.clear
            \/ \E q \in Runs : cancel'.clear = cancel.clear \cup {q} /\ Pends(q) /\ ~Pends(q)'
         /\ Pends(Head(cancel.todo).run) /\ Head(cancel.todo).was # "active" =>
              Head(cancel.todo).run \in cancel'.clear
<1> DEFINE r == Head(cancel.todo).run
           was == Head(cancel.todo).was
           rest == [cancel EXCEPT !.todo = Tail(@)]
<1>1. cancel \in CancelRequest /\ cancel.todo # <<>>
  BY DEF CancelNext, ManagerInv, RunTypeOK
<1>2. /\ cancel.todo \in Seq([run: Runs, was: {"named", "active", "queued"}])
      /\ cancel.clear \subseteq Runs /\ cancel.fired \subseteq Runs
      /\ cancel.signalled \subseteq Runs /\ cancel.cancelled \subseteq Runs
  BY <1>1 DEF CancelRequest
<1>3. /\ Head(cancel.todo) \in [run: Runs, was: {"named", "active", "queued"}]
      /\ Tail(cancel.todo) \in Seq([run: Runs, was: {"named", "active", "queued"}])
  BY <1>1, <1>2, HeadTailProperties
<1>4. r \in Runs
  BY <1>3
<1>5. rest \in CancelRequest /\ rest.todo = Tail(cancel.todo) /\ rest.clear = cancel.clear
  BY <1>1, <1>3 DEF CancelRequest
<1>6. /\ cancel' \in CancelRequest /\ cancel'.todo = Tail(cancel.todo)
      /\ \/ cancel'.clear = cancel.clear
         \/ /\ cancel'.clear = cancel.clear \cup {r}
            /\ Pends(r) /\ runs' = [runs EXCEPT ![r].status = "terminal"]
      /\ Pends(r) /\ was # "active" => r \in cancel'.clear
  <2> HIDE DEF r, was, rest
  <2>1. CASE /\ HasStatus(r, "running")
             /\ cancel' = [rest EXCEPT !.fired = @ \cup {r},
                                       !.signalled = IF was = "queued" THEN @ ELSE @ \cup {r}]
    <3>1. ~Pends(r)
      BY <2>1 DEF Pends, HasStatus
    <3> QED BY <1>4, <1>5, <2>1, <3>1 DEF CancelRequest
  <2>2. CASE /\ HasStatus(r, "pending") /\ runs' = [runs EXCEPT ![r].status = "terminal"]
             /\ cancel' = IF was = "active" THEN rest
                          ELSE [rest EXCEPT !.cancelled = @ \cup {r}, !.clear = @ \cup {r}]
    BY <1>4, <1>5, <2>2 DEF CancelRequest, Pends
  <2>3. CASE ~HasStatus(r, "pending") /\ cancel' = rest
    BY <1>5, <2>3 DEF Pends
  <2> QED BY <2>1, <2>2, <2>3 DEF CancelNext, r, was, rest
<1>7. ASSUME NEW q \in Runs, Pends(q), runs' = [runs EXCEPT ![q].status = "terminal"]
      PROVE  ~Pends(q)'
  <2>1. runs[q] \in Handle /\ runs \in [Runs -> Handle \cup {None}]
    BY <1>7 DEF Pends, HasStatus, Known, ManagerInv, RunTypeOK
  <2> DEFINE h == [runs[q] EXCEPT !.status = "terminal"]
  <2>2. h.status = "terminal"
    BY <2>1 DEF Handle
  <2>3. runs'[q] = h
    BY <1>7, <2>1
  <2> HIDE DEF h
  <2> QED BY <2>2, <2>3 DEF Pends, HasStatus
<1>8. cancel' # None
  BY <1>6, NoneAssumption, Zenon
<1> QED BY <1>1, <1>4, <1>6, <1>7, <1>8

LEMMA CancelNextKeeps ==
  ASSUME ManagerInv, CancelNext
  PROVE  /\ ManagerInv'
         /\ \A q \in Runs : /\ Known(q)' <=> Known(q)
                            /\ Pends(q)' => Pends(q)
                            /\ Pends(q) /\ ~Pends(q)' => q = Head(cancel.todo).run
<1> DEFINE r == Head(cancel.todo).run
<1>1. UNCHANGED <<active, order, queue_seq, task, draining, durable, told, bounds, submit, restore>>
  BY DEF CancelNext
<1>2. cancel' \in CancelRequest /\ r \in Runs
  BY CancelMoves
<1>3. \/ HasStatus(r, "running") /\ runs' = [runs EXCEPT ![r].token = TRUE] /\ queues' = queues
      \/ /\ HasStatus(r, "pending") /\ runs' = [runs EXCEPT ![r].status = "terminal"]
         /\ queues' = queue_without(r)
      \/ runs' = runs /\ queues' = queues
  BY DEF CancelNext
<1> HIDE DEF r
<1>4. runs \in [Runs -> Handle \cup {None}] /\ None \notin Handle
  BY NoneAssumption DEF ManagerInv, RunTypeOK
<1>5. /\ Slots' /\ Lines' /\ Drained'
      /\ queues' \in [Threads -> Seq(Runs)] /\ runs' \in [Runs -> Handle \cup {None}]
      /\ \A q \in Runs : /\ Known(q)' <=> Known(q)
                         /\ Pends(q)' => Pends(q)
                         /\ Pends(q) /\ ~Pends(q)' => q = r
  <2>1. CASE HasStatus(r, "running") /\ runs' = [runs EXCEPT ![r].token = TRUE] /\ queues' = queues
    <3> DEFINE h == [runs[r] EXCEPT !.token = TRUE]
    <3>1. runs[r] \in Handle
      BY <1>2, <1>4, <2>1 DEF HasStatus, Known
    <3>2. h \in Handle /\ h.status = runs[r].status
      BY <3>1 DEF Handle
    <3>3. runs' = [runs EXCEPT ![r] = h]
      BY <2>1
    <3> HIDE DEF h
    <3>4. /\ runs' \in [Runs -> Handle \cup {None}]
          /\ \A q \in Runs : runs'[q] = IF q = r THEN h ELSE runs[q]
      BY <1>2, <1>4, <3>2, <3>3
    <3>5. \A q \in Runs : /\ Runs_(q)' <=> Runs_(q)
                          /\ Pends(q)' <=> Pends(q)
                          /\ Known(q)' <=> Known(q)
      BY <1>4, <3>1, <3>2, <3>4 DEF Runs_, Pends, HasStatus, Known
    <3>6. Slots' /\ Drained'
      BY <1>1, <3>5 DEF Slots, Drained, ManagerInv
    <3>7. Lines'
      BY <1>1, <2>1, <3>5 DEF Lines, ManagerInv
    <3> QED BY <2>1, <3>4, <3>5, <3>6, <3>7 DEF ManagerInv, RunTypeOK
  <2>2. CASE /\ HasStatus(r, "pending") /\ runs' = [runs EXCEPT ![r].status = "terminal"]
             /\ queues' = queue_without(r)
    <3> DEFINE h == [runs[r] EXCEPT !.status = "terminal"]
    <3>1. runs[r] \in Handle
      BY <1>2, <1>4, <2>2 DEF HasStatus, Known
    <3>2. h \in Handle /\ h.status = "terminal"
      BY <3>1 DEF Handle, Status
    <3>3. runs' = [runs EXCEPT ![r] = h]
      BY <2>2
    <3> HIDE DEF h
    <3>4. /\ runs' \in [Runs -> Handle \cup {None}]
          /\ \A q \in Runs : runs'[q] = IF q = r THEN h ELSE runs[q]
      BY <1>2, <1>4, <3>2, <3>3
    <3>5. \A q \in Runs : /\ Runs_(q)' <=> Runs_(q)
                          /\ Pends(q)' <=> Pends(q) /\ q # r
                          /\ Known(q)' <=> Known(q)
      BY <1>4, <2>2, <3>1, <3>2, <3>4 DEF Runs_, Pends, HasStatus, Known
    <3>6. Pends(r)
      BY <2>2 DEF Pends
    <3>7. Slots' /\ Lines' /\ Drained' /\ queues' \in [Threads -> Seq(Runs)]
      BY <1>1, <1>2, <2>2, <3>5, <3>6, LeavesLine
    <3> QED BY <3>4, <3>5, <3>7
  <2>3. CASE runs' = runs /\ queues' = queues
    <3>1. UNCHANGED memory
      BY <1>1, <2>3 DEF memory
    <3> QED BY <2>3, <3>1, MemoryKept DEF ManagerInv, RunTypeOK, Known, Pends, HasStatus
  <2> QED BY <1>3, <2>1, <2>2, <2>3
<1>6. RunTypeOK'
  BY <1>1, <1>2, <1>5 DEF ManagerInv, RunTypeOK, durable, bounds
<1>7. Fresh' /\ Naming'
  BY <1>1, <1>5 DEF Fresh, Naming, Listed, ManagerInv, durable, Known
<1> QED BY <1>5, <1>6, <1>7 DEF ManagerInv, r

LEMMA DrainKeeps ==
  ASSUME ManagerInv, Drain
  PROVE  ManagerInv'
<1>1. /\ draining' = TRUE
      /\ UNCHANGED <<runs, active, queues, order, queue_seq, task,
                     durable, told, bounds, submit, cancel, restore>>
  BY DEF Drain
<1>2. draining' \in BOOLEAN
  BY <1>1, Zenon
<1>3. RunTypeOK'
  BY <1>1, <1>2 DEF ManagerInv, RunTypeOK, durable, bounds
<1>4. \A q \in Runs : (Runs_(q)' <=> Runs_(q)) /\ (Pends(q)' <=> Pends(q))
  BY <1>1 DEF Runs_, Pends, HasStatus, Known
<1>5. Slots' /\ Drained'
  BY <1>1, <1>4 DEF Slots, Drained, ManagerInv
<1>6. Lines'
  BY <1>1, <1>4 DEF Lines, ManagerInv
<1>7. Fresh' /\ Naming'
  BY <1>1 DEF Fresh, Naming, Listed, ManagerInv, durable
<1> QED BY <1>3, <1>5, <1>6, <1>7 DEF ManagerInv

LEMMA RestartKeeps ==
  ASSUME ManagerInv, Restart
  PROVE  ManagerInv'
<1>1. /\ restarts < MaxRestarts /\ restarts' = restarts + 1
      /\ runs' = [r \in Runs |-> None] /\ active' = [t \in Threads |-> None]
      /\ queues' = [t \in Threads |-> <<>>] /\ order' = <<>> /\ queue_seq' = 0
      /\ task' = [r \in Runs |-> "none"] /\ draining' = FALSE
      /\ submit' = [r \in Runs |->
           IF submit[r].stage \in {"none", "answered", "queued"}
           THEN submit[r] ELSE [stage |-> "lost", seq |-> 0]]
      /\ cancel' = None /\ restore' = Booting
      /\ UNCHANGED <<durable, told, faults, cancels>>
  BY DEF Restart
<1>2. draining' \in BOOLEAN
  BY <1>1, Zenon
<1>3. /\ restore' \in RestoreState /\ restore'.cur = None /\ restore'.stage = "boot"
      /\ restore'.todo = {}
  BY <1>1 DEF Booting, NoneLeft, RestoreState
<1>4. submit' \in [Runs -> Submission]
  <2>1. [stage |-> "lost", seq |-> 0] \in Submission
    BY DEF Submission
  <2> QED BY <1>1, <2>1 DEF ManagerInv, RunTypeOK
<1>5. RunTypeOK'
  <2>1. restarts' \in 0..MaxRestarts
    BY <1>1 DEF ManagerInv, RunTypeOK
  <2>2. task' \in [Runs -> TaskStage] /\ order' \in Seq(Runs) /\ queues' \in [Threads -> Seq(Runs)]
    BY <1>1 DEF TaskStage
  <2>3. /\ runs' \in [Runs -> Handle \cup {None}] /\ active' \in [Threads -> Runs \cup {None}]
        /\ queue_seq' \in Nat /\ cancel' \in CancelRequest \cup {None}
    BY <1>1
  <2> QED BY <1>1, <1>2, <1>3, <1>4, <2>1, <2>2, <2>3 DEF ManagerInv, RunTypeOK, durable
<1>6. \A q \in Runs : ~Runs_(q)' /\ ~Pends(q)'
  BY <1>1 DEF Runs_, Pends, HasStatus, Known
<1>7. Slots' /\ Drained'
  BY <1>1, <1>6 DEF Slots, Drained
<1>8. Lines'
  BY <1>1, <1>6 DEF Lines, Distinct, Elements
<1>9. Fresh'
  <2>1. \A r \in Runs : submit'[r].stage \in {"none", "insert", "persist", "undo", "answered"} =>
          submit'[r] = submit[r]
    BY <1>1
  <2> QED BY <1>1, <1>3, <2>1 DEF Fresh, Listed, ManagerInv, durable
<1>10. Naming'
  BY <1>3 DEF Naming
<1> QED BY <1>5, <1>7, <1>8, <1>9, <1>10 DEF ManagerInv

\* The records listed are those in the store.
LEMMA ListTyped ==
  ASSUME ManagerInv, RestoreList
  PROVE  /\ restore' \in RestoreState /\ restore'.cur = None /\ restore'.stage = "next"
         /\ \/ restore' = NoneLeft
            \/ restore'.todo = {[run |-> r, seq |-> records[r]] : r \in Pending}
<1> DEFINE listed == [restore EXCEPT
             !.todo = {[run |-> r, seq |-> records[r]] : r \in Pending},
             !.depth = [t \in Threads |-> Cardinality({r \in Pending : thread_id[r] = t})]]
<1>1. NoneLeft \in RestoreState /\ NoneLeft.cur = None /\ NoneLeft.stage = "next"
  BY DEF NoneLeft, RestoreState
<1>2. restore' = NoneLeft \/ restore' = Done(listed)
  BY DEF RestoreList
<1>3. \A t \in Threads : Cardinality({r \in Pending : thread_id[r] = t}) \in Nat
  <2> SUFFICES ASSUME NEW t \in Threads PROVE Cardinality({r \in Pending : thread_id[r] = t}) \in Nat
    OBVIOUS
  <2> DEFINE those == {r \in Pending : thread_id[r] = t}
  <2>1. those \in SUBSET Runs
    BY DEF Pending
  <2> HIDE DEF those
  <2>2. IsFiniteSet(those)
    BY <2>1, FS_Subset
  <2>3. Cardinality(those) \in Nat
    BY <2>2, FS_CardinalityType
  <2> QED BY <2>3 DEF those
<1>4. {[run |-> r, seq |-> records[r]] : r \in Pending} \in SUBSET [run: Runs, seq: Nat]
  BY DEF Pending, ManagerInv, RunTypeOK
<1>5. restore \in RestoreState
  BY DEF ManagerInv, RunTypeOK
<1>6. listed \in RestoreState /\ listed.todo = {[run |-> r, seq |-> records[r]] : r \in Pending}
  <2> DEFINE todo == {[run |-> r, seq |-> records[r]] : r \in Pending}
             depth == [t \in Threads |-> Cardinality({r \in Pending : thread_id[r] = t})]
  <2>1. depth \in [Threads -> Nat] /\ todo \in SUBSET [run: Runs, seq: Nat]
    BY <1>3, <1>4
  <2> HIDE DEF todo, depth
  <2>2. [restore EXCEPT !.todo = todo, !.depth = depth] \in RestoreState
        /\ [restore EXCEPT !.todo = todo, !.depth = depth].todo = todo
    BY <1>5, <2>1 DEF RestoreState
  <2> QED BY <2>2 DEF todo, depth
<1> HIDE DEF listed
<1>7. restore' = Done(listed) => /\ restore' \in RestoreState /\ restore'.cur = None
                                 /\ restore'.stage = "next" /\ restore'.todo = listed.todo
  BY <1>6, DoneTyped
<1> QED BY <1>1, <1>2, <1>6, <1>7

LEMMA RestoreListKeeps ==
  ASSUME ManagerInv, RestoreList
  PROVE  ManagerInv'
<1>1. UNCHANGED <<memory, durable, told, restarts, cancels, submit, cancel>>
  BY DEF RestoreList
<1>2. faults' \in 0..MaxFaults
  BY DEF RestoreList, StoreFails, ManagerInv, RunTypeOK
<1>3. RunTypeOK'
  BY <1>1, <1>2, ListTyped DEF ManagerInv, RunTypeOK, memory, durable
<1>4. Slots' /\ Lines' /\ Drained'
  BY <1>1, MemoryKept DEF ManagerInv
<1>5. \A r \in Runs : Listed(r)' => records[r] # None
  <2> SUFFICES ASSUME NEW r \in Runs, Listed(r)' PROVE records[r] # None
    OBVIOUS
  <2>1. r # None /\ restore'.cur = None
    BY ListTyped
  <2>2. PICK a \in restore'.todo : a.run = r
    BY <2>1 DEF Listed
  <2>3. restore' # NoneLeft
    BY <2>2 DEF NoneLeft
  <2>4. a \in {[run |-> q, seq |-> records[q]] : q \in Pending}
    BY <2>2, <2>3, ListTyped
  <2> QED BY <2>2, <2>4 DEF Pending
<1>6. Fresh'
  BY <1>1, <1>5 DEF Fresh, ManagerInv, memory, durable
<1>7. Naming'
  BY ListTyped DEF Naming
<1> QED BY <1>3, <1>4, <1>6, <1>7 DEF ManagerInv

\* What a check leaves of the restore.
LEMMA CheckMoves ==
  ASSUME ManagerInv, NEW a \in restore.todo, RestoreCheck(a)
  PROVE  /\ a.run \in Runs /\ restore' \in RestoreState
         /\ restore'.todo = restore.todo \ {a}
         /\ restore.cur = None
         /\ \/ restore'.cur = a.run /\ restore'.stage = "insert" /\ records' = records
               /\ a.run \notin journals
            \/ restore'.cur = None /\ restore'.stage = "next"
         /\ records' = records \/ (clear_pending_record(a.run) /\ a.run \in journals)
         /\ records' \in [Runs -> Nat \cup {None}] /\ faults' \in 0..MaxFaults
         /\ \A q \in Runs : records'[q] = records[q] \/ records'[q] = None
<1> DEFINE cut == [restore EXCEPT !.todo = @ \ {a}]
           taken == [restore EXCEPT !.stage = "insert", !.cur = a.run, !.todo = @ \ {a}]
<1>1. restore \in RestoreState /\ restore.stage = "next"
  BY DEF ManagerInv, RunTypeOK, RestoreCheck
<1>2. a.run \in Runs
  BY <1>1 DEF RestoreState
<1>3. restore.cur = None
  BY <1>1 DEF ManagerInv, Naming
<1>4. cut \in RestoreState /\ cut.todo = restore.todo \ {a}
  BY <1>1 DEF RestoreState
<1>5. /\ taken \in RestoreState /\ taken.todo = restore.todo \ {a}
      /\ taken.cur = a.run /\ taken.stage = "insert"
  BY <1>1, <1>2 DEF RestoreState
<1>6. /\ Done(cut) \in RestoreState /\ Done(cut).cur = None /\ Done(cut).stage = "next"
      /\ Done(cut).todo = restore.todo \ {a}
  <2> HIDE DEF cut
  <2> QED BY <1>4, DoneTyped
<1>7. \/ restore' = taken /\ records' = records /\ faults' = faults /\ a.run \notin journals
      \/ restore' = Done(cut) /\ clear_pending_record(a.run) /\ a.run \in journals
      \/ restore' = Done(cut) /\ records' = records /\ StoreFails
  BY DEF RestoreCheck, already_ran
<1> HIDE DEF cut, taken
<1>8. records' \in [Runs -> Nat \cup {None}] /\ faults' \in 0..MaxFaults
      /\ \A q \in Runs : records'[q] = records[q] \/ records'[q] = None
  <2>1. CASE records' = records /\ (faults' = faults \/ StoreFails)
    BY <2>1 DEF StoreFails, ManagerInv, RunTypeOK
  <2>2. CASE clear_pending_record(a.run)
    BY <1>2, <2>2, ClearTyped DEF ManagerInv
  <2> QED BY <1>7, <2>1, <2>2
<1> QED BY <1>2, <1>3, <1>5, <1>6, <1>7, <1>8

LEMMA RestoreCheckKeeps ==
  ASSUME ManagerInv, NEW a \in restore.todo, RestoreCheck(a)
  PROVE  ManagerInv'
<1>1. UNCHANGED <<memory, journals, told, restarts, cancels, submit, cancel>>
  BY DEF RestoreCheck
<1>2. RunTypeOK'
  BY <1>1, CheckMoves DEF ManagerInv, RunTypeOK, memory
<1>3. Slots' /\ Lines' /\ Drained'
  BY <1>1, MemoryKept DEF ManagerInv
<1>4. \A r \in Runs : Listed(r)' => Listed(r)
  BY CheckMoves DEF Listed
<1>5. Fresh'
  BY <1>1, <1>4, CheckMoves DEF Fresh, ManagerInv, memory
<1>6. Naming'
  BY CheckMoves DEF Naming
<1> QED BY <1>2, <1>3, <1>5, <1>6 DEF ManagerInv

\* What an insertion leaves of the restore, and of the run.
LEMMA RestoreInsertMoves ==
  ASSUME ManagerInv, RestoreInsert
  PROVE  /\ restore.cur \in Runs /\ restore' \in RestoreState
         /\ restore'.todo = restore.todo
         /\ \/ restore'.cur = None /\ restore'.stage = "next"
            \/ restore'.cur = restore.cur /\ restore'.stage = "start"
         /\ faults' \in 0..MaxFaults
         /\ \/ UNCHANGED memory
            \/ /\ runs[restore.cur] = None /\ draining' = draining
               /\ \/ InsertStarted(restore.cur) /\ task' = [task EXCEPT ![restore.cur] = "clear"]
                  \/ /\ task' = task
                     /\ \E cap \in Nat :
                          InsertQueued(restore.cur, cap) \/ InsertRefused(restore.cur, "enqueue", cap)
<1> DEFINE r == restore.cur
<1>1. restore \in RestoreState /\ restore.stage = "insert"
  BY DEF ManagerInv, RunTypeOK, RestoreInsert
<1>2. r \in Runs
  BY <1>1 DEF ManagerInv, Naming, RestoreState
<1>3. RestoreCap(r) \in Nat
  BY <1>1, <1>2 DEF RestoreCap, RestoreState
<1>4. /\ Done(restore) \in RestoreState /\ Done(restore).cur = None /\ Done(restore).stage = "next"
      /\ Done(restore).todo = restore.todo
  BY <1>1, DoneTyped
<1>5. LET s == [restore EXCEPT !.stage = "start"]
      IN s \in RestoreState /\ s.cur = restore.cur /\ s.stage = "start" /\ s.todo = restore.todo
  BY <1>1 DEF RestoreState
<1>6. draining' = draining
  BY DEF RestoreInsert
<1>7. \/ /\ restore' = Done(restore) /\ UNCHANGED memory
         /\ faults' = faults \/ StoreFails
      \/ /\ runs[r] = None /\ InsertStarted(r) /\ restore' = [restore EXCEPT !.stage = "start"]
         /\ task' = [task EXCEPT ![r] = "clear"] /\ faults' = faults
      \/ /\ runs[r] = None /\ restore' = Done(restore) /\ task' = task /\ faults' = faults
         /\ InsertQueued(r, RestoreCap(r)) \/ InsertRefused(r, "enqueue", RestoreCap(r))
  BY <1>6 DEF RestoreInsert, Known, memory
<1>8. faults' \in 0..MaxFaults
  BY <1>7 DEF StoreFails, ManagerInv, RunTypeOK
<1> QED BY <1>2, <1>3, <1>4, <1>5, <1>6, <1>7, <1>8

LEMMA RestoreInsertKeeps ==
  ASSUME ManagerInv, RestoreInsert
  PROVE  /\ ManagerInv'
         /\ \A q \in Runs : q # restore.cur => runs'[q] = runs[q] /\ task'[q] = task[q]
<1> DEFINE r == restore.cur
<1>1. UNCHANGED <<durable, told, restarts, cancels, submit, cancel>>
  BY DEF RestoreInsert
<1>2. r \in Runs /\ Listed(r) /\ submit[r].stage \notin {"none", "insert"}
  BY RestoreInsertMoves DEF Listed, ManagerInv, Fresh
<1>3. /\ Slots' /\ Lines' /\ Drained'
      /\ runs' \in [Runs -> Handle \cup {None}] /\ active' \in [Threads -> Runs \cup {None}]
      /\ queues' \in [Threads -> Seq(Runs)] /\ order' \in Seq(Runs) /\ queue_seq' \in Nat
      /\ task' \in [Runs -> TaskStage] /\ draining' \in BOOLEAN
      /\ \A q \in Runs : q # r => runs'[q] = runs[q] /\ task'[q] = task[q]
  <2>1. CASE UNCHANGED memory
    BY <2>1, MemoryKept DEF memory, ManagerInv, RunTypeOK
  <2>2. CASE /\ runs[r] = None /\ draining' = draining
             /\ InsertStarted(r) /\ task' = [task EXCEPT ![r] = "clear"]
    <3>1. "clear" \in TaskStage \ {"none", "release"}
      BY DEF TaskStage
    <3>2. Slots' /\ Lines' /\ Drained'
      BY <1>2, <2>2, <3>1, InsertKeeps
    <3>3. /\ runs' \in [Runs -> Handle \cup {None}] /\ active' \in [Threads -> Runs \cup {None}]
          /\ queues' \in [Threads -> Seq(Runs)] /\ order' \in Seq(Runs) /\ queue_seq' \in Nat
      BY <1>2, <2>2, InsertKeeps
    <3>4. task' \in [Runs -> TaskStage] /\ draining' \in BOOLEAN
      BY <2>2, <3>1 DEF ManagerInv, RunTypeOK
    <3>5. \A q \in Runs : q # r => runs'[q] = runs[q] /\ task'[q] = task[q]
      BY <2>2 DEF InsertStarted, ManagerInv, RunTypeOK
    <3> QED BY <3>2, <3>3, <3>4, <3>5
  <2>3. ASSUME runs[r] = None, draining' = draining, task' = task, NEW cap \in Nat,
               InsertQueued(r, cap) \/ InsertRefused(r, "enqueue", cap)
        PROVE  /\ Slots' /\ Lines' /\ Drained'
               /\ runs' \in [Runs -> Handle \cup {None}] /\ active' \in [Threads -> Runs \cup {None}]
               /\ queues' \in [Threads -> Seq(Runs)] /\ order' \in Seq(Runs) /\ queue_seq' \in Nat
               /\ task' \in [Runs -> TaskStage] /\ draining' \in BOOLEAN
               /\ \A q \in Runs : q # r => runs'[q] = runs[q] /\ task'[q] = task[q]
    <3>1. Slots' /\ Lines' /\ Drained'
      BY <1>2, <2>3, InsertKeeps
    <3>2. /\ runs' \in [Runs -> Handle \cup {None}] /\ active' \in [Threads -> Runs \cup {None}]
          /\ queues' \in [Threads -> Seq(Runs)] /\ order' \in Seq(Runs) /\ queue_seq' \in Nat
      BY <1>2, <2>3, InsertKeeps
    <3>3. task' \in [Runs -> TaskStage] /\ draining' \in BOOLEAN
      BY <2>3 DEF ManagerInv, RunTypeOK
    <3>4. \A q \in Runs : q # r => runs'[q] = runs[q] /\ task'[q] = task[q]
      BY <2>3 DEF InsertQueued, InsertRefused, ManagerInv, RunTypeOK
    <3> QED BY <3>1, <3>2, <3>3, <3>4
  <2> QED BY <2>1, <2>2, <2>3, RestoreInsertMoves
<1>4. RunTypeOK'
  BY <1>1, <1>3, RestoreInsertMoves DEF ManagerInv, RunTypeOK, durable
<1>5. \A q \in Runs : Listed(q)' => Listed(q)
  BY RestoreInsertMoves DEF Listed
<1>6. Fresh'
  BY <1>1, <1>2, <1>3, <1>5 DEF Fresh, ManagerInv, durable
<1>7. Naming'
  BY RestoreInsertMoves DEF Naming
<1> QED BY <1>3, <1>4, <1>6, <1>7 DEF ManagerInv

\* Every step of the manager keeps its memory sound.
LEMMA ManagerStep ==
  ASSUME ManagerInv, [Next]_vars
  PROVE  ManagerInv'
<1>1. ASSUME NEW r \in Runs, ScheduleStep(r) \/ Schedule(r) PROVE ManagerInv'
  BY <1>1, ScheduleKeeps, ScheduleInsertKeeps, SchedulePersistKeeps, ScheduleUndoKeeps,
     ScheduleEndKeeps DEF ScheduleStep
<1>2. ASSUME NEW r \in Runs, SpawnPromoted(r) \/ EndRun(r) \/ FlushJournal(r) \/ Finish(r)
      PROVE  ManagerInv'
  BY <1>2, SpawnKeeps, ExecuteKeeps, FinishKeeps
<1>3. CASE CancelStep \/ (\E r \in Runs : CancelRun(r)) \/ \E t \in Threads : CancelThreadRuns(t)
  BY <1>3, CancelStartKeeps, CancelClearKeeps, CancelNextKeeps DEF CancelStep
<1>4. CASE RestoreStep
  BY <1>4, RestoreListKeeps, RestoreCheckKeeps, RestoreInsertKeeps DEF RestoreStep
<1>5. CASE Drain \/ Restart
  BY <1>5, DrainKeeps, RestartKeeps
<1>6. CASE UNCHANGED vars
  <2>1. UNCHANGED memory
    BY <1>6 DEF vars
  <2>2. Slots' /\ Lines' /\ Drained'
    BY <2>1, MemoryKept DEF ManagerInv
  <2>3. RunTypeOK'
    BY <1>6 DEF vars, memory, durable, bounds, ManagerInv, RunTypeOK
  <2>4. Fresh' /\ Naming'
    BY <1>6 DEF vars, memory, durable, ManagerInv, Fresh, Naming, Listed
  <2> QED BY <2>2, <2>3, <2>4 DEF ManagerInv
<1> QED BY <1>1, <1>2, <1>3, <1>4, <1>5, <1>6 DEF Next, ServerStep

LEMMA ManagerAlways == Spec => []ManagerInv
<1>1. ManagerInv /\ [Next]_vars => ManagerInv'
  BY ManagerStep
<1> QED BY <1>1, InitManager, PTL DEF Spec

\* At most one run of a thread executes and no slot is wedged, for any number of runs,
\* threads, cancellations, failed store calls, evictions and restarts (insert, finish,
\* cancel_run, remove_queued, restore_one).
THEOREM OneRunPerThread == Spec => []ThreadExclusive
<1>1. ManagerInv => ThreadExclusive
  BY DEF ManagerInv, Slots, ThreadExclusive, Runs_
<1> QED BY <1>1, ManagerAlways, PTL

\* The queue of a thread is exactly its pending runs, each once, and nobody waits behind
\* a free slot outside a drain, whatever is retained or evicted (insert, finish,
\* cancel_run, remove_queued).
THEOREM QueuesSound == Spec => []QueueSound
<1>1. ManagerInv => QueueSound
  <2> SUFFICES ASSUME ManagerInv PROVE QueueSound
    OBVIOUS
  <2>1. \A t \in Threads :
          /\ \A i, j \in DOMAIN queues[t] : queues[t][i] = queues[t][j] => i = j
          /\ queues[t] # <<>> => active[t] # None \/ draining
    BY DEF ManagerInv, Lines, Distinct
  <2>2. ASSUME NEW r \in Runs
        PROVE  HasStatus(r, "pending") <=>
                 \E t \in Threads : thread_id[r] = t /\ \E i \in DOMAIN queues[t] : queues[t][i] = r
    <3>1. Elements(queues[thread_id[r]]) = {q \in Runs : thread_id[q] = thread_id[r] /\ Pends(q)}
      BY DEF ManagerInv, Lines
    <3>2. Pends(r) <=> r \in Elements(queues[thread_id[r]])
      BY <3>1
    <3> QED BY <3>2 DEF Pends, Elements
  <2> QED BY <2>1, <2>2 DEF QueueSound
<1> QED BY <1>1, ManagerAlways, PTL

-----------------------------------------------------------------------------
(***************************************************************************)
(* Memory and store                                                        *)
(***************************************************************************)

\* A restore is under way.
Restoring == restore # NoneLeft

\* A run listed once is not listed again.
ListedOnce ==
  /\ \A a, b \in restore.todo : a.run = b.run => a = b
  /\ \A a \in restore.todo : a.run # restore.cur

\* The cancellation being served will clear the record of r, has r to do, has it to do
\* as the run that was active.
ToClear(r) == cancel # None /\ r \in cancel.clear
ToCancel(r) == cancel # None /\ \E i \in DOMAIN cancel.todo : cancel.todo[i].run = r
AsActive(r) ==
  cancel # None /\ \E i \in DOMAIN cancel.todo : cancel.todo[i].run = r /\ cancel.todo[i].was = "active"

\* Nobody cancels a run before it was inserted.  While a restore is under way the process
\* knows the runs that its own submissions and cancellations are still busy with.
InHand(r) ==
  /\ submit[r].stage \in {"none", "insert"} => ~ToClear(r) /\ ~ToCancel(r)
  /\ Restoring =>
       /\ submit[r].stage \in {"persist", "check", "sweep"} => Known(r)
       /\ ToClear(r) \/ ToCancel(r) => Known(r) \/ submit[r].stage \in {"undo", "answered"}

\* A run the restore may still insert has its record, and no journal once that was read.
Replayable(r) ==
  Listed(r) /\ ~Known(r) => records[r] # None /\ (restore.cur = r => r \notin journals)

\* A pending run was never executed, is nobody's to clear, and has its record once the
\* write is behind it.
Parked(r) ==
  Pends(r) =>
    /\ r \notin journals
    /\ submit[r].stage \notin {"persist", "undo"} => records[r] # None
    /\ submit[r].stage # "sweep"
    /\ ~ToClear(r) /\ ~AsActive(r)

\* A record whose run has left the queue is about to be cleared.
Swept(r) ==
  faults = 0 /\ Known(r) /\ records[r] # None =>
    Pends(r) \/ task[r] = "clear" \/ submit[r].stage \in {"check", "sweep"} \/ ToClear(r)

BootInv ==
  ListedOnce /\ \A r \in Runs : InHand(r) /\ Replayable(r) /\ Parked(r) /\ Swept(r)

\* The premise on one step: no eviction while a restore is under way.
Retains == Restoring => \A r \in Runs : Leaves(r) => At(r, "undo")

LEMMA ListedRestoring == \A r \in Runs : Listed(r) => Restoring
BY DEF Listed, Restoring, NoneLeft

LEMMA InitBoot == Init => BootInv
BY DEF Init, BootInv, ListedOnce, InHand, Replayable, Parked, Swept, Listed, Restoring,
   NoneLeft, Pends, HasStatus, Known, ToClear, ToCancel, AsActive

\* What concerns one run stays true when the step does not touch it.
Untouched(r) ==
  /\ runs'[r] = runs[r] /\ records'[r] = records[r] /\ submit'[r] = submit[r]
  /\ (task[r] = "clear" => task'[r] = "clear") /\ (r \in journals' => r \in journals)
  /\ (Listed(r)' => Listed(r)) /\ (restore'.cur = r => restore.cur = r)
  /\ (ToClear(r)' <=> ToClear(r)) /\ (ToCancel(r)' => ToCancel(r)) /\ (AsActive(r)' => AsActive(r))

LEMMA UntouchedKept ==
  ASSUME NEW r \in Runs, InHand(r), Replayable(r), Parked(r), Swept(r), Untouched(r),
         Restoring' => Restoring, faults' = 0 => faults = 0
  PROVE  InHand(r)' /\ Replayable(r)' /\ Parked(r)' /\ Swept(r)'
<1>1. (Known(r)' <=> Known(r)) /\ (Pends(r)' <=> Pends(r))
  BY DEF Untouched, Pends, HasStatus, Known
<1> QED BY <1>1 DEF Untouched, InHand, Replayable, Parked, Swept, At

\* The requests and the restore as they were.
LEMMA RequestsKept ==
  ASSUME UNCHANGED <<restore, cancel>>, BootInv
  PROVE  /\ ListedOnce' /\ (Restoring' <=> Restoring)
         /\ \A r \in Runs : /\ Listed(r)' <=> Listed(r)
                            /\ ToClear(r)' <=> ToClear(r)
                            /\ ToCancel(r)' <=> ToCancel(r)
                            /\ AsActive(r)' <=> AsActive(r)
BY DEF BootInv, ListedOnce, Restoring, Listed, ToClear, ToCancel, AsActive

\* What insert makes of the run.
LEMMA InsertedAs ==
  ASSUME ManagerInv, NEW r \in Runs, runs[r] = None, NEW cap \in Nat, NEW s
  PROVE  /\ InsertStarted(r) => Known(r)' /\ ~Pends(r)'
         /\ InsertQueued(r, cap) => Known(r)' /\ Pends(r)'
         /\ InsertRefused(r, s, cap) => ~Known(r)' /\ ~Pends(r)'
         /\ InsertStarted(r) \/ InsertQueued(r, cap) \/ InsertRefused(r, s, cap) =>
              \A q \in Runs : q # r => runs'[q] = runs[q]
<1>1. runs \in [Runs -> Handle \cup {None}]
  BY DEF ManagerInv, RunTypeOK
<1>2. ASSUME NEW status \in Status, runs' = [runs EXCEPT ![r] = [status |-> status, token |-> FALSE]]
      PROVE  Known(r)' /\ (Pends(r)' <=> status = "pending") /\ \A q \in Runs : q # r => runs'[q] = runs[q]
  <2>1. FALSE \in BOOLEAN
    OBVIOUS
  <2>2. Known(r)' /\ (HasStatus(r, "pending")' <=> "pending" = status)
    BY <1>1, <1>2, <2>1, SetHandle, Zenon
  <2> QED BY <1>1, <1>2, <2>2 DEF Pends
<1>3. {"running", "pending"} \subseteq Status
  BY DEF Status
<1>4. InsertStarted(r) => Known(r)' /\ ~Pends(r)' /\ \A q \in Runs : q # r => runs'[q] = runs[q]
  BY <1>2, <1>3 DEF InsertStarted
<1>5. InsertQueued(r, cap) => Known(r)' /\ Pends(r)' /\ \A q \in Runs : q # r => runs'[q] = runs[q]
  BY <1>2, <1>3 DEF InsertQueued
<1>6. InsertRefused(r, s, cap) => ~Known(r)' /\ ~Pends(r)' /\ \A q \in Runs : q # r => runs'[q] = runs[q]
  BY DEF InsertRefused, Known, Pends, HasStatus
<1> QED BY <1>4, <1>5, <1>6

LEMMA ScheduleBoots ==
  ASSUME ManagerInv, BootInv, NEW r \in Runs,
         Schedule(r) \/ \E s \in {"enqueue", "reject"} : ScheduleInsert(r, s)
  PROVE  BootInv'
<1>1. /\ UNCHANGED <<draining, durable, told, bounds, cancel, restore>>
      /\ submit[r].stage \in {"none", "insert"}
  BY DEF Schedule, ScheduleInsert, At, memory
<1>2. runs[r] = None /\ r \notin journals /\ records[r] = None /\ ~Listed(r)
  BY <1>1 DEF ManagerInv, Fresh
<1>3. /\ \A q \in Runs : q # r => /\ runs'[q] = runs[q] /\ submit'[q] = submit[q]
                                   /\ task'[q] = task[q]
      /\ submit'[r].stage \in {"insert", "answered", "persist"}
      /\ submit'[r].stage = "persist" => Known(r)'
      /\ Pends(r)' => submit'[r].stage = "persist"
  <2>1. CASE Schedule(r)
    <3>1. UNCHANGED memory /\ Goto(r, "insert")
      BY <2>1 DEF Schedule
    <3>2. submit'[r].stage = "insert" /\ \A q \in Runs : q # r => submit'[q] = submit[q]
      BY <3>1, GotoTyped DEF ManagerInv
    <3>3. ~Pends(r)'
      BY <1>2, <3>1 DEF memory, Pends, HasStatus, Known
    <3> QED BY <3>1, <3>2, <3>3 DEF memory
  <2>2. CASE \E s \in {"enqueue", "reject"} : ScheduleInsert(r, s)
    <3>0. PICK s \in {"enqueue", "reject"} : ScheduleInsert(r, s)
      BY <2>2
    <3>1. CASE InsertStarted(r) /\ task' = [task EXCEPT ![r] = "execute"] /\ Goto(r, "answered")
      <4>1. submit'[r].stage = "answered" /\ \A q \in Runs : q # r => submit'[q] = submit[q]
        BY <3>1, GotoTyped DEF ManagerInv
      <4>2. ~Pends(r)' /\ \A q \in Runs : q # r => runs'[q] = runs[q]
        BY <1>2, <3>1, InsertedAs
      <4> QED BY <3>1, <4>1, <4>2 DEF ManagerInv, RunTypeOK
    <3>2. CASE /\ InsertQueued(r, QueueCap) /\ task' = task
               /\ submit' = [submit EXCEPT ![r] = [stage |-> "persist", seq |-> queue_seq']]
      <4>1. submit'[r].stage = "persist" /\ \A q \in Runs : q # r => submit'[q] = submit[q]
        BY <3>2 DEF ManagerInv, RunTypeOK
      <4>2. Known(r)' /\ \A q \in Runs : q # r => runs'[q] = runs[q]
        BY <1>2, <3>2, InsertedAs
      <4> QED BY <3>2, <4>1, <4>2
    <3>3. CASE InsertRefused(r, s, QueueCap) /\ task' = task /\ Goto(r, "answered")
      <4>1. submit'[r].stage = "answered" /\ \A q \in Runs : q # r => submit'[q] = submit[q]
        BY <3>3, GotoTyped DEF ManagerInv
      <4>2. ~Pends(r)' /\ \A q \in Runs : q # r => runs'[q] = runs[q]
        BY <1>2, <3>3, InsertedAs
      <4> QED BY <3>3, <4>1, <4>2
    <3> QED BY <3>0, <3>1, <3>2, <3>3 DEF ScheduleInsert
  <2> QED BY <2>1, <2>2
<1>4. /\ ListedOnce' /\ (Restoring' <=> Restoring)
      /\ \A q \in Runs : /\ Listed(q)' <=> Listed(q)
                         /\ ToClear(q)' <=> ToClear(q)
                         /\ ToCancel(q)' <=> ToCancel(q)
                         /\ AsActive(q)' <=> AsActive(q)
  BY <1>1, RequestsKept
<1>5. ASSUME NEW q \in Runs, q # r PROVE InHand(q)' /\ Replayable(q)' /\ Parked(q)' /\ Swept(q)'
  <2>1. Untouched(q)
    BY <1>1, <1>3, <1>4, <1>5 DEF Untouched, durable
  <2> QED BY <1>1, <1>4, <2>1, UntouchedKept DEF BootInv, bounds
<1>6. InHand(r)' /\ Replayable(r)' /\ Parked(r)' /\ Swept(r)'
  <2>1. ~ToClear(r) /\ ~ToCancel(r) /\ ~AsActive(r)
    BY <1>1 DEF BootInv, InHand, ToCancel, AsActive
  <2> QED BY <1>1, <1>2, <1>3, <1>4, <2>1 DEF InHand, Replayable, Parked, Swept, At, durable
<1> QED BY <1>4, <1>5, <1>6 DEF BootInv

LEMMA PersistBoots ==
  ASSUME ManagerInv, BootInv, NEW r \in Runs, SchedulePersist(r)
  PROVE  BootInv'
<1>1. /\ UNCHANGED <<memory, journals, told, restarts, cancels, cancel, restore>>
      /\ submit[r].stage = "persist" /\ submit[r].seq \in Nat
      /\ \/ /\ records' = [records EXCEPT ![r] = submit[r].seq] /\ Goto(r, "check") /\ faults' = faults
         \/ /\ StoreFails /\ Goto(r, "undo") /\ records' = records
  BY DEF SchedulePersist, At, ManagerInv, RunTypeOK, Submission
<1>2. /\ submit'[r].stage \in {"check", "undo"}
      /\ \A q \in Runs : q # r => submit'[q] = submit[q]
      /\ submit'[r].stage = "check" => records'[r] # None
      /\ submit'[r].stage = "undo" => records'[r] = records[r]
      /\ faults' = 0 => faults = 0
      /\ \A q \in Runs : q # r => records'[q] = records[q]
  <2>1. records \in [Runs -> Nat \cup {None}] /\ faults \in Nat
    BY DEF ManagerInv, RunTypeOK
  <2>2. CASE /\ records' = [records EXCEPT ![r] = submit[r].seq]
             /\ Goto(r, "check") /\ faults' = faults
    <3>1. submit'[r].stage = "check" /\ \A q \in Runs : q # r => submit'[q] = submit[q]
      BY <2>2, GotoTyped DEF ManagerInv
    <3> QED BY <1>1, <2>1, <2>2, <3>1
  <2>3. CASE StoreFails /\ Goto(r, "undo") /\ records' = records
    <3>1. submit'[r].stage = "undo" /\ \A q \in Runs : q # r => submit'[q] = submit[q]
      BY <2>3, GotoTyped DEF ManagerInv
    <3> QED BY <2>1, <2>3, <3>1 DEF StoreFails
  <2> QED BY <1>1, <2>2, <2>3
<1>3. /\ ListedOnce' /\ (Restoring' <=> Restoring)
      /\ \A q \in Runs : /\ Listed(q)' <=> Listed(q)
                         /\ ToClear(q)' <=> ToClear(q)
                         /\ ToCancel(q)' <=> ToCancel(q)
                         /\ AsActive(q)' <=> AsActive(q)
  BY <1>1, RequestsKept
<1>4. ASSUME NEW q \in Runs, q # r PROVE InHand(q)' /\ Replayable(q)' /\ Parked(q)' /\ Swept(q)'
  <2>1. Untouched(q)
    BY <1>1, <1>2, <1>3, <1>4 DEF Untouched, memory
  <2> QED BY <1>2, <1>3, <2>1, UntouchedKept DEF BootInv
<1>5. InHand(r)' /\ Replayable(r)' /\ Parked(r)' /\ Swept(r)'
  <2>1. (Known(r)' <=> Known(r)) /\ (Pends(r)' <=> Pends(r))
    BY <1>1 DEF memory, Known, Pends, HasStatus
  <2>2. InHand(r) /\ Parked(r) /\ ~Listed(r) /\ records[r] = None
    BY <1>1 DEF BootInv, ManagerInv, Fresh
  <2> QED BY <1>1, <1>2, <1>3, <2>1, <2>2 DEF InHand, Replayable, Parked, Swept, At
<1> QED BY <1>3, <1>4, <1>5 DEF BootInv

LEMMA UndoBoots ==
  ASSUME ManagerInv, BootInv, NEW r \in Runs, ScheduleUndo(r)
  PROVE  BootInv'
<1>1. /\ UNCHANGED <<active, queue_seq, task, draining, durable, told, bounds, cancel, restore>>
      /\ submit[r].stage = "undo" /\ Goto(r, "answered")
  BY DEF ScheduleUndo, At
<1>2. /\ submit'[r].stage = "answered"
      /\ \A q \in Runs : q # r => submit'[q] = submit[q]
  BY <1>1, GotoTyped DEF ManagerInv
<1>3. ~Pends(r)' /\ \A q \in Runs : q # r => runs'[q] = runs[q]
  <2>1. CASE Pends(r)
    <3>1. runs' = [runs EXCEPT ![r] = None]
      BY <2>1 DEF ScheduleUndo, Pends
    <3> QED BY <3>1 DEF ManagerInv, RunTypeOK, Pends, HasStatus, Known
  <2>2. CASE ~Pends(r)
    <3>1. runs' = runs
      BY <2>2 DEF ScheduleUndo, Pends
    <3> QED BY <2>2, <3>1 DEF Pends, HasStatus, Known
  <2> QED BY <2>1, <2>2
<1>4. /\ ListedOnce' /\ (Restoring' <=> Restoring)
      /\ \A q \in Runs : /\ Listed(q)' <=> Listed(q)
                         /\ ToClear(q)' <=> ToClear(q)
                         /\ ToCancel(q)' <=> ToCancel(q)
                         /\ AsActive(q)' <=> AsActive(q)
  BY <1>1, RequestsKept
<1>5. ASSUME NEW q \in Runs, q # r PROVE InHand(q)' /\ Replayable(q)' /\ Parked(q)' /\ Swept(q)'
  <2>1. Untouched(q)
    BY <1>1, <1>2, <1>3, <1>4, <1>5 DEF Untouched, durable
  <2> QED BY <1>1, <1>4, <2>1, UntouchedKept DEF BootInv, bounds
<1>6. InHand(r)' /\ Replayable(r)' /\ Parked(r)' /\ Swept(r)'
  <2>1. ~Listed(r) /\ records[r] = None
    BY <1>1 DEF ManagerInv, Fresh
  <2> QED BY <1>1, <1>2, <1>3, <1>4, <2>1 DEF InHand, Replayable, Parked, Swept, At, durable
<1> QED BY <1>4, <1>5, <1>6 DEF BootInv

LEMMA CheckBoots ==
  ASSUME ManagerInv, BootInv, NEW r \in Runs, ScheduleCheck(r) \/ ScheduleSweep(r)
  PROVE  BootInv'
<1>1. /\ UNCHANGED <<memory, journals, told, restarts, cancels, cancel, restore>>
      /\ \/ /\ submit[r].stage = "check" /\ records' = records /\ faults' = faults
            /\ Goto(r, IF Pends(r) THEN "queued" ELSE "sweep")
         \/ submit[r].stage = "sweep" /\ clear_pending_record(r) /\ Goto(r, "queued")
  BY DEF ScheduleCheck, ScheduleSweep, At, durable, bounds, Pends
<1>2. /\ \A q \in Runs : q # r => records'[q] = records[q] /\ submit'[q] = submit[q]
      /\ faults' = 0 => faults = 0
      /\ \/ /\ submit[r].stage = "check" /\ records'[r] = records[r]
            /\ submit'[r].stage = IF Pends(r) THEN "queued" ELSE "sweep"
         \/ /\ submit[r].stage = "sweep" /\ submit'[r].stage = "queued"
            /\ faults' = 0 => records'[r] = None
  BY <1>1, GotoTyped, ClearTyped DEF ManagerInv
<1>3. /\ ListedOnce' /\ (Restoring' <=> Restoring)
      /\ \A q \in Runs : /\ Listed(q)' <=> Listed(q)
                         /\ ToClear(q)' <=> ToClear(q)
                         /\ ToCancel(q)' <=> ToCancel(q)
                         /\ AsActive(q)' <=> AsActive(q)
  BY <1>1, RequestsKept
<1>4. ASSUME NEW q \in Runs, q # r PROVE InHand(q)' /\ Replayable(q)' /\ Parked(q)' /\ Swept(q)'
  <2>1. Untouched(q)
    BY <1>1, <1>2, <1>3, <1>4 DEF Untouched, memory
  <2> QED BY <1>2, <1>3, <2>1, UntouchedKept DEF BootInv
<1>5. InHand(r)' /\ Replayable(r)' /\ Parked(r)' /\ Swept(r)'
  <2>1. (Known(r)' <=> Known(r)) /\ (Pends(r)' <=> Pends(r)) /\ (Pends(r) => Known(r))
    BY <1>1 DEF memory, Known, Pends, HasStatus
  <2>2. InHand(r) /\ Parked(r) /\ Replayable(r) /\ Swept(r) /\ (Listed(r) => Restoring)
    BY ListedRestoring DEF BootInv
  <2> QED BY <1>1, <1>2, <1>3, <2>1, <2>2 DEF InHand, Replayable, Parked, Swept, At
<1> QED BY <1>3, <1>4, <1>5 DEF BootInv

LEMMA ExecuteBoots ==
  ASSUME ManagerInv, BootInv, NEW r \in Runs, FlushJournal(r) \/ EndRun(r)
  PROVE  BootInv'
<1>1. /\ UNCHANGED <<runs, records, bounds, submit, cancel, restore>>
      /\ task[r] = "execute"
      /\ journals' \in {journals, journals \cup {r}}
      /\ \A q \in Runs : q # r => task'[q] = task[q]
  BY DEF FlushJournal, EndRun, memory, ManagerInv, RunTypeOK
<1>2. /\ ListedOnce' /\ (Restoring' <=> Restoring)
      /\ \A q \in Runs : /\ Listed(q)' <=> Listed(q)
                         /\ ToClear(q)' <=> ToClear(q)
                         /\ ToCancel(q)' <=> ToCancel(q)
                         /\ AsActive(q)' <=> AsActive(q)
  BY <1>1, RequestsKept
<1>3. ASSUME NEW q \in Runs, q # r PROVE InHand(q)' /\ Replayable(q)' /\ Parked(q)' /\ Swept(q)'
  <2>1. Untouched(q)
    BY <1>1, <1>2, <1>3 DEF Untouched
  <2> QED BY <1>1, <1>2, <2>1, UntouchedKept DEF BootInv, bounds
<1>4. InHand(r)' /\ Replayable(r)' /\ Parked(r)' /\ Swept(r)'
  <2>1. Known(r) /\ ~Pends(r) /\ Known(r)' /\ ~Pends(r)'
    BY <1>1 DEF ManagerInv, Slots, Runs_, Pends, HasStatus, Known
  <2>2. InHand(r) /\ Swept(r)
    BY DEF BootInv
  <2> QED BY <1>1, <1>2, <2>1, <2>2 DEF InHand, Replayable, Parked, Swept, At, bounds
<1> QED BY <1>2, <1>3, <1>4 DEF BootInv

LEMMA FinishBoots ==
  ASSUME ManagerInv, BootInv, NEW r \in Runs, Finish(r), Retains
  PROVE  BootInv'
<1>1. UNCHANGED <<durable, bounds, submit, cancel, restore>>
  BY DEF Finish
<1>2. /\ ListedOnce' /\ (Restoring' <=> Restoring)
      /\ \A q \in Runs : /\ Listed(q)' <=> Listed(q)
                         /\ ToClear(q)' <=> ToClear(q)
                         /\ ToCancel(q)' <=> ToCancel(q)
                         /\ AsActive(q)' <=> AsActive(q)
  BY <1>1, RequestsKept
<1>3. ASSUME NEW q \in Runs PROVE InHand(q)' /\ Replayable(q)' /\ Parked(q)' /\ Swept(q)'
  <2>1. Restoring /\ Known(q) => Known(q)' \/ submit[q].stage = "undo"
    BY <1>1 DEF Retains, Leaves, Known, At, bounds
  <2>2. /\ Pends(q)' => Pends(q)
        /\ Known(q)' => Known(q)
        /\ Known(q)' => \/ Pends(q) /\ (Pends(q)' \/ task'[q] = "clear")
                        \/ ~Pends(q) /\ (task'[q] = task[q] \/ task[q] \in {"promote", "release"})
    BY FinishKeeps DEF Pends, HasStatus, Known
  <2>3. InHand(q) /\ Replayable(q) /\ Parked(q) /\ Swept(q)
    BY DEF BootInv
  <2>4. submit[q].stage = "undo" => ~Listed(q) /\ records[q] = None
    BY DEF ManagerInv, Fresh
  <2> QED BY <1>1, <1>2, <2>1, <2>2, <2>3, <2>4, ListedRestoring
      DEF InHand, Replayable, Parked, Swept, At, bounds, durable
<1> QED BY <1>2, <1>3 DEF BootInv

LEMMA SpawnBoots ==
  ASSUME ManagerInv, BootInv, NEW r \in Runs, SpawnPromoted(r)
  PROVE  BootInv'
<1>1. /\ UNCHANGED <<runs, journals, submit, cancel>>
      /\ task[r] = "clear" /\ clear_pending_record(r)
      /\ \A q \in Runs : q # r => task'[q] = task[q]
      /\ restore' = restore \/ (restore.stage = "start" /\ restore' = Done(restore))
  BY DEF SpawnPromoted, ManagerInv, RunTypeOK
<1>2. /\ \A q \in Runs : q # r => records'[q] = records[q]
      /\ faults' = 0 => faults = 0 /\ records'[r] = None
  BY <1>1, ClearTyped DEF ManagerInv
<1>3. /\ restore'.todo = restore.todo /\ (restore'.cur = restore.cur \/ restore'.cur = None)
      /\ Restoring' => Restoring
  <2>1. CASE restore' = restore
    BY <2>1 DEF Restoring
  <2>2. CASE restore.stage = "start" /\ restore' = Done(restore)
    BY <2>2, DoneTyped DEF ManagerInv, RunTypeOK, Restoring, NoneLeft
  <2> QED BY <1>1, <2>1, <2>2
<1>4. ListedOnce' /\ \A q \in Runs : Listed(q)' => Listed(q)
  <2>1. restore' \in RestoreState /\ restore \in RestoreState
    BY <1>1, DoneTyped DEF ManagerInv, RunTypeOK
  <2>2. \A a \in restore.todo : a.run # None
    BY <2>1 DEF RestoreState
  <2> QED BY <1>3, <2>2 DEF BootInv, ListedOnce, Listed
<1>5. \A q \in Runs : (ToClear(q)' <=> ToClear(q)) /\ (ToCancel(q)' <=> ToCancel(q)) /\ (AsActive(q)' <=> AsActive(q))
  BY <1>1 DEF ToClear, ToCancel, AsActive
<1>6. ASSUME NEW q \in Runs, q # r PROVE InHand(q)' /\ Replayable(q)' /\ Parked(q)' /\ Swept(q)'
  <2>1. Untouched(q)
    BY <1>1, <1>2, <1>3, <1>4, <1>5, <1>6 DEF Untouched
  <2> QED BY <1>2, <1>3, <2>1, UntouchedKept DEF BootInv
<1>7. InHand(r)' /\ Replayable(r)' /\ Parked(r)' /\ Swept(r)'
  <2>1. Known(r) /\ ~Pends(r) /\ Known(r)' /\ ~Pends(r)'
    BY <1>1 DEF ManagerInv, Slots, Runs_, Pends, HasStatus, Known
  <2>2. InHand(r)
    BY DEF BootInv
  <2> QED BY <1>1, <1>2, <1>3, <1>5, <2>1, <2>2 DEF InHand, Replayable, Parked, Swept
<1> QED BY <1>4, <1>6, <1>7 DEF BootInv

\* A cancellation that starts names known runs; one that ends has nothing left to clear.
LEMMA CancelStartBoots ==
  ASSUME ManagerInv, BootInv,
         (\E r \in Runs : CancelRun(r)) \/ (\E t \in Threads : CancelThreadRuns(t)) \/ CancelAnswer
  PROVE  BootInv'
<1> DEFINE Sound(q) == ~ToClear(q)' /\ ~ToClear(q) /\ (ToCancel(q)' => Known(q)) /\ (AsActive(q)' => ~Pends(q))
<1>1. UNCHANGED <<memory, durable, restarts, faults, submit, restore>>
  BY DEF CancelRun, CancelThreadRuns, CancelAnswer, bounds
<1>2. ASSUME NEW todo \in Seq([run: Runs, was: {"named", "active", "queued"}]), cancel = None,
             cancel' = NewCancel(todo), NEW q \in Runs,
             \A i \in DOMAIN todo : /\ Known(todo[i].run)
                                    /\ todo[i].was = "active" => ~Pends(todo[i].run)
      PROVE  Sound(q)
  <2>1. cancel'.todo = todo /\ cancel'.clear = {}
    BY <1>2, NewCancelTyped
  <2> QED BY <1>2, <2>1 DEF ToClear, ToCancel, AsActive
<1>3. ASSUME NEW q \in Runs, NEW r \in Runs, CancelRun(r) PROVE Sound(q)
  <2> DEFINE todo == <<[run |-> r, was |-> "named"]>>
  <2>1. /\ todo \in Seq([run: Runs, was: {"named", "active", "queued"}])
        /\ DOMAIN todo = {1} /\ todo[1].run = r /\ todo[1].was = "named"
    OBVIOUS
  <2>2. cancel = None /\ cancel' = NewCancel(todo) /\ Known(r)
    BY <1>3 DEF CancelRun
  <2> HIDE DEF todo, Sound
  <2>3. \A i \in DOMAIN todo : Known(todo[i].run) /\ (todo[i].was = "active" => ~Pends(todo[i].run))
    BY <2>1, <2>2
  <2> QED BY <1>2, <2>1, <2>2, <2>3
<1>4. ASSUME NEW q \in Runs, NEW t \in Threads, CancelThreadRuns(t) PROVE Sound(q)
  <2>1. cancel = None /\ cancel' = NewCancel(thread_runs(t))
    BY <1>4 DEF CancelThreadRuns
  <2> HIDE DEF Sound
  <2> QED BY <1>2, <2>1, ThreadRunsTyped
<1>5. ASSUME NEW q \in Runs, CancelAnswer PROVE Sound(q)
  BY <1>5 DEF CancelAnswer, ToClear, ToCancel, AsActive
<1>6. \A q \in Runs : Sound(q)
  BY <1>3, <1>4, <1>5
<1>7. ListedOnce'
  BY <1>1 DEF BootInv, ListedOnce
<1>8. ASSUME NEW q \in Runs PROVE InHand(q)' /\ Replayable(q)' /\ Parked(q)' /\ Swept(q)'
  <2>1. /\ Known(q)' <=> Known(q)
        /\ Pends(q)' <=> Pends(q)
        /\ Listed(q)' <=> Listed(q)
        /\ Restoring' <=> Restoring
    BY <1>1 DEF memory, Known, Pends, HasStatus, Listed, Restoring
  <2>2. InHand(q) /\ Replayable(q) /\ Parked(q) /\ Swept(q)
    BY DEF BootInv
  <2>3. submit[q].stage \in {"none", "insert"} => ~Known(q)
    BY DEF ManagerInv, Fresh, Known
  <2>4. Sound(q)
    BY <1>6
  <2> QED BY <1>1, <2>1, <2>2, <2>3, <2>4 DEF InHand, Replayable, Parked, Swept, durable, memory
<1> QED BY <1>7, <1>8 DEF BootInv

LEMMA CancelClearBoots ==
  ASSUME ManagerInv, BootInv, NEW r \in Runs, CancelClear(r)
  PROVE  BootInv'
<1>1. /\ UNCHANGED <<memory, journals, told, restarts, cancels, submit, restore>>
      /\ cancel \in CancelRequest /\ cancel # None /\ r \in cancel.clear
      /\ cancel' = [cancel EXCEPT !.clear = @ \ {r}]
      /\ clear_pending_record(r)
  BY DEF CancelClear, ManagerInv, RunTypeOK
<1>2. /\ \A q \in Runs : q # r => records'[q] = records[q]
      /\ faults' = 0 => faults = 0 /\ records'[r] = None
  BY <1>1, ClearTyped DEF ManagerInv
<1>3. cancel' \in CancelRequest /\ cancel'.todo = cancel.todo /\ cancel'.clear = cancel.clear \ {r}
  BY <1>1 DEF CancelRequest
<1>4. cancel' # None
  BY <1>3, NoneAssumption, Zenon
<1>5. /\ ListedOnce' /\ (Restoring' <=> Restoring)
      /\ \A q \in Runs : /\ Listed(q)' <=> Listed(q)
                         /\ ToClear(q)' <=> ToClear(q) /\ q # r
                         /\ ToCancel(q)' <=> ToCancel(q)
                         /\ AsActive(q)' <=> AsActive(q)
  BY <1>1, <1>3, <1>4 DEF BootInv, ListedOnce, Restoring, Listed, ToClear, ToCancel, AsActive
<1>6. ASSUME NEW q \in Runs, q # r PROVE InHand(q)' /\ Replayable(q)' /\ Parked(q)' /\ Swept(q)'
  <2>1. Untouched(q)
    BY <1>1, <1>2, <1>5, <1>6 DEF Untouched, memory
  <2> QED BY <1>2, <1>5, <2>1, UntouchedKept DEF BootInv
<1>7. InHand(r)' /\ Replayable(r)' /\ Parked(r)' /\ Swept(r)'
  <2>1. (Known(r)' <=> Known(r)) /\ (Pends(r)' <=> Pends(r))
    BY <1>1 DEF memory, Known, Pends, HasStatus
  <2>2. InHand(r) /\ Replayable(r) /\ Parked(r) /\ ToClear(r) /\ (Listed(r) => Restoring)
    BY <1>1, ListedRestoring DEF BootInv, ToClear
  <2>3. submit[r].stage \in {"undo", "answered"} => ~Listed(r)
    BY DEF ManagerInv, Fresh
  <2> QED BY <1>1, <1>2, <1>5, <2>1, <2>2, <2>3 DEF InHand, Replayable, Parked, Swept
<1> QED BY <1>5, <1>6, <1>7 DEF BootInv

LEMMA CancelNextBoots ==
  ASSUME ManagerInv, BootInv, CancelNext
  PROVE  BootInv'
<1>1. /\ UNCHANGED <<task, durable, bounds, submit, restore>>
      /\ cancel # None /\ cancel.todo # <<>>
  BY DEF CancelNext
<1> DEFINE h == Head(cancel.todo)
<1>2. PICK r \in Runs : r = h.run
  BY CancelMoves
<1>3. /\ cancel' # None /\ cancel'.todo = Tail(cancel.todo)
      /\ cancel'.clear = cancel.clear \/ (\E q \in Runs : cancel'.clear = cancel.clear \cup {q} /\ Pends(q) /\ ~Pends(q)')
      /\ Pends(r) /\ h.was # "active" => r \in cancel'.clear
  BY <1>2, CancelMoves
<1>4. \A q \in Runs : /\ Known(q)' <=> Known(q)
                      /\ Pends(q)' => Pends(q)
                      /\ Pends(q) /\ ~Pends(q)' => q = r
  BY <1>2, CancelNextKeeps
<1>5. /\ cancel.todo \in Seq([run: Runs, was: {"named", "active", "queued"}])
      /\ DOMAIN cancel.todo = 1..Len(cancel.todo) /\ 1 \in DOMAIN cancel.todo
      /\ h = cancel.todo[1]
      /\ \A i \in DOMAIN cancel'.todo : i + 1 \in DOMAIN cancel.todo /\ cancel'.todo[i] = cancel.todo[i + 1]
  <2>1. cancel.todo \in Seq([run: Runs, was: {"named", "active", "queued"}])
    BY CancelMoves DEF CancelRequest
  <2> QED BY <1>1, <1>3, <2>1, HeadTailProperties
<1>6. /\ ListedOnce' /\ (Restoring' <=> Restoring)
      /\ \A q \in Runs : /\ Listed(q)' <=> Listed(q)
                         /\ ToClear(q) => ToClear(q)'
                         /\ ToClear(q)' => ToClear(q) \/ (Pends(q) /\ ~Pends(q)')
                         /\ ToCancel(q)' => ToCancel(q)
                         /\ AsActive(q)' => AsActive(q)
  <2>1. ListedOnce' /\ (Restoring' <=> Restoring) /\ \A q \in Runs : Listed(q)' <=> Listed(q)
    BY <1>1 DEF BootInv, ListedOnce, Restoring, Listed
  <2>2. \A q \in Runs : (ToClear(q) => ToClear(q)') /\ (ToClear(q)' => ToClear(q) \/ (Pends(q) /\ ~Pends(q)'))
    BY <1>1, <1>3 DEF ToClear
  <2>3. \A q \in Runs : (ToCancel(q)' => ToCancel(q)) /\ (AsActive(q)' => AsActive(q))
    BY <1>1, <1>5 DEF ToCancel, AsActive
  <2> QED BY <2>1, <2>2, <2>3
<1>7. ToCancel(r) /\ (h.was = "active" => AsActive(r))
  BY <1>1, <1>2, <1>5 DEF ToCancel, AsActive
<1>8. ASSUME NEW q \in Runs PROVE InHand(q)' /\ Replayable(q)' /\ Parked(q)' /\ Swept(q)'
  <2>1. InHand(q) /\ Replayable(q) /\ Parked(q) /\ Swept(q)
    BY DEF BootInv
  <2>2. submit[q].stage \in {"none", "insert"} => ~Pends(q)
    BY DEF ManagerInv, Fresh, Pends, HasStatus, Known
  <2>3. Pends(q) => Known(q)
    BY DEF Pends, HasStatus
  <2>4. Pends(q) /\ ~Pends(q)' => ToClear(q)'
    BY <1>3, <1>4, <1>7, <2>1 DEF Parked, ToClear
  <2> QED BY <1>1, <1>4, <1>6, <2>1, <2>2, <2>3, <2>4
      DEF InHand, Replayable, Parked, Swept, durable, bounds
<1> QED BY <1>6, <1>8 DEF BootInv

LEMMA DrainBoots ==
  ASSUME ManagerInv, BootInv, Drain
  PROVE  BootInv'
<1>1. UNCHANGED <<runs, task, durable, bounds, submit, cancel, restore>>
  BY DEF Drain
<1>2. /\ ListedOnce' /\ (Restoring' <=> Restoring)
      /\ \A q \in Runs : /\ Listed(q)' <=> Listed(q)
                         /\ ToClear(q)' <=> ToClear(q)
                         /\ ToCancel(q)' <=> ToCancel(q)
                         /\ AsActive(q)' <=> AsActive(q)
  BY <1>1, RequestsKept
<1>3. ASSUME NEW q \in Runs PROVE InHand(q)' /\ Replayable(q)' /\ Parked(q)' /\ Swept(q)'
  <2>1. Untouched(q)
    BY <1>1, <1>2 DEF Untouched, durable
  <2> QED BY <1>1, <1>2, <2>1, UntouchedKept DEF BootInv, bounds
<1> QED BY <1>2, <1>3 DEF BootInv

\* A new process knows no run, and nobody asks anything of it yet.
LEMMA RestartBoots ==
  ASSUME ManagerInv, Restart
  PROVE  BootInv'
<1>1. /\ runs' = [r \in Runs |-> None] /\ cancel' = None /\ restore' = Booting
      /\ submit' = [r \in Runs |->
           IF submit[r].stage \in {"none", "answered", "queued"}
           THEN submit[r] ELSE [stage |-> "lost", seq |-> 0]]
  BY DEF Restart
<1>2. restore'.cur = None /\ restore'.todo = {}
  BY <1>1 DEF Booting, NoneLeft
<1>3. ListedOnce'
  BY <1>2 DEF ListedOnce
<1>4. ASSUME NEW q \in Runs PROVE InHand(q)' /\ Replayable(q)' /\ Parked(q)' /\ Swept(q)'
  <2>1. ~Known(q)' /\ ~Pends(q)'
    BY <1>1 DEF Known, Pends, HasStatus
  <2>2. ~Listed(q)'
    BY <1>2 DEF Listed
  <2>3. ~ToClear(q)' /\ ~ToCancel(q)'
    BY <1>1 DEF ToClear, ToCancel
  <2>4. submit'[q].stage \notin {"persist", "check", "sweep"}
    BY <1>1
  <2> QED BY <2>1, <2>2, <2>3, <2>4 DEF InHand, Replayable, Parked, Swept
<1> QED BY <1>3, <1>4 DEF BootInv

\* The listing names runs that have a record, each once.
LEMMA RestoreListBoots ==
  ASSUME ManagerInv, BootInv, RestoreList
  PROVE  BootInv'
<1>1. /\ UNCHANGED <<memory, durable, submit, cancel>>
      /\ restore.stage = "boot" /\ (faults' = 0 => faults = 0)
  BY DEF RestoreList, StoreFails, ManagerInv, RunTypeOK
<1>2. Restoring
  BY <1>1 DEF Restoring, NoneLeft
<1>3. \A b \in restore'.todo : b \in {[run |-> r, seq |-> records[r]] : r \in Pending}
  BY ListTyped DEF NoneLeft
<1>4. \A b \in restore'.todo : b.run \in Pending /\ b = [run |-> b.run, seq |-> records[b.run]]
  BY <1>3
<1>5. ListedOnce'
  <2>1. \A b \in restore'.todo : b.run \in Runs
    BY <1>4 DEF Pending
  <2> QED BY <1>4, <2>1, ListTyped DEF ListedOnce
<1>6. ASSUME NEW q \in Runs PROVE InHand(q)' /\ Replayable(q)' /\ Parked(q)' /\ Swept(q)'
  <2>1. (Known(q)' <=> Known(q)) /\ (Pends(q)' <=> Pends(q))
    BY <1>1 DEF memory, Known, Pends, HasStatus
  <2>2. (ToClear(q)' <=> ToClear(q)) /\ (ToCancel(q)' <=> ToCancel(q)) /\ (AsActive(q)' <=> AsActive(q))
    BY <1>1 DEF ToClear, ToCancel, AsActive
  <2>3. Listed(q)' => records[q] # None
    BY <1>4, ListTyped DEF Listed, Pending
  <2>4. restore'.cur # q
    BY ListTyped
  <2>5. InHand(q) /\ Parked(q) /\ Swept(q)
    BY DEF BootInv
  <2> QED BY <1>1, <1>2, <2>1, <2>2, <2>3, <2>4, <2>5
      DEF InHand, Replayable, Parked, Swept, memory, durable
<1> QED BY <1>5, <1>6 DEF BootInv

\* Only the record of a run with a journal is cleared, and the restore is then done with it.
LEMMA RestoreCheckBoots ==
  ASSUME ManagerInv, BootInv, NEW a \in restore.todo, RestoreCheck(a)
  PROVE  BootInv'
<1>1. UNCHANGED <<memory, journals, submit, cancel>>
  BY DEF RestoreCheck
<1>2. PICK r \in Runs : r = a.run
  BY CheckMoves
<1>3. faults' = 0 => faults = 0
  <2>1. faults' = faults \/ StoreFails \/ clear_pending_record(a.run)
    BY DEF RestoreCheck
  <2>2. clear_pending_record(a.run) => (faults' = 0 => faults = 0)
    BY <1>2, ClearTyped DEF ManagerInv
  <2> QED BY <2>1, <2>2 DEF StoreFails, ManagerInv, RunTypeOK
<1>4. /\ \A q \in Runs : q # r => records'[q] = records[q]
      /\ \/ records' = records
         \/ r \in journals /\ restore'.cur = None /\ (faults' = 0 => records'[r] = None)
  <2>1. CASE records' = records
    BY <2>1
  <2>2. CASE clear_pending_record(r) /\ r \in journals
    BY <1>2, <2>2, CheckMoves, ClearTyped DEF ManagerInv
  <2> QED BY <1>2, <2>1, <2>2, CheckMoves
<1>5. /\ restore'.todo = restore.todo \ {a} /\ restore.cur = None
      /\ restore'.cur = None \/ (restore'.cur = r /\ r \notin journals)
  BY <1>2, CheckMoves
<1>6. \A b \in restore.todo : b.run \in Runs /\ (b.run = r => b = a)
  BY <1>2 DEF BootInv, ListedOnce, ManagerInv, RunTypeOK, RestoreState
<1>7. ListedOnce'
  BY <1>5, <1>6 DEF BootInv, ListedOnce
<1>8. Restoring
  BY DEF Restoring, NoneLeft
<1>9. \A q \in Runs : /\ Listed(q)' => Listed(q)
                      /\ ToClear(q)' <=> ToClear(q)
                      /\ ToCancel(q)' <=> ToCancel(q)
                      /\ AsActive(q)' <=> AsActive(q)
  BY <1>1, <1>2, <1>5 DEF Listed, ToClear, ToCancel, AsActive
<1>10. ASSUME NEW q \in Runs, q # r PROVE InHand(q)' /\ Replayable(q)' /\ Parked(q)' /\ Swept(q)'
  <2>1. Untouched(q)
    BY <1>1, <1>4, <1>5, <1>9, <1>10 DEF Untouched, memory
  <2> QED BY <1>3, <1>8, <2>1, UntouchedKept DEF BootInv
<1>11. InHand(r)' /\ Replayable(r)' /\ Parked(r)' /\ Swept(r)'
  <2>1. (Known(r)' <=> Known(r)) /\ (Pends(r)' <=> Pends(r))
    BY <1>1 DEF memory, Known, Pends, HasStatus
  <2>2. InHand(r) /\ Replayable(r) /\ Parked(r) /\ Swept(r)
    BY DEF BootInv
  <2>3. Listed(r) /\ (restore'.cur = None => ~Listed(r)')
    BY <1>2, <1>5, <1>6 DEF Listed
  <2> QED BY <1>1, <1>3, <1>4, <1>5, <1>8, <1>9, <2>1, <2>2, <2>3
      DEF InHand, Replayable, Parked, Swept, memory
<1> QED BY <1>7, <1>10, <1>11 DEF BootInv

\* A run taken back in waits with its record, or has it cleared before it starts.
LEMMA RestoreInsertBoots ==
  ASSUME ManagerInv, BootInv, RestoreInsert
  PROVE  BootInv'
<1>1. /\ UNCHANGED <<durable, submit, cancel>> /\ restore.stage = "insert"
      /\ faults' = 0 => faults = 0
  BY DEF RestoreInsert, StoreFails, ManagerInv, RunTypeOK
<1>2. PICK r \in Runs : r = restore.cur
  BY RestoreInsertMoves
<1>3. Restoring /\ Listed(r)
  BY <1>1, <1>2 DEF Restoring, NoneLeft, Listed
<1>4. restore'.todo = restore.todo /\ (restore'.cur = r \/ restore'.cur = None)
  BY <1>2, RestoreInsertMoves
<1>5. ListedOnce'
  <2>1. \A b \in restore.todo : b.run \in Runs
    BY DEF ManagerInv, RunTypeOK, RestoreState
  <2> QED BY <1>2, <1>4, <2>1 DEF BootInv, ListedOnce
<1>6. \A q \in Runs : /\ Listed(q)' => Listed(q)
                      /\ ToClear(q)' <=> ToClear(q)
                      /\ ToCancel(q)' <=> ToCancel(q)
                      /\ AsActive(q)' <=> AsActive(q)
  BY <1>1, <1>2, <1>4 DEF Listed, ToClear, ToCancel, AsActive
<1>7. \A q \in Runs : q # r => runs'[q] = runs[q] /\ task'[q] = task[q]
  BY <1>2, RestoreInsertKeeps
<1>8. ASSUME NEW q \in Runs, q # r \/ UNCHANGED memory
      PROVE  InHand(q)' /\ Replayable(q)' /\ Parked(q)' /\ Swept(q)'
  <2>1. Untouched(q)
    BY <1>1, <1>2, <1>4, <1>6, <1>7, <1>8 DEF Untouched, durable, memory
  <2> QED BY <1>1, <1>3, <2>1, UntouchedKept DEF BootInv
<1>9. CASE UNCHANGED memory
  BY <1>5, <1>8, <1>9 DEF BootInv
<1>10. CASE /\ runs[r] = None
            /\ \/ InsertStarted(r) /\ task' = [task EXCEPT ![r] = "clear"]
               \/ \E cap \in Nat : InsertQueued(r, cap) \/ InsertRefused(r, "enqueue", cap)
  <2>1. records[r] # None /\ r \notin journals
    BY <1>2, <1>3, <1>10 DEF BootInv, Replayable, Known
  <2>2. submit[r].stage \notin {"none", "insert", "persist", "undo", "answered", "check", "sweep"}
    BY <1>3, <1>10 DEF BootInv, InHand, ManagerInv, Fresh, Known
  <2>3. ~ToClear(r) /\ ~ToCancel(r) /\ ~AsActive(r)
    BY <1>3, <1>10, <2>2 DEF BootInv, InHand, Known, ToCancel, AsActive
  <2>4. Known(r)' => Pends(r)' \/ task'[r] = "clear"
    BY <1>10, InsertedAs DEF ManagerInv, RunTypeOK
  <2>5. InHand(r)' /\ Replayable(r)' /\ Parked(r)' /\ Swept(r)'
    BY <1>1, <1>6, <2>1, <2>2, <2>3, <2>4 DEF InHand, Replayable, Parked, Swept, durable
  <2> QED BY <1>5, <1>8, <2>5 DEF BootInv
<1> QED BY <1>2, <1>9, <1>10, RestoreInsertMoves

\* Every step keeps memory and store in agreement, if it evicts nothing from a restore.
LEMMA BootStep ==
  ASSUME ManagerInv, BootInv, [Next]_vars, [Retains]_vars
  PROVE  BootInv'
<1>1. ASSUME NEW r \in Runs, ScheduleStep(r) \/ Schedule(r) PROVE BootInv'
  BY <1>1, ScheduleBoots, PersistBoots, UndoBoots, CheckBoots DEF ScheduleStep
<1>2. CASE UNCHANGED vars
  <2>1. UNCHANGED <<runs, task, records, journals, faults, submit, cancel, restore>>
    BY <1>2 DEF vars, memory, durable, bounds
  <2>2. /\ ListedOnce' /\ (Restoring' <=> Restoring)
        /\ \A q \in Runs : /\ Listed(q)' <=> Listed(q)
                           /\ ToClear(q)' <=> ToClear(q)
                           /\ ToCancel(q)' <=> ToCancel(q)
                           /\ AsActive(q)' <=> AsActive(q)
    BY <2>1, RequestsKept
  <2>3. ASSUME NEW q \in Runs PROVE InHand(q)' /\ Replayable(q)' /\ Parked(q)' /\ Swept(q)'
    <3>1. Untouched(q)
      BY <2>1, <2>2 DEF Untouched
    <3> QED BY <2>1, <2>2, <3>1, UntouchedKept DEF BootInv
  <2> QED BY <2>2, <2>3 DEF BootInv
<1>3. ASSUME NEW r \in Runs, SpawnPromoted(r) \/ EndRun(r) \/ FlushJournal(r) PROVE BootInv'
  BY <1>3, SpawnBoots, ExecuteBoots
<1>4. ASSUME NEW r \in Runs, Finish(r) PROVE BootInv'
  BY <1>2, <1>4, FinishBoots
<1>5. CASE CancelStep \/ (\E r \in Runs : CancelRun(r)) \/ \E t \in Threads : CancelThreadRuns(t)
  BY <1>5, CancelStartBoots, CancelClearBoots, CancelNextBoots DEF CancelStep
<1>6. CASE RestoreStep
  BY <1>6, RestoreListBoots, RestoreCheckBoots, RestoreInsertBoots DEF RestoreStep
<1>7. CASE Drain \/ Restart
  BY <1>7, DrainBoots, RestartBoots
<1> QED BY <1>1, <1>2, <1>3, <1>4, <1>5, <1>6, <1>7 DEF Next, ServerStep

LEMMA BootAlways == Spec /\ RetainsUntilRestored => [](ManagerInv /\ BootInv)
<1>1. ManagerInv /\ BootInv /\ [Next]_vars /\ [Retains]_vars => BootInv'
  BY BootStep
<1>2. RetainsUntilRestored <=> [][Retains]_vars
  BY DEF RetainsUntilRestored, Retains, Restoring
<1> QED BY <1>1, <1>2, ManagerStep, InitManager, InitBoot, PTL DEF Spec

\* An accepted run that still waits has its record in the store, for any number of runs,
\* crashes, failed store calls and cancellations (schedule, finish, cancel_run,
\* restore_one), as long as no run is evicted before the restore is done.
THEOREM AcceptedRunsDurable == Spec /\ RetainsUntilRestored => []QueuedDurable
<1>1. ManagerInv /\ BootInv => QueuedDurable
  BY DEF BootInv, Parked, Pends, QueuedDurable, At
<1> QED BY <1>1, BootAlways, PTL

\* While no delete has failed, the record of a run that left the queue is about to be
\* cleared (schedule's straggler check, terminate, cancel_run, restore_one), as long as no
\* run is evicted before the restore is done.
THEOREM NoStragglers == Spec /\ RetainsUntilRestored => []NoStraggler
<1>1. ManagerInv /\ BootInv => NoStraggler
  BY DEF BootInv, Swept, Pends, ToClear, NoStraggler
<1> QED BY <1>1, BootAlways, PTL

\* The steps that touch a task.
LEMMA TaskSteps ==
  ASSUME Next
  PROVE  \/ \E r \in Runs : \E s \in {"enqueue", "reject"} : ScheduleInsert(r, s)
         \/ \E r \in Runs : Finish(r) \/ SpawnPromoted(r) \/ EndRun(r)
         \/ RestoreInsert \/ Restart \/ task' = task
<1>1. \A r \in Runs : ScheduleStep(r) =>
        (\E s \in {"enqueue", "reject"} : ScheduleInsert(r, s)) \/ task' = task
  BY DEF ScheduleStep, SchedulePersist, ScheduleUndo, ScheduleCheck, ScheduleSweep, memory
<1>2. CancelStep => task' = task
  BY DEF CancelStep, CancelNext, CancelAnswer, CancelClear, memory
<1>3. RestoreStep => RestoreInsert \/ task' = task
  BY DEF RestoreStep, RestoreList, RestoreCheck, memory
<1>4. /\ \A r \in Runs : Schedule(r) \/ FlushJournal(r) \/ CancelRun(r) => task' = task
      /\ \A t \in Threads : CancelThreadRuns(t) => task' = task
      /\ Drain => task' = task
  BY DEF Schedule, FlushJournal, CancelRun, CancelThreadRuns, Drain, memory
<1> QED BY <1>1, <1>2, <1>3, <1>4 DEF Next, ServerStep

\* A task starts only for a run without a journal.
LEMMA StartsUnexecuted ==
  ASSUME ManagerInv, BootInv, Next, NEW q \in Runs, task[q] = "none", task'[q] # "none"
  PROVE  q \notin journals
<1>1. ASSUME NEW r \in Runs, NEW s \in {"enqueue", "reject"}, ScheduleInsert(r, s)
      PROVE  q \notin journals
  <2>1. submit[r].stage = "insert" /\ (q # r => task'[q] = task[q])
    BY <1>1 DEF ScheduleInsert, At, ManagerInv, RunTypeOK
  <2> QED BY <2>1 DEF ManagerInv, Fresh
<1>2. ASSUME NEW r \in Runs, Finish(r) PROVE q \notin journals
  BY <1>2, FinishKeeps DEF BootInv, Parked
<1>3. CASE RestoreInsert
  <2>1. PICK r \in Runs : r = restore.cur
    BY <1>3, RestoreInsertMoves
  <2>2. q = r
    BY <1>3, <2>1, RestoreInsertKeeps
  <2>3. runs[r] = None
    BY <1>3, <2>1, <2>2, RestoreInsertMoves DEF memory
  <2> QED BY <2>1, <2>2, <2>3 DEF BootInv, Replayable, Listed, Known
<1>4. ASSUME NEW r \in Runs, SpawnPromoted(r) \/ EndRun(r) PROVE FALSE
  <2>1. task[r] # "none" /\ (q # r => task'[q] = task[q])
    BY <1>4 DEF SpawnPromoted, EndRun, ManagerInv, RunTypeOK
  <2> QED BY <2>1
<1>5. CASE Restart
  BY <1>5 DEF Restart
<1>6. CASE task' = task
  BY <1>6
<1> QED BY <1>1, <1>2, <1>3, <1>4, <1>5, <1>6, TaskSteps

\* A run whose journal is in the store is never given to a task again, whatever records
\* lost deletes and crashes left behind (restore_one's dedupe, finish's promotion), as long
\* as no run is evicted before the restore is done.
THEOREM NeverRunTwice == Spec /\ RetainsUntilRestored => NeverReexecuted
<1> DEFINE Once == \A r \in Runs : task[r] = "none" /\ task'[r] # "none" => r \notin journals
<1>1. ManagerInv /\ BootInv /\ [Next]_vars => [Once]_vars
  BY StartsUnexecuted
<1>2. Spec => [][Next]_vars
  BY PTL DEF Spec
<1>3. NeverReexecuted <=> [][Once]_vars
  BY DEF NeverReexecuted
<1> QED BY <1>1, <1>2, <1>3, BootAlways, PTL
-----------------------------------------------------------------------------
(***************************************************************************)
(* Retention                                                               *)
(*                                                                         *)
(* The scan finds a terminal run only through order, so the invariant says *)
(* that order names every retained run, and none twice: an entry counted   *)
(* twice would end the scan too early.  What order names besides are runs  *)
(* that insert refused; they must never be inserted again.                 *)
(***************************************************************************)

\* insert refused r, and nobody will bring it again.
Refused(r) ==
  \/ At(r, "answered")
  \/ ~Listed(r) /\ restore.stage # "boot" /\ submit[r].stage \notin {"none", "insert"}

Ordered ==
  /\ ListedOnce
  /\ Distinct(order)
  /\ \A r \in Runs : Known(r) => r \in Elements(order)
  /\ \A r \in Elements(order) : Known(r) \/ Refused(r)

LEMMA InitOrdered == Init => Ordered
BY DEF Init, Ordered, ListedOnce, NoneLeft, Distinct, Elements, Known

\* Concatenation of two sequences that share nothing.
LEMMA ConcatElements ==
  ASSUME NEW S, NEW s \in Seq(S), NEW t \in Seq(S)
  PROVE  /\ s \o t \in Seq(S)
         /\ Elements(s \o t) = Elements(s) \cup Elements(t)
         /\ Distinct(s) /\ Distinct(t) /\ Elements(s) \cap Elements(t) = {} => Distinct(s \o t)
<1> DEFINE u == s \o t
           m == Len(s)
           n == Len(t)
<1>1. /\ u \in Seq(S) /\ DOMAIN u = 1..(m + n) /\ DOMAIN s = 1..m /\ DOMAIN t = 1..n
      /\ m \in Nat /\ n \in Nat
      /\ \A i \in 1..(m + n) : u[i] = IF i <= m THEN s[i] ELSE t[i - m]
  BY ConcatProperties
<1> HIDE DEF u, m, n
<1>2. /\ \A i \in 1..m : i \in 1..(m + n) /\ u[i] = s[i]
      /\ \A i \in 1..n : i + m \in 1..(m + n) /\ u[i + m] = t[i]
  <2>1. \A i \in 1..n : i + m \in 1..(m + n) /\ ~(i + m <= m) /\ (i + m) - m = i
    BY <1>1
  <2>2. \A i \in 1..m : i \in 1..(m + n) /\ i <= m
    BY <1>1
  <2> QED BY <1>1, <2>1, <2>2
<1>3. \A i \in 1..(m + n) : i \in 1..m \/ (i - m \in 1..n /\ u[i] = t[i - m])
  BY <1>1
<1>4. Elements(u) = Elements(s) \cup Elements(t)
  <2>1. ASSUME NEW x \in Elements(u) PROVE x \in Elements(s) \cup Elements(t)
    <3>1. PICK i \in 1..(m + n) : x = u[i]
      BY <1>1, <2>1 DEF Elements
    <3> QED BY <1>1, <1>2, <1>3, <3>1 DEF Elements
  <2>2. ASSUME NEW x \in Elements(s) \cup Elements(t) PROVE x \in Elements(u)
    <3>1. CASE x \in Elements(s)
      <4>1. PICK i \in 1..m : x = s[i]
        BY <1>1, <3>1 DEF Elements
      <4> QED BY <1>1, <1>2, <4>1 DEF Elements
    <3>2. CASE x \in Elements(t)
      <4>1. PICK i \in 1..n : x = t[i]
        BY <1>1, <3>2 DEF Elements
      <4> QED BY <1>1, <1>2, <4>1 DEF Elements
    <3> QED BY <2>2, <3>1, <3>2
  <2> QED BY <2>1, <2>2
<1>5. ASSUME Distinct(s), Distinct(t), Elements(s) \cap Elements(t) = {} PROVE Distinct(u)
  <2>1. \A i \in 1..m, j \in 1..n : s[i] # t[j]
    <3>1. (\A i \in 1..m : s[i] \in Elements(s)) /\ (\A j \in 1..n : t[j] \in Elements(t))
      BY <1>1 DEF Elements
    <3> QED BY <1>5, <3>1
  <2>2. \A i, j \in 1..m : s[i] = s[j] => i = j
    BY <1>1, <1>5 DEF Distinct
  <2>3. \A i, j \in 1..n : t[i] = t[j] => i = j
    BY <1>1, <1>5 DEF Distinct
  <2> SUFFICES ASSUME NEW i \in 1..(m + n), NEW j \in 1..(m + n), u[i] = u[j] PROVE i = j
    BY <1>1 DEF Distinct
  <2>4. CASE i \in 1..m /\ j \in 1..m
    BY <1>2, <2>2, <2>4
  <2>5. CASE i \in 1..m /\ j \notin 1..m
    BY <1>2, <1>3, <2>1, <2>5
  <2>6. CASE i \notin 1..m /\ j \in 1..m
    BY <1>2, <1>3, <2>1, <2>6
  <2>7. CASE i \notin 1..m /\ j \notin 1..m
    <3>1. i - m = j - m
      BY <1>3, <2>3, <2>7
    <3> QED BY <1>1, <3>1
  <2> QED BY <2>4, <2>5, <2>6, <2>7
<1> QED BY <1>1, <1>4, <1>5 DEF u

\* The two parts the scan cuts order into.
LEMMA CutElements ==
  ASSUME NEW S, NEW s \in Seq(S), Distinct(s), NEW n \in 0..Len(s)
  PROVE  /\ SubSeq(s, 1, n) \in Seq(S) /\ SubSeq(s, n + 1, Len(s)) \in Seq(S)
         /\ Len(SubSeq(s, 1, n)) = n
         /\ Distinct(SubSeq(s, 1, n)) /\ Distinct(SubSeq(s, n + 1, Len(s)))
         /\ \A x : x \in Elements(SubSeq(s, 1, n)) <=> \E i \in 1..n : x = s[i]
         /\ Elements(SubSeq(s, n + 1, Len(s))) = Elements(s) \ Elements(SubSeq(s, 1, n))
<1> DEFINE m == Len(s)
           front == SubSeq(s, 1, n)
           back == SubSeq(s, n + 1, Len(s))
<1>1. m \in Nat /\ n \in 0..m /\ DOMAIN s = 1..m
  OBVIOUS
<1>2. /\ front \in Seq(S) /\ Len(front) = n /\ DOMAIN front = 1..n
      /\ \A i \in 1..n : front[i] = s[i]
  BY <1>1, SubSeqProperties
<1>3. /\ back \in Seq(S) /\ DOMAIN back = 1..(m - n)
      /\ \A i \in 1..(m - n) : back[i] = s[i + n]
  BY <1>1, SubSeqProperties
<1> HIDE DEF m, front, back
<1>4. \A i, j \in 1..m : s[i] = s[j] => i = j
  BY <1>1 DEF Distinct
<1>5. /\ \A i \in 1..n : i \in 1..m
      /\ \A i \in 1..(m - n) : i + n \in 1..m /\ i + n \notin 1..n
      /\ \A i \in 1..m : i \in 1..n \/ (i - n \in 1..(m - n) /\ (i - n) + n = i)
  BY <1>1
<1>6. Distinct(front)
  BY <1>2, <1>4, <1>5 DEF Distinct
<1>7. Distinct(back)
  <2> SUFFICES ASSUME NEW i \in 1..(m - n), NEW j \in 1..(m - n), back[i] = back[j] PROVE i = j
    BY <1>3 DEF Distinct
  <2>1. i + n = j + n
    BY <1>3, <1>4, <1>5
  <2> QED BY <1>1, <2>1
<1>8. \A x : x \in Elements(front) <=> \E i \in 1..n : x = s[i]
  <2>1. Elements(front) = {front[i] : i \in 1..n}
    BY <1>2, Zenon DEF Elements
  <2> QED BY <1>2, <2>1
<1>9. Elements(back) = Elements(s) \ Elements(front)
  <2>1. ASSUME NEW x \in Elements(back) PROVE x \in Elements(s) \ Elements(front)
    <3>1. PICK i \in 1..(m - n) : x = s[i + n]
      BY <1>3, <2>1 DEF Elements
    <3>2. i + n \in DOMAIN s /\ x \notin Elements(front)
      BY <1>1, <1>4, <1>5, <1>8, <3>1
    <3> QED BY <3>1, <3>2 DEF Elements
  <2>2. ASSUME NEW x \in Elements(s) \ Elements(front) PROVE x \in Elements(back)
    <3>1. PICK i \in 1..m : x = s[i]
      BY <1>1, <2>2 DEF Elements
    <3>2. i \notin 1..n
      BY <1>8, <2>2, <3>1
    <3>3. i - n \in DOMAIN back /\ back[i - n] = x
      BY <1>3, <1>5, <3>1, <3>2
    <3> QED BY <3>3, Zenon DEF Elements
  <2> QED BY <2>1, <2>2
<1> QED BY <1>2, <1>3, <1>6, <1>7, <1>8, <1>9 DEF front, back

\* Eviction keeps order complete and without repetition, and takes only terminal runs.
LEMMA EvictOrder ==
  ASSUME NEW handles \in [Runs -> Handle \cup {None}], order \in Seq(Runs), Distinct(order),
         Evict(handles)
  PROVE  /\ Distinct(order')
         /\ \A q \in Elements(order) : runs'[q] # None \/ ~Evictable(handles, q) => q \in Elements(order')
         /\ \A q \in Elements(order') : q \in Elements(order) /\ runs'[q] = handles[q]
         /\ runs' = [q \in Runs |->
              IF q \in {order[i] : i \in 1..EvictionScan(handles)} /\ Evictable(handles, q)
              THEN None ELSE handles[q]]
<1> DEFINE n == EvictionScan(handles)
           scanned == SubSeq(order, 1, n)
           popped == {scanned[i] : i \in DOMAIN scanned}
           live == {r \in Runs : ~Evictable(handles, r)}
           stay == retain(scanned, live)
           rest == SubSeq(order, n + 1, Len(order))
<1>1. n \in 0..Len(order) /\ Len(order) \in Nat
  BY ScanBounded
<1>2. /\ scanned \in Seq(Runs) /\ rest \in Seq(Runs) /\ Len(scanned) = n
      /\ Distinct(scanned) /\ Distinct(rest)
      /\ popped = Elements(scanned)
      /\ Elements(scanned) = {order[i] : i \in 1..n}
      /\ Elements(rest) = Elements(order) \ Elements(scanned)
  <2>1. popped = Elements(scanned)
    BY DEF Elements
  <2> HIDE DEF n, popped
  <2>2. scanned \in Seq(Runs) /\ rest \in Seq(Runs) /\ Len(scanned) = n
    BY <1>1, CutElements, Zenon
  <2>3. Distinct(scanned) /\ Distinct(rest)
    BY <1>1, CutElements, Zenon
  <2>4. Elements(scanned) = {order[i] : i \in 1..n}
    <3>1. \A x : x \in Elements(scanned) <=> \E i \in 1..n : x = order[i]
      BY <1>1, CutElements, SMT
    <3> HIDE DEF scanned
    <3>2. \A x : x \in Elements(scanned) <=> x \in {order[i] : i \in 1..n}
      BY <3>1, Zenon
    <3> QED BY <3>2, Zenon
  <2>5. Elements(rest) = Elements(order) \ Elements(scanned)
    BY <1>1, CutElements, Zenon
  <2> HIDE DEF scanned, rest
  <2> QED BY <2>1, <2>2, <2>3, <2>4, <2>5, Zenon
<1>3. order' = rest \o stay
      /\ runs' = [r \in Runs |-> IF r \in popped /\ Evictable(handles, r) THEN None ELSE handles[r]]
  BY <1>2 DEF Evict
<1> HIDE DEF rest, popped, scanned, n, live
<1>4. stay \in Seq(Runs) /\ Distinct(stay) /\ Elements(stay) = Elements(scanned) \cap live
  BY <1>2, RetainKeeps
<1> HIDE DEF stay
<1>5. Distinct(order') /\ Elements(order') = Elements(rest) \cup Elements(stay)
  BY <1>2, <1>3, <1>4, ConcatElements
<1>6. \A q \in Elements(order) : q \in Runs
  BY DEF Elements
<1>7. runs' = [q \in Runs |-> IF q \in {order[i] : i \in 1..n} /\ Evictable(handles, q)
                              THEN None ELSE handles[q]]
  BY <1>2, <1>3
<1>8. Elements(scanned) \subseteq Elements(order)
  <2>1. \A i \in 1..n : i \in DOMAIN order
    BY <1>1
  <2> QED BY <1>2, <2>1 DEF Elements
<1>9. ASSUME NEW q \in Elements(order), runs'[q] # None \/ ~Evictable(handles, q)
      PROVE  q \in Elements(order')
  BY <1>2, <1>3, <1>4, <1>5, <1>6, <1>9 DEF live
<1>10. ASSUME NEW q \in Elements(order') PROVE q \in Elements(order) /\ runs'[q] = handles[q]
  BY <1>2, <1>3, <1>4, <1>5, <1>6, <1>8, <1>10 DEF live
<1> QED BY <1>5, <1>7, <1>9, <1>10 DEF n

\* The scan stops when it has counted enough terminal runs, or has seen all of order.
LEMMA ScanReaches ==
  ASSUME NEW handles, order \in Seq(Runs)
  PROVE  \/ EvictionScan(handles) = Len(order)
         \/ Cardinality({i \in 1..EvictionScan(handles) : Evictable(handles, order[i])})
              >= excess(handles)
<1> DEFINE counted(n) == Cardinality({i \in 1..n : Evictable(handles, order[i])})
           enough == {n \in 0..Len(order) : counted(n) >= excess(handles)}
           least == CHOOSE n \in enough : \A m \in enough : n <= m
<1>1. EvictionScan(handles) = IF enough = {} THEN Len(order) ELSE least
  BY DEF EvictionScan
<1>2. enough \subseteq Nat /\ \A n \in enough : counted(n) >= excess(handles)
  OBVIOUS
<1> HIDE DEF enough
<1>3. ASSUME enough # {} PROVE \E n \in enough : \A m \in enough : n <= m
  BY <1>2, <1>3, LeastIndex
<1>4. enough # {} => least \in enough
  BY <1>3, Zenon
<1> HIDE DEF least
<1>5. CASE enough = {}
  BY <1>1, <1>5
<1>6. CASE enough # {}
  BY <1>1, <1>2, <1>4, <1>6
<1> QED BY <1>5, <1>6

\* After an eviction the cap is met, or nothing that could be evicted is left.
LEMMA EvictSuffices ==
  ASSUME NEW handles \in [Runs -> Handle \cup {None}], order \in Seq(Runs), Distinct(order),
         \A q \in Runs : handles[q] # None => q \in Elements(order),
         Evict(handles)
  PROVE  excess(runs') = 0 \/ \A q \in Runs : ~Evictable(runs', q)
<1> DEFINE n == EvictionScan(handles)
           hit == {i \in 1..n : Evictable(handles, order[i])}
           gone == {order[i] : i \in hit}
           before_ == Retained(handles)
           after == Retained(runs')
<1>1. n \in 0..Len(order) /\ Len(order) \in Nat /\ DOMAIN order = 1..Len(order)
  BY ScanBounded
<1>2. runs' = [q \in Runs |->
              IF q \in {order[i] : i \in 1..n} /\ Evictable(handles, q) THEN None ELSE handles[q]]
  BY EvictOrder
<1>3. n = Len(order) \/ Cardinality(hit) >= excess(handles)
  BY ScanReaches
<1> HIDE DEF n
<1>4. \A i \in 1..n : i \in 1..Len(order) /\ order[i] \in Runs
  BY <1>1
<1>5. CASE n = Len(order)
  <2>1. \A q \in Runs : handles[q] # None => q \in {order[i] : i \in 1..n}
    BY <1>1, <1>5 DEF Elements
  <2> QED BY <1>2, <2>1 DEF Evictable
<1>6. CASE Cardinality(hit) >= excess(handles)
  <2>1. /\ IsFiniteSet(hit) /\ IsFiniteSet(gone) /\ Cardinality(gone) = Cardinality(hit)
    <3>1. IsFiniteSet(1..n)
      BY <1>1, FS_Interval
    <3>2. hit \subseteq 1..n
      OBVIOUS
    <3>3. IsFiniteSet(hit)
      BY <3>1, <3>2, FS_Subset
    <3>4. \A i \in hit : i \in DOMAIN order
      BY <1>1, <1>4
    <3> DEFINE f == [i \in hit |-> order[i]]
    <3> HIDE DEF hit
    <3>5. f \in Bijection(hit, gone)
      <4>1. f \in [hit -> gone] /\ \A y \in gone : \E i \in hit : f[i] = y
        OBVIOUS
      <4>2. \A i, j \in hit : f[i] = f[j] => i = j
        BY <3>4 DEF Distinct
      <4> QED BY <4>1, <4>2 DEF Bijection, Injection, Surjection, IsInjective
    <3> HIDE DEF gone, f
    <3>6. ExistsBijection(hit, gone)
      BY <3>5 DEF ExistsBijection
    <3> QED BY <3>3, <3>6, FS_Bijection
  <2>2. gone \subseteq before_
    BY <1>4 DEF Retained, Evictable
  <2>3. after = before_ \ gone
    <3>1. \A q \in Runs : q \in gone <=> q \in {order[i] : i \in 1..n} /\ Evictable(handles, q)
      OBVIOUS
    <3> HIDE DEF gone
    <3> QED BY <1>2, <3>1 DEF Retained
  <2>4. IsFiniteSet(before_) /\ before_ \subseteq Runs
    <3>1. before_ \subseteq Runs
      BY DEF Retained
    <3> QED BY <3>1, FS_Subset
  <2>5. excess(handles) = IF Cardinality(before_) > MaxRetained
                          THEN Cardinality(before_) - MaxRetained ELSE 0
    BY DEF excess
  <2>6. excess(runs') = IF Cardinality(after) > MaxRetained
                        THEN Cardinality(after) - MaxRetained ELSE 0
    BY DEF excess
  <2> HIDE DEF before_, after, gone, hit
  <2>7. Cardinality(after) = Cardinality(before_) - Cardinality(gone)
    <3>1. before_ \cap gone = gone
      BY <2>2
    <3>2. Cardinality(before_ \ gone) = Cardinality(before_) - Cardinality(before_ \cap gone)
      BY <2>4, FS_Difference
    <3> QED BY <2>3, <3>1, <3>2
  <2>8. Cardinality(before_) \in Nat /\ Cardinality(gone) \in Nat
    BY <2>1, <2>4, FS_CardinalityType
  <2> QED BY <1>6, <2>1, <2>5, <2>6, <2>7, <2>8
<1> QED BY <1>3, <1>5, <1>6

\* The steps that touch the restore, and the one that begins it again.
LEMMA RestoreSteps ==
  ASSUME Next
  PROVE  /\ \/ \E r \in Runs : SpawnPromoted(r)
            \/ RestoreInsert \/ RestoreList \/ \E a \in restore.todo : RestoreCheck(a)
            \/ Restart \/ restore' = restore
         /\ Restart \/ restarts' = restarts
<1>1. \A r \in Runs : ScheduleStep(r) \/ EndRun(r) \/ Finish(r) => UNCHANGED <<restore, restarts>>
  BY DEF ScheduleStep, ScheduleInsert, SchedulePersist, ScheduleUndo, ScheduleCheck,
     ScheduleSweep, EndRun, Finish, bounds
<1>2. CancelStep => UNCHANGED <<restore, restarts>>
  BY DEF CancelStep, CancelNext, CancelAnswer, CancelClear, bounds
<1>3. /\ \A r \in Runs : Schedule(r) \/ FlushJournal(r) \/ CancelRun(r) => UNCHANGED <<restore, restarts>>
      /\ \A t \in Threads : CancelThreadRuns(t) => UNCHANGED <<restore, restarts>>
      /\ Drain => UNCHANGED <<restore, restarts>>
  BY DEF Schedule, FlushJournal, CancelRun, CancelThreadRuns, Drain, bounds
<1>4. /\ \A r \in Runs : SpawnPromoted(r) => restarts' = restarts
      /\ RestoreStep => restarts' = restarts
  BY DEF SpawnPromoted, RestoreStep, RestoreList, RestoreCheck, RestoreInsert
<1> QED BY <1>1, <1>2, <1>3, <1>4 DEF Next, ServerStep, RestoreStep

\* How the restore moves: it lists once, a boot begins it, and it forgets what it did.
LEMMA RestoreMoves ==
  ASSUME ManagerInv, ListedOnce, Next
  PROVE  \/ Restart
         \/ /\ ListedOnce'
            /\ restore'.stage = "boot" => restore.stage = "boot"
            /\ restore.stage # "boot" => \A r \in Runs : Listed(r)' => Listed(r)
<1>0. \A a \in restore.todo : a.run \in Runs /\ a.run # None
  BY DEF ManagerInv, RunTypeOK, RestoreState
<1>1. CASE restore' = restore
  BY <1>1 DEF ListedOnce, Listed
<1>2. CASE /\ restore'.todo = restore.todo /\ restore'.stage # "boot"
           /\ restore'.cur = restore.cur \/ restore'.cur = None
  BY <1>0, <1>2 DEF ListedOnce, Listed
<1>3. ASSUME NEW r \in Runs, SpawnPromoted(r), restore' # restore
      PROVE  restore'.todo = restore.todo /\ restore'.stage # "boot" /\ restore'.cur = None
  BY <1>3, DoneTyped DEF SpawnPromoted, ManagerInv, RunTypeOK
<1>4. CASE RestoreInsert
  BY <1>2, <1>4, RestoreInsertMoves
<1>5. CASE RestoreList
  <2>1. \A b \in restore'.todo : b \in {[run |-> r, seq |-> records[r]] : r \in Pending}
    BY <1>5, ListTyped DEF NoneLeft
  <2>2. \A b \in restore'.todo : b.run \in Pending /\ b = [run |-> b.run, seq |-> records[b.run]]
    BY <2>1
  <2>3. \A b \in restore'.todo : b.run \in Runs
    BY <2>2 DEF Pending
  <2>4. ListedOnce'
    BY <1>5, <2>2, <2>3, ListTyped DEF ListedOnce
  <2>5. restore.stage = "boot" /\ restore'.stage = "next"
    BY <1>5, ListTyped DEF RestoreList
  <2> QED BY <2>4, <2>5
<1>6. ASSUME NEW a \in restore.todo, RestoreCheck(a)
      PROVE  /\ ListedOnce'
             /\ restore'.stage # "boot"
             /\ \A r \in Runs : Listed(r)' => Listed(r)
  <2>1. /\ restore'.todo = restore.todo \ {a} /\ restore.cur = None
        /\ restore'.cur \in {None, a.run} /\ restore'.stage # "boot"
    BY <1>6, CheckMoves
  <2> QED BY <1>0, <2>1 DEF ListedOnce, Listed
<1> QED BY <1>1, <1>2, <1>3, <1>4, <1>5, <1>6, RestoreSteps

\* How submissions move: an answer stands, and nobody goes back before the insertion.
LEMMA SubmissionMoves ==
  ASSUME ManagerInv, Next, NEW r \in Runs
  PROVE  \/ Restart
         \/ /\ At(r, "answered") => At(r, "answered")'
            /\ submit'[r].stage \in {"none", "insert"} => submit[r].stage \in {"none", "insert"}
<1>1. CASE submit' = submit
  BY <1>1 DEF At
<1>2. ASSUME NEW q \in Runs, Schedule(q) \/ ScheduleStep(q)
      PROVE  /\ submit[q].stage # "answered"
             /\ submit'[q].stage \in {"none", "insert"} => submit[q].stage \in {"none", "insert"}
             /\ \A p \in Runs : p # q => submit'[p] = submit[p]
  <2>1. submit \in [Runs -> Submission] /\ submit[q] \in Submission
    BY DEF ManagerInv, RunTypeOK
  <2>2. ASSUME NEW s \in {"enqueue", "reject"}, ScheduleInsert(q, s)
        PROVE  /\ submit[q].stage = "insert"
               /\ \A p \in Runs : p # q => submit'[p] = submit[p]
    BY <2>1, <2>2 DEF ScheduleInsert, At, Goto
  <2>3. ASSUME NEW stage \in {"insert", "check", "sweep", "undo", "answered", "queued"}, Goto(q, stage)
        PROVE  submit'[q].stage = stage /\ \A p \in Runs : p # q => submit'[p] = submit[p]
    BY <2>3, GotoTyped DEF ManagerInv
  <2>4. CASE Schedule(q)
    BY <2>3, <2>4 DEF Schedule, At
  <2>5. CASE SchedulePersist(q) \/ ScheduleUndo(q) \/ ScheduleCheck(q) \/ ScheduleSweep(q)
    <3>1. submit[q].stage \in {"persist", "undo", "check", "sweep"}
      BY <2>5 DEF SchedulePersist, ScheduleUndo, ScheduleCheck, ScheduleSweep, At
    <3>2. \E stage \in {"check", "sweep", "undo", "answered", "queued"} : Goto(q, stage)
      BY <2>5 DEF SchedulePersist, ScheduleUndo, ScheduleCheck, ScheduleSweep
    <3> QED BY <2>3, <3>1, <3>2
  <2> QED BY <1>2, <2>2, <2>4, <2>5 DEF ScheduleStep
<1>3. (\E q \in Runs : Schedule(q) \/ ScheduleStep(q)) \/ Restart \/ submit' = submit
  <2>1. \A q \in Runs : SpawnPromoted(q) \/ EndRun(q) \/ Finish(q) => submit' = submit
    BY DEF SpawnPromoted, EndRun, Finish
  <2>2. CancelStep => submit' = submit
    BY DEF CancelStep, CancelNext, CancelAnswer, CancelClear
  <2>3. RestoreStep => submit' = submit
    BY DEF RestoreStep, RestoreList, RestoreCheck, RestoreInsert
  <2>4. /\ \A q \in Runs : FlushJournal(q) \/ CancelRun(q) => submit' = submit
        /\ \A t \in Threads : CancelThreadRuns(t) => submit' = submit
        /\ Drain => submit' = submit
    BY DEF FlushJournal, CancelRun, CancelThreadRuns, Drain
  <2> QED BY <2>1, <2>2, <2>3, <2>4 DEF Next, ServerStep
<1> QED BY <1>1, <1>2, <1>3 DEF At

\* A step that leaves order and the set of retained runs alone.
LEMMA OrderKept ==
  ASSUME ManagerInv, Ordered, Next, ~Restart, order' = order,
         \A q \in Runs : Known(q)' <=> Known(q)
  PROVE  Ordered'
<1>1. \A q \in Elements(order) : q \in Runs
  BY DEF Elements, ManagerInv, RunTypeOK
<1>2. ListedOnce' /\ (restore'.stage = "boot" => restore.stage = "boot")
  BY RestoreMoves DEF Ordered
<1>3. ASSUME NEW q \in Elements(order), Refused(q) PROVE Refused(q)'
  BY <1>1, <1>2, <1>3, RestoreMoves, SubmissionMoves DEF Ordered, Refused
<1> QED BY <1>1, <1>2, <1>3 DEF Ordered

\* insert puts a run at the back that order does not name yet.
LEMMA StampOrders ==
  ASSUME ManagerInv, Ordered, Next, ~Restart, NEW r \in Runs,
         r \notin Elements(order), order' = Append(order, r),
         \A q \in Runs : q # r => (Known(q)' <=> Known(q)),
         Known(r)' \/ Refused(r)'
  PROVE  Ordered'
<1>1. /\ order \in Seq(Runs) /\ \A q \in Elements(order) : q \in Runs
  BY DEF Elements, ManagerInv, RunTypeOK
<1>2. ListedOnce' /\ (restore'.stage = "boot" => restore.stage = "boot")
  BY RestoreMoves DEF Ordered
<1>3. Distinct(order') /\ Elements(order') = Elements(order) \cup {r}
  BY <1>1, AppendElement DEF Ordered
<1>4. ASSUME NEW q \in Elements(order), Refused(q) PROVE Refused(q)'
  BY <1>1, <1>2, <1>4, RestoreMoves, SubmissionMoves DEF Ordered, Refused
<1>5. \A q \in Elements(order) : Known(q) \/ Refused(q)
  BY DEF Ordered
<1>6. \A q \in Runs : Known(q) => q \in Elements(order)
  BY DEF Ordered
<1>7. \A q \in Runs : Known(q)' => q \in Elements(order')
  BY <1>3, <1>6
<1>8. \A q \in Elements(order') : Known(q)' \/ Refused(q)'
  BY <1>1, <1>3, <1>4, <1>5
<1> QED BY <1>2, <1>3, <1>7, <1>8 DEF Ordered

LEMMA ScheduleInsertOrders ==
  ASSUME ManagerInv, Ordered, Next, ~Restart, NEW r \in Runs,
         NEW s \in {"enqueue", "reject"}, ScheduleInsert(r, s)
  PROVE  Ordered'
<1>1. submit[r].stage = "insert" /\ runs[r] = None
  BY DEF ScheduleInsert, At, ManagerInv, Fresh
<1>2. r \notin Elements(order)
  BY <1>1 DEF Ordered, Refused, At, Known
<1>3. PICK cap \in Nat : cap = QueueCap
  OBVIOUS
<1>4. \/ InsertStarted(r) \/ InsertQueued(r, cap)
      \/ InsertRefused(r, s, cap) /\ Goto(r, "answered")
  BY <1>3 DEF ScheduleInsert
<1>5. order' = Append(order, r)
  BY <1>4 DEF InsertStarted, InsertQueued, InsertRefused, Stamp
<1>6. \A q \in Runs : q # r => (Known(q)' <=> Known(q))
  BY <1>1, <1>4, InsertedAs DEF Known
<1>7. Known(r)' \/ Refused(r)'
  <2>1. Goto(r, "answered") => submit'[r].stage = "answered"
    BY GotoTyped DEF ManagerInv
  <2> QED BY <1>1, <1>4, <2>1, InsertedAs DEF Refused, At
<1> QED BY <1>2, <1>5, <1>6, <1>7, StampOrders

\* A run the restore takes up is in order only if this process knows it.
LEMMA RestoreInsertOrders ==
  ASSUME ManagerInv, Ordered, Next, ~Restart, RestoreInsert
  PROVE  Ordered'
<1>1. CASE UNCHANGED memory
  BY <1>1, OrderKept DEF memory, Known
<1>2. CASE ~UNCHANGED memory
  <2>1. PICK r \in Runs : r = restore.cur
    BY RestoreInsertMoves
  <2>2. /\ runs[r] = None
        /\ \E cap \in Nat :
             InsertStarted(r) \/ InsertQueued(r, cap) \/ InsertRefused(r, "enqueue", cap)
    BY <1>2, <2>1, RestoreInsertMoves
  <2>3. PICK cap \in Nat :
          InsertStarted(r) \/ InsertQueued(r, cap) \/ InsertRefused(r, "enqueue", cap)
    BY <2>2
  <2>4. Listed(r) /\ submit[r].stage \notin {"none", "insert", "answered"}
    BY <2>1 DEF Listed, ManagerInv, Fresh
  <2>5. r \notin Elements(order)
    BY <2>2, <2>4 DEF Ordered, Refused, Known, At
  <2>6. order' = Append(order, r)
    BY <2>3 DEF InsertStarted, InsertQueued, InsertRefused, Stamp
  <2>7. \A q \in Runs : q # r => (Known(q)' <=> Known(q))
    BY <2>2, <2>3, InsertedAs DEF Known
  <2>8. Known(r)' \/ Refused(r)'
    <3>1. CASE InsertStarted(r) \/ InsertQueued(r, cap)
      BY <2>2, <3>1, InsertedAs
    <3>2. CASE InsertRefused(r, "enqueue", cap)
      <4>1. ~InsertStarted(r)
        BY <3>2 DEF InsertStarted, InsertRefused, busy
      <4>2. restore' = Done(restore) /\ submit' = submit
        BY <1>2, <2>1, <4>1 DEF RestoreInsert, memory
      <4>3. /\ restore'.cur = None /\ restore'.stage = "next" /\ restore'.todo = restore.todo
        BY <4>2, DoneTyped DEF ManagerInv, RunTypeOK
      <4>4. ~Listed(r)'
        BY <2>1, <4>3 DEF Listed, Ordered, ListedOnce
      <4> QED BY <2>4, <4>2, <4>3, <4>4 DEF Refused
    <3> QED BY <2>3, <3>1, <3>2
  <2> QED BY <2>5, <2>6, <2>7, <2>8, StampOrders
<1> QED BY <1>1, <1>2

\* remove_queued takes the run out of both.
LEMMA UndoOrders ==
  ASSUME ManagerInv, Ordered, Next, ~Restart, NEW r \in Runs, ScheduleUndo(r)
  PROVE  Ordered'
<1>1. CASE ~HasStatus(r, "pending")
  BY <1>1, OrderKept DEF ScheduleUndo, Known
<1>2. CASE HasStatus(r, "pending")
  <2>1. /\ order \in Seq(Runs) /\ \A q \in Elements(order) : q \in Runs
    BY DEF Elements, ManagerInv, RunTypeOK
  <2>2. /\ order' = retain(order, Runs \ {r})
        /\ \A q \in Runs : runs'[q] = IF q = r THEN None ELSE runs[q]
    BY <1>2 DEF ScheduleUndo, ManagerInv, RunTypeOK
  <2>3. Distinct(order') /\ Elements(order') = Elements(order) \cap (Runs \ {r})
    BY <2>1, <2>2, RetainKeeps DEF Ordered
  <2>4. ListedOnce' /\ (restore'.stage = "boot" => restore.stage = "boot")
    BY RestoreMoves DEF Ordered
  <2>5. ASSUME NEW q \in Elements(order), Refused(q) PROVE Refused(q)'
    BY <2>1, <2>4, <2>5, RestoreMoves, SubmissionMoves DEF Ordered, Refused
  <2>6. \A q \in Runs : Known(q)' => q \in Elements(order')
    BY <2>2, <2>3 DEF Ordered, Known
  <2>7. \A q \in Elements(order') : Known(q)' \/ Refused(q)'
    BY <2>2, <2>3, <2>5 DEF Ordered, Known
  <2> QED BY <2>3, <2>4, <2>6, <2>7 DEF Ordered
<1> QED BY <1>1, <1>2

LEMMA FinishOrders ==
  ASSUME ManagerInv, Ordered, Next, ~Restart, NEW r \in Runs, Finish(r)
  PROVE  /\ Ordered'
         /\ excess(runs') = 0 \/ \A q \in Runs : ~Evictable(runs', q)
<1>1. /\ order \in Seq(Runs) /\ \A q \in Elements(order) : q \in Runs
  BY DEF Elements, ManagerInv, RunTypeOK
<1>2. PICK handles \in [Runs -> Handle \cup {None}] :
        /\ Evict(handles)
        /\ \A q \in Runs : handles[q] = None <=> runs[q] = None
  BY FinishKeeps
<1>3. Distinct(order) /\ \A q \in Runs : handles[q] # None => q \in Elements(order)
  BY <1>2 DEF Ordered, Known
<1>4. excess(runs') = 0 \/ \A q \in Runs : ~Evictable(runs', q)
  BY <1>1, <1>2, <1>3, EvictSuffices
<1>5. /\ Distinct(order')
      /\ \A q \in Elements(order) : runs'[q] # None => q \in Elements(order')
      /\ \A q \in Elements(order') : q \in Elements(order) /\ runs'[q] = handles[q]
  BY <1>1, <1>2, <1>3, EvictOrder
<1>6. \A q \in Runs : runs'[q] # None => handles[q] # None
  BY <1>1, <1>2, EvictKeeps
<1>7. ListedOnce' /\ (restore'.stage = "boot" => restore.stage = "boot")
  BY RestoreMoves DEF Ordered
<1>8. ASSUME NEW q \in Elements(order), Refused(q) PROVE Refused(q)'
  BY <1>1, <1>7, <1>8, RestoreMoves, SubmissionMoves DEF Ordered, Refused
<1>9. \A q \in Runs : Known(q)' => q \in Elements(order')
  BY <1>3, <1>5, <1>6 DEF Known
<1>10. \A q \in Elements(order') : Known(q)' \/ Refused(q)'
  BY <1>1, <1>2, <1>5, <1>8 DEF Ordered, Known
<1>11. Ordered'
  BY <1>5, <1>7, <1>9, <1>10 DEF Ordered
<1> QED BY <1>4, <1>11

\* The steps that touch the handles.
LEMMA HandleSteps ==
  ASSUME ManagerInv, Next
  PROVE  \/ \E r \in Runs, s \in {"enqueue", "reject"} : ScheduleInsert(r, s)
         \/ \E r \in Runs : ScheduleUndo(r) \/ Finish(r)
         \/ RestoreInsert \/ Restart
         \/ order' = order /\ \A q \in Runs : Known(q)' <=> Known(q)
<1>1. \A r \in Runs : ScheduleStep(r) =>
        \/ \E s \in {"enqueue", "reject"} : ScheduleInsert(r, s)
        \/ ScheduleUndo(r)
        \/ UNCHANGED <<runs, order>>
  BY DEF ScheduleStep, SchedulePersist, ScheduleCheck, ScheduleSweep, memory
<1>2. CancelStep => order' = order /\ \A q \in Runs : Known(q)' <=> Known(q)
  <2>1. CancelNext => order' = order /\ \A q \in Runs : Known(q)' <=> Known(q)
    BY CancelNextKeeps DEF CancelNext
  <2> QED BY <2>1 DEF CancelStep, CancelAnswer, CancelClear, memory, Known
<1>3. RestoreStep => RestoreInsert \/ UNCHANGED <<runs, order>>
  BY DEF RestoreStep, RestoreList, RestoreCheck, memory
<1>4. /\ \A r \in Runs : Schedule(r) \/ FlushJournal(r) \/ CancelRun(r) \/ SpawnPromoted(r)
                           \/ EndRun(r) => UNCHANGED <<runs, order>>
      /\ \A t \in Threads : CancelThreadRuns(t) => UNCHANGED <<runs, order>>
      /\ Drain => UNCHANGED <<runs, order>>
  BY DEF Schedule, FlushJournal, CancelRun, SpawnPromoted, EndRun, CancelThreadRuns, Drain, memory
<1>5. UNCHANGED <<runs, order>> => order' = order /\ \A q \in Runs : Known(q)' <=> Known(q)
  BY DEF Known
<1> QED BY <1>1, <1>2, <1>3, <1>4, <1>5 DEF Next, ServerStep

LEMMA OrderedStep ==
  ASSUME ManagerInv, Ordered, [Next]_vars
  PROVE  Ordered'
<1>1. CASE UNCHANGED vars
  BY <1>1 DEF vars, memory, Ordered, ListedOnce, Refused, Listed, Known, At
<1>2. CASE Restart
  BY <1>2 DEF Restart, Ordered, ListedOnce, Booting, NoneLeft, Distinct, Elements, Known
<1>3. CASE Next /\ ~Restart
  BY <1>3, HandleSteps, ScheduleInsertOrders, UndoOrders, FinishOrders, RestoreInsertOrders,
     OrderKept
<1> QED BY <1>1, <1>2, <1>3

LEMMA OrderedAlways == Spec => [](ManagerInv /\ Ordered)
<1> QED BY InitManager, InitOrdered, ManagerStep, OrderedStep, PTL DEF Spec

\* What one step takes from the manager.
Sound ==
  \A r \in Runs :
    /\ Leaves(r) =>
         \/ At(r, "undo")
         \/ HasStatus(r, "terminal")
         \/ task[r] # "none" /\ task'[r] = "none"
    /\ task[r] \in {"promote", "release"} /\ task'[r] = "none" /\ restarts' = restarts =>
         excess(runs') = 0 \/ \A q \in Runs : ~Evictable(runs', q)

LEMMA StepRetains ==
  ASSUME ManagerInv, Ordered, Next
  PROVE  Sound
<1>1. CASE Restart
  <2>1. restarts' # restarts
    BY <1>1 DEF Restart, ManagerInv, RunTypeOK
  <2> QED BY <2>1 DEF Sound, Leaves
<1>2. ASSUME ~Restart, NEW r \in Runs, Finish(r) PROVE Sound
  <2>1. excess(runs') = 0 \/ \A q \in Runs : ~Evictable(runs', q)
    BY <1>2, FinishOrders
  <2>2. PICK handles \in [Runs -> Handle \cup {None}] :
          /\ Evict(handles)
          /\ \A q \in Runs : /\ handles[q] = None <=> runs[q] = None
                             /\ Evictable(handles, q) => q = r \/ HasStatus(q, "terminal")
    BY <1>2, FinishKeeps
  <2>3. \A q \in Runs : Leaves(q) => Evictable(handles, q)
    <3>1. \A q \in Runs : runs'[q] = handles[q] \/ (runs'[q] = None /\ handles[q].status = "terminal")
      BY <2>2, EvictKeeps DEF ManagerInv, RunTypeOK
    <3> QED BY <2>2, <3>1 DEF Leaves, Known, Evictable
  <2>4. task[r] # "none" /\ task'[r] = "none"
    BY <1>2, FinishKeeps DEF Finish
  <2> QED BY <2>1, <2>2, <2>3, <2>4 DEF Sound
<1>3. ASSUME ~Restart, ~(\E r \in Runs : Finish(r)) PROVE Sound
  <2>1. ASSUME NEW q \in Runs, Leaves(q) PROVE At(q, "undo")
    <3>1. CASE \E r \in Runs, s \in {"enqueue", "reject"} : ScheduleInsert(r, s)
      <4>1. PICK r \in Runs, s \in {"enqueue", "reject"} : ScheduleInsert(r, s)
        BY <3>1
      <4>2. runs[r] = None
        BY <4>1 DEF ScheduleInsert, At, ManagerInv, Fresh
      <4>3. \A p \in Runs : p # r => runs'[p] = runs[p]
        BY <4>1, <4>2, InsertedAs DEF ScheduleInsert
      <4> QED BY <2>1, <4>2, <4>3 DEF Leaves, Known
    <3>2. ASSUME NEW r \in Runs, ScheduleUndo(r) PROVE At(q, "undo")
      <4>1. At(r, "undo") /\ (q # r => runs'[q] = runs[q])
        BY <3>2 DEF ScheduleUndo, ManagerInv, RunTypeOK
      <4> QED BY <2>1, <4>1 DEF Leaves, Known
    <3>3. CASE RestoreInsert
      <4>1. \A p \in Runs : p # restore.cur => runs'[p] = runs[p]
        BY <3>3, RestoreInsertKeeps
      <4>2. runs[restore.cur] = None \/ runs' = runs
        BY <3>3, RestoreInsertMoves DEF memory
      <4> QED BY <2>1, <4>1, <4>2 DEF Leaves, Known
    <3>4. CASE \A p \in Runs : Known(p)' <=> Known(p)
      BY <2>1, <3>4 DEF Leaves, Known
    <3> QED BY <1>3, <3>1, <3>2, <3>3, <3>4, HandleSteps
  <2>2. ASSUME NEW q \in Runs, task[q] \in {"promote", "release"} PROVE task'[q] # "none"
    <3>1. ASSUME NEW r \in Runs, NEW s \in {"enqueue", "reject"}, ScheduleInsert(r, s)
          PROVE  task'[q] # "none"
      BY <2>2, <3>1 DEF ScheduleInsert, ManagerInv, RunTypeOK
    <3>2. ASSUME NEW r \in Runs, SpawnPromoted(r) \/ EndRun(r) PROVE task'[q] # "none"
      BY <2>2, <3>2 DEF SpawnPromoted, EndRun, ManagerInv, RunTypeOK
    <3>3. CASE RestoreInsert
      BY <2>2, <3>3, RestoreInsertMoves DEF memory, ManagerInv, RunTypeOK
    <3>4. CASE task' = task
      BY <2>2, <3>4
    <3> QED BY <1>3, <3>1, <3>2, <3>3, <3>4, TaskSteps
  <2> QED BY <2>1, <2>2 DEF Sound
<1> QED BY <1>1, <1>2, <1>3

\* Eviction never takes a live run, and leaves no more runs than the cap unless all of
\* them are live, whatever order has collected through refusals, restores and earlier
\* scans (insert, the eviction loop of finish, remove_queued, restore_one).
THEOREM RetentionKept == Spec => RetentionSound
<1>1. ManagerInv /\ Ordered /\ [Next]_vars => [Sound]_vars
  BY StepRetains
<1>2. Spec => [][Next]_vars
  BY PTL DEF Spec
<1>3. RetentionSound <=> [][Sound]_vars
  BY DEF RetentionSound, Sound
<1> QED BY <1>1, <1>2, <1>3, OrderedAlways, PTL

-----------------------------------------------------------------------------
(***************************************************************************)
(* The order of the restore                                                *)
(***************************************************************************)

\* In the first process a record carries the stamp its run got from insert, and the stamps
\* grow with the order in which insert served the runs.
Stamped ==
  restarts = 0 =>
    /\ restore = NoneLeft
    /\ \A r \in Runs :
         /\ records[r] # None => records[r] = submit[r].seq /\ submit[r].seq > 0
         /\ submit[r].seq <= queue_seq
         /\ submit[r].stage = "persist" => submit[r].seq > 0
         /\ submit[r].stage \in {"none", "insert"} => submit[r].seq = 0
    /\ \A r, q \in Runs : r < q =>
         /\ submit[r].seq > 0 /\ submit[q].seq > 0 => submit[r].seq < submit[q].seq
         /\ submit[r].stage \in {"none", "insert"} => submit[q].stage \in {"none", "insert"}

\* A record of a run that this process did not take in.
Survives(r) == ~Known(r) /\ records[r] # None

\* After one restart, the records the boot will find, those it has listed, and the one it
\* works on are in that order too, as far as this process does not know their runs.
InSequence ==
  restarts <= 1 =>
    /\ restore.stage = "boot" =>
         \A r, q \in Runs : Survives(r) /\ Survives(q) /\ r < q => records[r] < records[q]
    /\ \A a, b \in restore.todo :
         ~Known(a.run) /\ ~Known(b.run) /\ a.run < b.run => a.seq < b.seq
    /\ \A r \in Runs : restore.cur = r /\ ~Known(r) =>
         \A a \in restore.todo : thread_id[a.run] = thread_id[r] /\ ~Known(a.run) => r < a.run

LEMMA InitSequence == Init => Stamped /\ InSequence
<1> SUFFICES ASSUME Init PROVE Stamped /\ InSequence
  OBVIOUS
<1>1. \A r \in Runs : submit[r].stage = "none" /\ submit[r].seq = 0
  BY DEF Init
<1>2. restore = NoneLeft /\ restore.todo = {} /\ restore.cur = None /\ restore.stage = "next"
  BY DEF Init, NoneLeft
<1>3. Stamped
  BY <1>1, <1>2 DEF Init, Stamped
<1>4. InSequence
  BY <1>2 DEF InSequence
<1> QED BY <1>3, <1>4

\* What the stamps are about, when nothing is inserted.
LEMMA StampsKept ==
  ASSUME ManagerInv, Stamped, restarts' = restarts, queue_seq' = queue_seq, restore' = restore,
         \A r \in Runs : submit'[r].seq = submit[r].seq,
         \A r \in Runs : submit'[r].stage \in {"none", "insert"} <=> submit[r].stage \in {"none", "insert"},
         \A r \in Runs : submit'[r].stage = "persist" => submit[r].stage = "persist",
         \A r \in Runs : \/ records'[r] = records[r] \/ records'[r] = None
                         \/ submit[r].stage = "persist" /\ records'[r] = submit[r].seq
  PROVE  Stamped'
<1> SUFFICES ASSUME restarts = 0
             PROVE  /\ restore' = NoneLeft
                    /\ \A r \in Runs :
                         /\ records'[r] # None => records'[r] = submit'[r].seq /\ submit'[r].seq > 0
                         /\ submit'[r].seq <= queue_seq'
                         /\ submit'[r].stage = "persist" => submit'[r].seq > 0
                         /\ submit'[r].stage \in {"none", "insert"} => submit'[r].seq = 0
                    /\ \A r, q \in Runs : r < q =>
                         /\ submit'[r].seq > 0 /\ submit'[q].seq > 0 => submit'[r].seq < submit'[q].seq
                         /\ submit'[r].stage \in {"none", "insert"} => submit'[q].stage \in {"none", "insert"}
  BY DEF Stamped
<1>1. /\ restore = NoneLeft
      /\ \A r \in Runs :
           /\ records[r] # None => records[r] = submit[r].seq /\ submit[r].seq > 0
           /\ submit[r].seq <= queue_seq
           /\ submit[r].stage = "persist" => submit[r].seq > 0
           /\ submit[r].stage \in {"none", "insert"} => submit[r].seq = 0
      /\ \A r, q \in Runs : r < q =>
           /\ submit[r].seq > 0 /\ submit[q].seq > 0 => submit[r].seq < submit[q].seq
           /\ submit[r].stage \in {"none", "insert"} => submit[q].stage \in {"none", "insert"}
  BY DEF Stamped
<1> QED BY <1>1

\* insert stamps a run above all those it served before.
LEMMA InsertStamps ==
  ASSUME ManagerInv, Stamped, NEW r \in Runs, NEW s \in {"enqueue", "reject"}, ScheduleInsert(r, s)
  PROVE  Stamped'
<1>1. /\ submit[r].stage = "insert" /\ UNCHANGED <<records, restore, restarts>>
      /\ \A q \in Runs : q < r => submit[q].stage \notin {"none", "insert"}
      /\ queue_seq' = queue_seq + 1
  BY DEF ScheduleInsert, At, Earlier, InsertStarted, InsertQueued, InsertRefused, Stamp, durable, bounds
<1>2. /\ queue_seq \in Nat /\ submit \in [Runs -> Submission]
      /\ \A q \in Runs : submit[q].seq \in Nat
  BY DEF ManagerInv, RunTypeOK, Submission
<1>3. /\ \A q \in Runs : q # r => submit'[q] = submit[q]
      /\ submit'[r].stage \in {"answered", "persist"}
      /\ \/ submit'[r].seq = submit[r].seq /\ submit'[r].stage = "answered"
         \/ submit'[r].seq = queue_seq + 1
  <2>1. CASE Goto(r, "answered")
    <3>1. submit' = [submit EXCEPT ![r] = [submit[r] EXCEPT !.stage = "answered"]]
      BY <2>1 DEF Goto
    <3>2. submit[r] \in Submission
      BY <1>2
    <3>3. LET u == [submit[r] EXCEPT !.stage = "answered"] IN u.stage = "answered" /\ u.seq = submit[r].seq
      BY <3>2 DEF Submission
    <3> QED BY <1>2, <3>1, <3>3
  <2>2. CASE submit' = [submit EXCEPT ![r] = [stage |-> "persist", seq |-> queue_seq']]
    BY <1>1, <1>2, <2>2
  <2> QED BY <2>1, <2>2 DEF ScheduleInsert
<1> SUFFICES ASSUME restarts = 0 PROVE Stamped'
  BY <1>1 DEF Stamped
<1>4. /\ restore = NoneLeft
      /\ \A q \in Runs :
           /\ records[q] # None => records[q] = submit[q].seq /\ submit[q].seq > 0
           /\ submit[q].seq <= queue_seq
           /\ submit[q].stage = "persist" => submit[q].seq > 0
           /\ submit[q].stage \in {"none", "insert"} => submit[q].seq = 0
      /\ \A p, q \in Runs : p < q =>
           /\ submit[p].seq > 0 /\ submit[q].seq > 0 => submit[p].seq < submit[q].seq
           /\ submit[p].stage \in {"none", "insert"} => submit[q].stage \in {"none", "insert"}
  BY DEF Stamped
<1>5. records[r] = None /\ submit[r].seq = 0 /\ \A q \in Runs : r < q => submit[q].seq = 0
  <2>1. submit[r].seq = 0 /\ records[r] = None
    BY <1>1, <1>4
  <2>2. ASSUME NEW q \in Runs, r < q PROVE submit[q].seq = 0
    <3>1. submit[q].stage \in {"none", "insert"}
      BY <1>1, <1>4, <2>2
    <3> QED BY <1>4, <3>1
  <2> QED BY <2>1, <2>2
<1>6. ASSUME NEW q \in Runs
      PROVE  /\ records'[q] # None => records'[q] = submit'[q].seq /\ submit'[q].seq > 0
             /\ submit'[q].seq <= queue_seq'
             /\ submit'[q].stage = "persist" => submit'[q].seq > 0
             /\ submit'[q].stage \in {"none", "insert"} => submit'[q].seq = 0
  <2>1. CASE q = r
    BY <1>1, <1>2, <1>3, <1>5, <2>1
  <2>2. CASE q # r
    BY <1>1, <1>2, <1>3, <1>4, <2>2
  <2> QED BY <2>1, <2>2
<1>7. ASSUME NEW p \in Runs, NEW q \in Runs, p < q
      PROVE  /\ submit'[p].seq > 0 /\ submit'[q].seq > 0 => submit'[p].seq < submit'[q].seq
             /\ submit'[p].stage \in {"none", "insert"} => submit'[q].stage \in {"none", "insert"}
  <2>1. CASE p = r
    <3>1. q # r
      <4>1. p \in Nat /\ q \in Nat
        OBVIOUS
      <4> QED BY <1>7, <2>1, <4>1
    <3>2. submit'[q].seq = 0
      <4>1. submit[q].seq = 0
        BY <1>5, <1>7, <2>1
      <4> QED BY <1>3, <3>1, <4>1
    <3>3. ~(submit'[q].seq > 0)
      BY <3>2
    <3>4. submit'[p].stage \notin {"none", "insert"}
      BY <1>3, <2>1
    <3> QED BY <3>3, <3>4
  <2>2. CASE q = r
    <3>1. p # r /\ submit'[p] = submit[p] /\ submit[p].seq <= queue_seq
          /\ submit[p].stage \notin {"none", "insert"}
      BY <1>1, <1>3, <1>4, <1>7, <2>2
    <3>2. submit'[r].seq > 0 => submit'[r].seq = queue_seq + 1
      BY <1>3, <1>5
    <3> QED BY <1>2, <2>2, <3>1, <3>2
  <2>3. CASE p # r /\ q # r
    BY <1>3, <1>4, <1>7, <2>3
  <2> QED BY <2>1, <2>2, <2>3
<1> QED BY <1>1, <1>4, <1>6, <1>7 DEF Stamped

\* A record comes from a submission that has just been stamped, and a stage moves on.
LEMMA RecordMoves ==
  ASSUME ManagerInv, Next, ~Restart, NEW r \in Runs
  PROVE  /\ restarts' = restarts
         /\ \/ records'[r] = records[r] \/ records'[r] = None
            \/ /\ submit[r].stage = "persist" /\ records'[r] = submit[r].seq
               /\ UNCHANGED memory
<1>1. records \in [Runs -> Nat \cup {None}]
  BY DEF ManagerInv, RunTypeOK
<1>2. ASSUME NEW q \in Runs, clear_pending_record(q) PROVE records'[r] = records[r] \/ records'[r] = None
  BY <1>2, ClearTyped DEF ManagerInv
<1>3. ASSUME NEW q \in Runs, SchedulePersist(q)
      PROVE  \/ records'[r] = records[r]
             \/ submit[r].stage = "persist" /\ records'[r] = submit[r].seq /\ UNCHANGED memory
  BY <1>1, <1>3 DEF SchedulePersist, At
<1>4. ASSUME NEW q \in Runs, ScheduleStep(q)
      PROVE  /\ restarts' = restarts
             /\ records' = records \/ clear_pending_record(q) \/ SchedulePersist(q)
  BY <1>4 DEF ScheduleStep, ScheduleInsert, ScheduleUndo, ScheduleCheck, ScheduleSweep,
     SchedulePersist, durable, bounds
<1>5. ASSUME NEW q \in Runs, SpawnPromoted(q) \/ EndRun(q) \/ Finish(q) \/ Schedule(q)
                              \/ FlushJournal(q) \/ CancelRun(q) \/ CancelClear(q)
      PROVE  restarts' = restarts /\ (records' = records \/ clear_pending_record(q))
  BY <1>5 DEF SpawnPromoted, EndRun, Finish, Schedule, FlushJournal, CancelRun, CancelClear,
     durable, bounds
<1>6. CASE CancelNext \/ CancelAnswer \/ RestoreList \/ RestoreInsert \/ Drain
           \/ \E t \in Threads : CancelThreadRuns(t)
  BY <1>6 DEF CancelNext, CancelAnswer, RestoreList, RestoreInsert, Drain, CancelThreadRuns,
     durable, bounds
<1>7. ASSUME NEW a \in restore.todo, RestoreCheck(a)
      PROVE  restarts' = restarts /\ (records'[r] = records[r] \/ records'[r] = None)
  <2>1. restarts' = restarts
    BY <1>7 DEF RestoreCheck
  <2> QED BY <1>7, <2>1, CheckMoves
<1>8. \/ \E q \in Runs : ScheduleStep(q) \/ SpawnPromoted(q) \/ EndRun(q) \/ Finish(q) \/ Schedule(q)
                         \/ FlushJournal(q) \/ CancelRun(q) \/ CancelClear(q)
      \/ CancelNext \/ CancelAnswer \/ RestoreList \/ RestoreInsert \/ Drain
      \/ \E t \in Threads : CancelThreadRuns(t)
      \/ \E a \in restore.todo : RestoreCheck(a)
  BY DEF Next, ServerStep, CancelStep, RestoreStep
<1> QED BY <1>2, <1>3, <1>4, <1>5, <1>6, <1>7, <1>8

LEMMA StampedStep ==
  ASSUME ManagerInv, Stamped, [Next]_vars
  PROVE  Stamped'
<1>1. CASE UNCHANGED vars
  BY <1>1 DEF vars, memory, durable, bounds, Stamped
<1>2. CASE Restart
  BY <1>2 DEF Restart, Stamped, ManagerInv, RunTypeOK
<1>3. ASSUME NEW r \in Runs, NEW s \in {"enqueue", "reject"}, ScheduleInsert(r, s) PROVE Stamped'
  BY <1>3, InsertStamps
<1>4. CASE restarts # 0 /\ Next /\ ~Restart
  <2>1. restarts' = restarts
    BY <1>4, RestoreSteps
  <2> QED BY <1>4, <2>1 DEF Stamped
<1>5. ASSUME restarts = 0, Next, ~Restart,
             ~(\E r \in Runs : \E s \in {"enqueue", "reject"} : ScheduleInsert(r, s))
      PROVE  Stamped'
  <2>1. restore = NoneLeft /\ restore.stage = "next" /\ restore.todo = {} /\ restore.cur = None
    BY <1>5 DEF Stamped, NoneLeft
  <2>2. ~RestoreStep
    BY <2>1 DEF RestoreStep, RestoreList, RestoreInsert
  <2>3. submit \in [Runs -> Submission]
    BY DEF ManagerInv, RunTypeOK
  <2>4. ASSUME NEW q \in Runs, SchedulePersist(q) \/ ScheduleUndo(q) \/ ScheduleCheck(q) \/ ScheduleSweep(q)
               \/ Schedule(q)
        PROVE  /\ UNCHANGED <<restarts, queue_seq, restore>>
               /\ \A r \in Runs : submit'[r].seq = submit[r].seq
               /\ \A r \in Runs : submit'[r].stage \in {"none", "insert"} <=> submit[r].stage \in {"none", "insert"}
               /\ \A r \in Runs : submit'[r].stage = "persist" => submit[r].stage = "persist"
    <3>1. UNCHANGED <<restarts, queue_seq, restore>>
      BY <2>4 DEF SchedulePersist, ScheduleUndo, ScheduleCheck, ScheduleSweep, Schedule, memory, bounds
    <3>2. \/ submit[q].stage \in {"persist", "undo", "check", "sweep"}
             /\ \E g \in {"check", "sweep", "undo", "answered", "queued"} : Goto(q, g)
          \/ submit[q].stage = "none" /\ Goto(q, "insert")
      BY <2>4 DEF SchedulePersist, ScheduleUndo, ScheduleCheck, ScheduleSweep, Schedule, At
    <3>3. PICK g \in {"check", "sweep", "undo", "answered", "queued", "insert"} :
            /\ Goto(q, g)
            /\ g = "insert" <=> submit[q].stage \in {"none", "insert"}
            /\ g # "insert" <=> submit[q].stage \in {"persist", "undo", "check", "sweep"}
      BY <3>2
    <3>4. submit' = [submit EXCEPT ![q] = [submit[q] EXCEPT !.stage = g]] /\ submit[q] \in Submission
      BY <2>3, <3>3 DEF Goto
    <3>5. LET u == [submit[q] EXCEPT !.stage = g] IN u.stage = g /\ u.seq = submit[q].seq
      BY <3>4 DEF Submission
    <3> QED BY <2>3, <3>1, <3>3, <3>4, <3>5
  <2>5. \/ \E q \in Runs : SchedulePersist(q) \/ ScheduleUndo(q) \/ ScheduleCheck(q) \/ ScheduleSweep(q)
               \/ Schedule(q)
        \/ UNCHANGED <<restarts, queue_seq, restore, submit>>
    <3>1. \A q \in Runs : SpawnPromoted(q) \/ EndRun(q) \/ Finish(q) \/ FlushJournal(q) \/ CancelRun(q) =>
            UNCHANGED <<restarts, queue_seq, restore, submit>>
      BY <2>1 DEF SpawnPromoted, EndRun, Finish, FlushJournal, CancelRun, memory, bounds
    <3>2. CancelStep => UNCHANGED <<restarts, queue_seq, restore, submit>>
      BY DEF CancelStep, CancelNext, CancelAnswer, CancelClear, memory, bounds
    <3>3. /\ \A t \in Threads : CancelThreadRuns(t) => UNCHANGED <<restarts, queue_seq, restore, submit>>
          /\ Drain => UNCHANGED <<restarts, queue_seq, restore, submit>>
      BY DEF CancelThreadRuns, Drain, memory, bounds
    <3> QED BY <1>5, <2>2, <3>1, <3>2, <3>3 DEF Next, ServerStep, ScheduleStep
  <2>6. /\ UNCHANGED <<restarts, queue_seq, restore>>
        /\ \A r \in Runs : submit'[r].seq = submit[r].seq
        /\ \A r \in Runs : submit'[r].stage \in {"none", "insert"} <=> submit[r].stage \in {"none", "insert"}
        /\ \A r \in Runs : submit'[r].stage = "persist" => submit[r].stage = "persist"
    BY <2>4, <2>5
  <2>7. \A r \in Runs : \/ records'[r] = records[r] \/ records'[r] = None
                        \/ submit[r].stage = "persist" /\ records'[r] = submit[r].seq
    BY <1>5, RecordMoves
  <2> QED BY <2>6, <2>7, StampsKept
<1> QED BY <1>1, <1>2, <1>3, <1>4, <1>5

\* A run that this process gives up, or never had, does not come back with a record while
\* the restore goes on.
LEMMA SurvivorsShrink ==
  ASSUME ManagerInv, BootInv, Next, ~Restart, Retains, Restoring, NEW r \in Runs, ~Known(r)'
  PROVE  /\ ~Known(r) \/ (records'[r] = None /\ ~Listed(r))
         /\ records'[r] = records[r] \/ records'[r] = None
<1>1. restarts' = restarts
  BY RecordMoves
<1>2. CASE Known(r)
  <2>1. Leaves(r)
    BY <1>1, <1>2 DEF Leaves, Known
  <2>2. submit[r].stage = "undo"
    BY <2>1 DEF Retains, At
  <2>3. records[r] = None /\ ~Listed(r)
    BY <2>2 DEF ManagerInv, Fresh
  <2>4. records'[r] = None
    BY <2>2, <2>3, RecordMoves
  <2> QED BY <2>3, <2>4
<1>3. CASE ~Known(r)
  <2>1. submit[r].stage # "persist"
    BY <1>3 DEF BootInv, InHand
  <2> QED BY <1>3, <2>1, RecordMoves
<1> QED BY <1>2, <1>3

\* The order of what the restore has still to do, when it stays where it is.
LEMMA SequenceKept ==
  ASSUME ManagerInv, BootInv, InSequence, Next, ~Restart, Retains, restarts <= 1,
         restore'.stage = "boot" => restore.stage = "boot",
         restore'.todo \subseteq restore.todo,
         restore'.cur \in {restore.cur, None}
  PROVE  InSequence'
<1>0. \A a \in restore.todo : a.run \in Runs
  BY DEF ManagerInv, RunTypeOK, RestoreState
<1>1. CASE ~Restoring
  <2>1. restore.todo = {} /\ restore.cur = None /\ restore.stage # "boot"
    BY <1>1 DEF Restoring, NoneLeft
  <2> QED BY <2>1 DEF InSequence
<1>2. CASE Restoring
  <2>1. \A r \in Runs : ~Known(r)' => ~Known(r) \/ (records'[r] = None /\ ~Listed(r))
    BY <1>2, SurvivorsShrink
  <2>2. \A r \in Runs : ~Known(r)' => records'[r] = records[r] \/ records'[r] = None
    BY <1>2, SurvivorsShrink
  <2>3. \A r \in Runs : Survives(r)' => Survives(r) /\ records'[r] = records[r]
    BY <2>1, <2>2 DEF Survives
  <2>4. \A a \in restore.todo : ~Known(a.run)' => ~Known(a.run)
    BY <1>0, <2>1 DEF Listed
  <2>5. \A r \in Runs : restore.cur = r /\ ~Known(r)' => ~Known(r)
    BY <2>1 DEF Listed
  <2>6. /\ restore.stage = "boot" =>
             \A r, q \in Runs : Survives(r) /\ Survives(q) /\ r < q => records[r] < records[q]
        /\ \A a, b \in restore.todo :
             ~Known(a.run) /\ ~Known(b.run) /\ a.run < b.run => a.seq < b.seq
        /\ \A r \in Runs : restore.cur = r /\ ~Known(r) =>
             \A a \in restore.todo : thread_id[a.run] = thread_id[r] /\ ~Known(a.run) => r < a.run
    BY DEF InSequence
  <2>7. restore'.stage = "boot" =>
          \A r, q \in Runs : Survives(r)' /\ Survives(q)' /\ r < q => records'[r] < records'[q]
    BY <2>3, <2>6
  <2>8. \A a, b \in restore'.todo :
          ~Known(a.run)' /\ ~Known(b.run)' /\ a.run < b.run => a.seq < b.seq
    BY <2>4, <2>6
  <2>9. \A r \in Runs : restore'.cur = r /\ ~Known(r)' =>
          \A a \in restore'.todo : thread_id[a.run] = thread_id[r] /\ ~Known(a.run)' => r < a.run
    BY <2>4, <2>5, <2>6
  <2> QED BY <2>7, <2>8, <2>9 DEF InSequence
<1> QED BY <1>1, <1>2

\* The listing takes over the order of the records.
LEMMA ListSequence ==
  ASSUME ManagerInv, InSequence, RestoreList, restarts <= 1
  PROVE  InSequence'
<1>1. UNCHANGED <<memory, durable>> /\ restore.stage = "boot"
  BY DEF RestoreList
<1>2. \A b \in restore'.todo : b \in {[run |-> r, seq |-> records[r]] : r \in Pending}
  BY ListTyped DEF NoneLeft
<1>3. \A b \in restore'.todo : b.run \in Runs /\ b.seq = records[b.run] /\ records[b.run] # None
  BY <1>2 DEF Pending
<1>4. \A r \in Runs : Known(r)' <=> Known(r)
  BY <1>1 DEF memory, Known
<1>5. \A r, q \in Runs : Survives(r) /\ Survives(q) /\ r < q => records[r] < records[q]
  BY <1>1 DEF InSequence
<1>6. \A a, b \in restore'.todo :
        ~Known(a.run)' /\ ~Known(b.run)' /\ a.run < b.run => a.seq < b.seq
  BY <1>3, <1>4, <1>5 DEF Survives
<1>7. restore'.stage # "boot" /\ \A r \in Runs : restore'.cur # r
  BY ListTyped
<1> QED BY <1>6, <1>7 DEF InSequence

\* The first of its thread by seq is the first that was accepted.
LEMMA CheckSequence ==
  ASSUME ManagerInv, BootInv, InSequence, NEW a \in restore.todo, RestoreCheck(a), restarts <= 1
  PROVE  InSequence'
<1>1. UNCHANGED memory /\ FirstOfThread(a)
  BY DEF RestoreCheck
<1>2. \A r \in Runs : Known(r)' <=> Known(r)
  BY <1>1 DEF memory, Known
<1>3. /\ a.run \in Runs /\ restore'.todo = restore.todo \ {a} /\ restore'.stage # "boot"
      /\ restore'.cur \in {a.run, None}
  BY CheckMoves
<1>4. \A b \in restore.todo : b.run \in Runs /\ b.run \in Nat /\ b.seq \in Nat
  BY DEF ManagerInv, RunTypeOK, RestoreState
<1>5. \A b, c \in restore.todo : ~Known(b.run) /\ ~Known(c.run) /\ b.run < c.run => b.seq < c.seq
  BY DEF InSequence
<1>6. ASSUME NEW b \in restore.todo, b # a, thread_id[b.run] = thread_id[a.run],
             ~Known(a.run), ~Known(b.run)
      PROVE  a.run < b.run
  <2>1. a.seq <= b.seq
    BY <1>1, <1>4, <1>6 DEF FirstOfThread, before
  <2>2. a.run # b.run
    BY <1>6 DEF BootInv, ListedOnce
  <2>3. ~(b.run < a.run)
    BY <1>4, <1>5, <1>6, <2>1
  <2> QED BY <1>4, <2>2, <2>3
<1>7. \A b, c \in restore'.todo :
        ~Known(b.run)' /\ ~Known(c.run)' /\ b.run < c.run => b.seq < c.seq
  BY <1>2, <1>3, <1>4, <1>5
<1>8. \A r \in Runs : restore'.cur = r /\ ~Known(r)' =>
        \A b \in restore'.todo : thread_id[b.run] = thread_id[r] /\ ~Known(b.run)' => r < b.run
  <2> SUFFICES ASSUME NEW r \in Runs, restore'.cur = r, ~Known(r)', NEW b \in restore'.todo,
                      thread_id[b.run] = thread_id[r], ~Known(b.run)'
               PROVE  r < b.run
    OBVIOUS
  <2>1. r = a.run /\ b \in restore.todo /\ b # a
    BY <1>3
  <2> QED BY <1>2, <1>4, <1>6, <2>1
<1> QED BY <1>3, <1>7, <1>8 DEF InSequence

LEMMA SequenceStep ==
  ASSUME ManagerInv, BootInv, Stamped, InSequence, [Next]_vars, [Retains]_vars
  PROVE  InSequence'
<1>1. CASE UNCHANGED vars
  BY <1>1 DEF vars, memory, durable, bounds, InSequence, Survives, Known
<1>2. CASE Restart
  <2>1. /\ restore' = Booting /\ restore'.todo = {} /\ restore'.cur = None
        /\ restarts' = restarts + 1 /\ records' = records /\ restarts \in Nat
    BY <1>2 DEF Restart, Booting, NoneLeft, durable, ManagerInv, RunTypeOK
  <2>2. ASSUME restarts = 0, NEW r \in Runs, NEW q \in Runs, records[r] # None, records[q] # None, r < q
        PROVE  records[r] < records[q]
    BY <2>2 DEF Stamped
  <2>3. restarts' <= 1 => restarts = 0
    BY <2>1
  <2>4. restarts' <= 1 => \A r, q \in Runs : Survives(r)' /\ Survives(q)' /\ r < q => records'[r] < records'[q]
    BY <2>1, <2>2, <2>3 DEF Survives
  <2> QED BY <2>1, <2>4 DEF InSequence
<1>3. CASE Next /\ ~Restart /\ ~(restarts' <= 1)
  BY <1>3 DEF InSequence
<1>4. ASSUME Next, ~Restart, ~UNCHANGED vars, restarts' <= 1, restarts' = restarts PROVE InSequence'
  <2>0. Retains /\ restarts <= 1
    BY <1>4
  <2>1. CASE RestoreList
    BY <2>0, <2>1, ListSequence
  <2>2. ASSUME NEW a \in restore.todo, RestoreCheck(a) PROVE InSequence'
    BY <2>0, <2>2, CheckSequence
  <2>3. CASE RestoreInsert
    <3>1. restore'.stage # "boot" /\ restore'.todo = restore.todo /\ restore'.cur \in {restore.cur, None}
      BY <2>3, RestoreInsertMoves
    <3> QED BY <1>4, <2>0, <3>1, SequenceKept
  <2>4. ASSUME NEW r \in Runs, SpawnPromoted(r) PROVE InSequence'
    <3>1. restore' = restore \/ restore' = Done(restore)
      BY <2>4 DEF SpawnPromoted
    <3>2. /\ restore'.stage = "boot" => restore.stage = "boot"
          /\ restore'.todo = restore.todo /\ restore'.cur \in {restore.cur, None}
      BY <3>1, DoneTyped DEF ManagerInv, RunTypeOK
    <3> QED BY <1>4, <2>0, <3>2, SequenceKept
  <2>5. CASE restore' = restore
    BY <1>4, <2>0, <2>5, SequenceKept
  <2> QED BY <1>4, <2>1, <2>2, <2>3, <2>4, <2>5, RestoreSteps
<1>5. Next /\ ~Restart => restarts' = restarts
  BY RestoreSteps
<1> QED BY <1>1, <1>2, <1>3, <1>4, <1>5

\* The restore takes accepted runs back in the order they were accepted, for any number of
\* runs, threads, faults and cancellations (restore_pending_runs, pending_runs::sort): of a
\* process that restarts once and evicts nothing before its restore is done.
THEOREM RestoredInOrder == Spec /\ RetainsUntilRestored /\ RestartsOnce => RestoreOrder
<1> DEFINE InTurn ==
             \A r \in Runs : Restored(r) =>
               \A a \in restore.todo :
                 thread_id[a.run] = thread_id[r] /\ ~Known(a.run) => r < a.run
<1>1. InSequence /\ restarts <= 1 => InTurn
  BY DEF InSequence, Restored
<1>2. Stamped /\ ManagerInv /\ [Next]_vars => Stamped'
  BY StampedStep
<1>3. ManagerInv /\ BootInv /\ Stamped /\ InSequence /\ [Next]_vars /\ [Retains]_vars => InSequence'
  BY SequenceStep
<1>4. Init => Stamped /\ InSequence
  BY InitSequence
<1>5. RetainsUntilRestored <=> [][Retains]_vars
  BY DEF RetainsUntilRestored, Retains, Restoring
<1>6. Spec /\ RetainsUntilRestored => []InSequence
  BY <1>2, <1>3, <1>4, <1>5, BootAlways, PTL DEF Spec
<1>7. RestoreOrder <=> [][InTurn]_vars
  BY DEF RestoreOrder
<1> HIDE DEF InTurn
<1> QED BY <1>1, <1>6, <1>7, PTL DEF RestartsOnce

=============================================================================
