--------------------------- MODULE ExecutorProofs ---------------------------
(***************************************************************************)
(* Proofs about Executor and its Inbox, for every graph, every answer of   *)
(* its routers and any number of segments, messages, cancellations and     *)
(* faults: the bounds, that no super-step is torn or merged twice, that no *)
(* checkpoint loses a message and, for a handle that stays with its        *)
(* branch, that messages are delivered once and in order.                  *)
(*                                                                         *)
(* Two invariants.  IInv ties the run to its last checkpoint: it stands on *)
(* that state and that active set (Placed), its results are of different   *)
(* invocations of the set (Joined), an untouched handle is empty (Fresh),  *)
(* queues are within bounds with their pending sends and in every stamp    *)
(* (Bounded), and what the checkpoint stamped is still held, seen, dropped *)
(* or forfeited (Accounted).  Ordered lines the messages up: seen before   *)
(* held before queued before pending, in the run and in every stamp.       *)
(*                                                                         *)
(* Pick and MergeOrder place elements by rank; Places shows that ranks are *)
(* positions, and MergeCanonical that a merged block is a function of the  *)
(* active set.                                                             *)
(***************************************************************************)
EXTENDS Executor, TLAPS, FiniteSetTheorems, WellFoundedInduction

\* The types of a state, of an invocation's result, of the loop's locals and of a
\* checkpoint.
Blocks == Seq(Seq(Task))
State == [writes : Blocks, seen : Seq(Message)]
Result == [index : Nat, name : Nodes, scoped : Nat, goto : Seq(Nodes)]
Locals ==
  [pc : {"idle", "boundary", "step"}, state : State, active : Seq(Task), step : Nat,
   steps_run : Nat, carried : Seq(Message), turn_start : BOOLEAN,
   delivery : Seq(Message), results : Seq(Result), token : BOOLEAN, over : BOOLEAN]
Header ==
  [step : Nat, state : State, next : Seq(Nodes), tasks : Seq(Task), stamp : SnapshotType,
   prev : Nat]

Typed ==
  /\ log \in Seq(Header)
  /\ \A c \in DOMAIN log : log[c].prev \in 0..(c - 1)
  /\ base \in 0..Len(log)
  /\ run \in Locals
  /\ inbox \in InboxType
  /\ sent \in Nat

\* The state and the nodes the run continues from.
BaseState == IF base = 0 THEN EmptyState ELSE log[base].state
BaseNext == IF base = 0 THEN <<Entry>> ELSE log[base].next
BaseStamp == IF base = 0 THEN None ELSE log[base].stamp

\* What the run has taken out of the handle and not yet merged.
Held == ToSet(run.carried) \cup ToSet(run.delivery)

\* The locals fit the place in the loop, and the run is where its last checkpoint left it.
Placed ==
  /\ run.pc = "idle" => run = NoRun
  /\ run.pc = "boundary" => run.delivery = <<>> /\ run.results = <<>>
  /\ run.pc = "step" => run.carried = <<>> /\ run.steps_run < MaxSteps
  /\ run.pc # "idle" => run.state = BaseState /\ Names(run.active) = BaseNext
  /\ run.steps_run <= MaxSteps

\* The results are those of different invocations of the active set.
Joins(results, active) ==
  /\ \A j \in DOMAIN results :
       /\ results[j].index \in DOMAIN active
       /\ results[j].name = active[results[j].index].name
       /\ results[j].scoped = active[results[j].index].scoped
  /\ \A j, l \in DOMAIN results : results[j].index = results[l].index => j = l
Joined == Joins(run.results, run.active)

\* A handle that never accepted a send holds nothing, and its run holds nothing of it.
Fresh == ~inbox.touched => inbox.pending = <<>> /\ Queued(inbox) = {} /\ Held = {}

\* No queue is overfull, settled or not, stamped or not.
Bounded ==
  /\ \A k \in Kinds : Occupied(inbox, k) <= MaxQueue
  /\ \A c \in DOMAIN log : log[c].stamp # None =>
       \A k \in Kinds : Len(log[c].stamp[k]) <= MaxQueue

\* What the last checkpoint stamped is still somewhere.
Accounted ==
  Live => Stamped(BaseStamp) \subseteq
            Queued(inbox) \cup Held \cup ToSet(run.state.seen) \cup dropped \cup forfeited

IInv == Typed /\ Placed /\ Joined /\ Fresh /\ Bounded /\ Accounted

\* Kind by kind in intake order, and one set before another.
InOrder(s) ==
  \A i, j \in DOMAIN s : i < j /\ s[i].kind = s[j].kind => s[i].id < s[j].id
Ahead(A, B) == \A m \in A, n \in B : m.kind = n.kind => m.id < n.id

\* The queues of a handle or of a stamp.
Sorted(q) ==
  \A k \in Kinds : InOrder(q[k]) /\ \A m \in ToSet(q[k]) : m.kind = k

\* A checkpoint can be resumed in order: seen, then the undelivered batch, then the queues.
Logged(c) ==
  /\ InOrder(c.state.seen)
  /\ c.stamp # None =>
       /\ Sorted(c.stamp)
       /\ InOrder(c.stamp.pending_delivery)
       /\ Ahead(ToSet(c.state.seen), Stamped(c.stamp))
       /\ Ahead(ToSet(c.stamp.pending_delivery), Queued(c.stamp))

\* What the checkpoints hold, and every message that was ever settled and is still
\* somewhere.
Past(l) == UNION {ToSet(l[c].state.seen) \cup Stamped(l[c].stamp) : c \in DOMAIN l}
Known == Queued(inbox) \cup Held \cup Past(log)

\* Numbers grow with intake: a pending send is newer than all that is known.
Numbered ==
  /\ \A m \in Known : m.id <= sent /\ \A n \in ToSet(inbox.pending) : m.id < n.id
  /\ \A n \in ToSet(inbox.pending) : n.id <= sent

\* The second invariant.
Ordered ==
  /\ \A c \in DOMAIN log : Logged(log[c])
  /\ Sorted(inbox)
  /\ InOrder(inbox.pending)
  /\ InOrder(run.carried)
  /\ InOrder(run.delivery)
  /\ Ahead(ToSet(BaseState.seen), Held \cup Queued(inbox))
  /\ Ahead(Held, Queued(inbox))
  /\ Numbered

USE InboxAssumption, ExecAssumption

-----------------------------------------------------------------------------
(***************************************************************************)
(* Sequences                                                               *)
(***************************************************************************)

\* A set of naturals that is not empty has a least member.
LEMMA LeastNat ==
  ASSUME NEW S, S \subseteq Nat, S # {}
  PROVE  \E n \in S : \A m \in S : n <= m
<1>1. PICK n \in S : \A m \in S : ~(<<m, n>> \in OpToRel(<, Nat))
  BY NatLessThanWellFounded, WFMin
<1>2. \A m \in S : ~(m < n)
  BY <1>1 DEF OpToRel
<1> QED BY <1>2

\* before says of each member of S which ones precede it: a strict total order.
Ranking(S, before) ==
  /\ before \in [S -> SUBSET S]
  /\ \A a \in S : a \notin before[a]
  /\ \A a, b \in S : a = b \/ a \in before[b] \/ b \in before[a]
  /\ \A a, b \in S : a \in before[b] => before[a] \subseteq before[b]

\* In a finite order every place is taken, by one member.
LEMMA Places ==
  ASSUME NEW S, IsFiniteSet(S), NEW before, Ranking(S, before)
  PROVE  /\ Cardinality(S) \in Nat
         /\ \A k \in 1..Cardinality(S) : \E a \in S : Cardinality(before[a]) = k - 1
         /\ \A a \in S : Cardinality(before[a]) \in 0..(Cardinality(S) - 1)
         /\ \A a, b \in S : a \in before[b] <=> Cardinality(before[a]) < Cardinality(before[b])
<1> DEFINE n == Cardinality(S)
           rank == [a \in S |-> Cardinality(before[a])]
<1>1. n \in Nat
  BY FS_CardinalityType
<1>2. ASSUME NEW a \in S PROVE before[a] \in SUBSET S /\ before[a] # S
  BY DEF Ranking
<1>3. ASSUME NEW a \in S
      PROVE  IsFiniteSet(before[a]) /\ Cardinality(before[a]) \in 0..(n - 1)
  BY <1>1, <1>2, FS_Subset, FS_CardinalityType
<1>4. ASSUME NEW a \in S, NEW b \in S, a \in before[b]
      PROVE  Cardinality(before[a]) < Cardinality(before[b])
  <2>1. before[a] \in SUBSET before[b] /\ before[a] # before[b]
    BY <1>4 DEF Ranking
  <2> QED BY <1>3, <2>1, FS_Subset
<1>5. ASSUME NEW a \in S, NEW b \in S, Cardinality(before[a]) < Cardinality(before[b])
      PROVE  a \in before[b]
  <2>1. a # b
    BY <1>3, <1>5
  <2>2. CASE b \in before[a]
    BY <1>1, <1>3, <1>4, <1>5, <2>2
  <2> QED BY <2>1, <2>2 DEF Ranking
<1>6. IsFiniteSet(0..(n - 1)) /\ Cardinality(0..(n - 1)) = n
  <2>1. n - 1 \in Int
    BY <1>1
  <2>2. IsFiniteSet(0..(n - 1)) /\ Cardinality(0..(n - 1)) = IF 0 > n - 1 THEN 0 ELSE n - 1 - 0 + 1
    BY <2>1, FS_Interval
  <2> QED BY <1>1, <2>2
<1>7. ASSUME NEW a \in S, NEW b \in S, rank[a] = rank[b] PROVE a = b
  <2>1. a \notin before[b] /\ b \notin before[a]
    BY <1>1, <1>3, <1>4, <1>7
  <2> QED BY <2>1 DEF Ranking
<1>8. rank \in Injection(S, 0..(n - 1))
  BY <1>3, <1>7 DEF Injection, IsInjective
<1>9. rank \in Surjection(S, 0..(n - 1))
  BY <1>6, <1>8, FS_Injection
<1>10. \A k \in 1..n : \E a \in S : Cardinality(before[a]) = k - 1
  <2>1. \A k \in 1..n : k - 1 \in 0..(n - 1)
    BY <1>1
  <2> QED BY <1>9, <2>1 DEF Surjection
<1> QED BY <1>1, <1>3, <1>4, <1>5, <1>10

\* What a selection has: the elements at the chosen positions, in order.
Selection(t, s, I) ==
  /\ Len(t) = Cardinality(I)
  /\ \E place \in [DOMAIN t -> I] :
       /\ \A k \in DOMAIN t : t[k] = s[place[k]]
       /\ \A k, l \in DOMAIN t : k < l => place[k] < place[l]
       /\ \A i \in I : \E k \in DOMAIN t : place[k] = i

\* Pick takes exactly the elements at the given positions, in their order.
LEMMA PickSelects ==
  ASSUME NEW T, NEW s \in Seq(T), NEW I, I \subseteq DOMAIN s
  PROVE  /\ IsFiniteSet(I)
         /\ Pick(s, I) \in Seq(T)
         /\ Selection(Pick(s, I), s, I)
<1> DEFINE n == Cardinality(I)
           before == [i \in I |-> {j \in I : j < i}]
           place == [k \in 1..n |-> CHOOSE i \in I : Cardinality({j \in I : j < i}) = k - 1]
<1>1. I \subseteq Nat /\ IsFiniteSet(I)
  <2>1. DOMAIN s = 1..Len(s) /\ Len(s) \in Nat
    OBVIOUS
  <2>2. IsFiniteSet(1..Len(s))
    BY <2>1, FS_Interval
  <2> QED BY <2>1, <2>2, FS_Subset
<1>2. Ranking(I, before)
  BY <1>1 DEF Ranking
<1>3. /\ n \in Nat
      /\ \A k \in 1..n : \E i \in I : Cardinality(before[i]) = k - 1
      /\ \A i \in I : Cardinality(before[i]) \in 0..(n - 1)
      /\ \A i, j \in I : i \in before[j] <=> Cardinality(before[i]) < Cardinality(before[j])
  <2> HIDE DEF before
  <2> QED BY <1>1, <1>2, Places
<1>4. \A k \in 1..n : place[k] \in I /\ Cardinality(before[place[k]]) = k - 1
  <2>1. \A i \in I : before[i] = {j \in I : j < i}
    OBVIOUS
  <2> HIDE DEF before
  <2>2. \A k \in 1..n : \E i \in I : Cardinality({j \in I : j < i}) = k - 1
    BY <1>3, <2>1
  <2>3. \A k \in 1..n : place[k] \in I /\ Cardinality({j \in I : j < place[k]}) = k - 1
    BY <2>2
  <2> QED BY <2>1, <2>3
<1>5. Pick(s, I) = [k \in 1..n |-> s[place[k]]]
  BY DEF Pick
<1>6. \A k, l \in 1..n : k < l => place[k] < place[l]
  <2>1. \A k, l \in 1..n : k < l => place[k] \in before[place[l]]
    <3> HIDE DEF before, place, n
    <3> SUFFICES ASSUME NEW k \in 1..n, NEW l \in 1..n, k < l
                 PROVE  place[k] \in before[place[l]]
      OBVIOUS
    <3>1. k - 1 < l - 1
      BY <1>3
    <3> QED BY <1>3, <1>4, <3>1
  <2>2. \A i \in I : \A j \in before[i] : j < i
    OBVIOUS
  <2> HIDE DEF before, place
  <2> QED BY <1>4, <2>1, <2>2
<1>7. \A i \in I : \E k \in 1..n : place[k] = i
  <2> SUFFICES ASSUME NEW i \in I PROVE \E k \in 1..n : place[k] = i
    OBVIOUS
  <2> DEFINE k == Cardinality(before[i]) + 1
  <2>1. k \in 1..n /\ Cardinality(before[i]) = k - 1
    <3> HIDE DEF before
    <3> QED BY <1>3
  <2>2. ~(place[k] \in before[i]) /\ ~(i \in before[place[k]])
    <3> HIDE DEF before, place, k
    <3>1. Cardinality(before[place[k]]) = Cardinality(before[i])
      BY <1>4, <2>1
    <3> QED BY <1>3, <1>4, <2>1, <3>1
  <2>3. place[k] = i
    <3> HIDE DEF before, place, k
    <3> QED BY <1>2, <1>4, <2>1, <2>2 DEF Ranking
  <2> QED BY <2>1, <2>3
<1> HIDE DEF before, place, n
<1>8. Pick(s, I) \in [1..n -> T]
  BY <1>1, <1>4, <1>5
<1>9. Pick(s, I) \in Seq(T) /\ DOMAIN Pick(s, I) = 1..n /\ Len(Pick(s, I)) = n
  BY <1>3, <1>8
<1>10. place \in [1..n -> I]
  BY <1>4 DEF place
<1>11. Selection(Pick(s, I), s, I)
  BY <1>5, <1>6, <1>7, <1>9, <1>10 DEF Selection, n
<1> QED BY <1>1, <1>9, <1>11

\* A function on an initial segment is a sequence.
LEMMA IsSeq ==
  ASSUME NEW T, NEW n \in Nat, NEW f \in [1..n -> T]
  PROVE  f \in Seq(T) /\ Len(f) = n
OBVIOUS

\* Concatenation and the set of its elements.
LEMMA SetOf ==
  ASSUME NEW T, NEW s \in Seq(T), NEW t \in Seq(T)
  PROVE  /\ ToSet(s) \subseteq T
         /\ s \o t \in Seq(T)
         /\ Len(s \o t) = Len(s) + Len(t) /\ Len(s) \in Nat /\ Len(t) \in Nat
         /\ ToSet(s \o t) = ToSet(s) \cup ToSet(t)
<1>1. ToSet(s) \subseteq T
  BY DEF ToSet
<1>2. ToSet(s \o t) = ToSet(s) \cup ToSet(t)
  <2>1. \A i \in DOMAIN s : i \in DOMAIN (s \o t) /\ (s \o t)[i] = s[i]
    OBVIOUS
  <2>2. \A i \in DOMAIN t : Len(s) + i \in DOMAIN (s \o t) /\ (s \o t)[Len(s) + i] = t[i]
    OBVIOUS
  <2>3. \A i \in DOMAIN (s \o t) :
          \/ i \in DOMAIN s /\ (s \o t)[i] = s[i]
          \/ i - Len(s) \in DOMAIN t /\ (s \o t)[i] = t[i - Len(s)]
    OBVIOUS
  <2> DEFINE u == s \o t
  <2> HIDE DEF u
  <2>4. ToSet(u) \subseteq ToSet(s) \cup ToSet(t)
    BY <2>3 DEF ToSet, u
  <2>5. ToSet(s) \subseteq ToSet(u) /\ ToSet(t) \subseteq ToSet(u)
    BY <2>1, <2>2 DEF ToSet, u
  <2> QED BY <2>4, <2>5 DEF u
<1> QED BY <1>1, <1>2

LEMMA SetOfAppend ==
  ASSUME NEW T, NEW s \in Seq(T), NEW x \in T
  PROVE  Append(s, x) \in Seq(T) /\ ToSet(Append(s, x)) = ToSet(s) \cup {x}
<1>1. ToSet(Append(s, x)) = ToSet(s) \cup {x}
  <2>1. \A i \in DOMAIN s : i \in DOMAIN Append(s, x) /\ Append(s, x)[i] = s[i]
    OBVIOUS
  <2>2. Len(s) + 1 \in DOMAIN Append(s, x) /\ Append(s, x)[Len(s) + 1] = x
    OBVIOUS
  <2>3. \A i \in DOMAIN Append(s, x) : i \in DOMAIN s \/ Append(s, x)[i] = x
    OBVIOUS
  <2> QED BY <2>1, <2>2, <2>3, Zenon DEF ToSet
<1> QED BY <1>1

LEMMA SetOfNone == ToSet(<<>>) = {}
BY DEF ToSet

\* The messages of one kind, in the order they came.
LEMMA OfKindFacts ==
  ASSUME NEW s \in Seq(Message), NEW k \in Kinds
  PROVE  /\ OfKind(s, k) \in Seq(Message)
         /\ ToSet(OfKind(s, k)) = {m \in ToSet(s) : m.kind = k}
         /\ InOrder(s) => InOrder(OfKind(s, k))
         /\ s = <<>> => OfKind(s, k) = <<>>
<1> DEFINE I == {i \in DOMAIN s : s[i].kind = k}
           t == Pick(s, I)
<1>1. t \in Seq(Message) /\ Selection(t, s, I) /\ OfKind(s, k) = t /\ I \subseteq DOMAIN s
  <2>1. I \subseteq DOMAIN s
    OBVIOUS
  <2> HIDE DEF I
  <2>2. t \in Seq(Message) /\ Selection(t, s, I)
    BY <2>1, PickSelects
  <2> QED BY <2>1, <2>2 DEF OfKind, I
<1>2. PICK place \in [DOMAIN t -> I] :
        /\ \A l \in DOMAIN t : t[l] = s[place[l]]
        /\ \A l, j \in DOMAIN t : l < j => place[l] < place[j]
        /\ \A i \in I : \E l \in DOMAIN t : place[l] = i
  BY <1>1 DEF Selection
<1>3. \A i \in I : i \in DOMAIN s /\ s[i].kind = k
  OBVIOUS
<1>4. \A i \in DOMAIN s : s[i].kind = k => i \in I
  OBVIOUS
<1>5. Len(t) = Cardinality(I)
  BY <1>1 DEF Selection
<1> HIDE DEF I, t
<1>6. ToSet(t) = {m \in ToSet(s) : m.kind = k}
  <2>1. \A l \in DOMAIN t : t[l] \in ToSet(s) /\ t[l].kind = k
    BY <1>2, <1>3 DEF ToSet
  <2>2. \A i \in DOMAIN s : s[i].kind = k => \E l \in DOMAIN t : t[l] = s[i]
    BY <1>2, <1>4
  <2>3. \A m \in ToSet(s) : m.kind = k => m \in ToSet(t)
    BY <2>2 DEF ToSet
  <2>4. \A m \in ToSet(t) : m \in ToSet(s) /\ m.kind = k
    BY <2>1 DEF ToSet
  <2> QED BY <2>3, <2>4
<1>7. ASSUME InOrder(s), NEW l \in DOMAIN t, NEW j \in DOMAIN t, l < j
      PROVE  t[l].id < t[j].id
  <2>1. place[l] \in DOMAIN s /\ place[j] \in DOMAIN s /\ place[l] < place[j]
    BY <1>2, <1>3, <1>7
  <2>2. s[place[l]].kind = s[place[j]].kind
    BY <1>2, <1>3, <1>7
  <2>3. s[place[l]].id < s[place[j]].id
    BY <1>7, <2>1, <2>2 DEF InOrder
  <2> QED BY <1>2, <2>3
<1>8. s = <<>> => t = <<>>
  <2> SUFFICES ASSUME s = <<>> PROVE t = <<>>
    OBVIOUS
  <2>1. I = {}
    BY <1>1
  <2>2. Len(t) = 0
    BY <1>5, <2>1, FS_EmptySet
  <2> QED BY <1>1, <2>2
<1> QED BY <1>1, <1>6, <1>7, <1>8 DEF InOrder

\* A send adds one to its kind.
LEMMA OfKindAppend ==
  ASSUME NEW s \in Seq(Message), NEW m \in Message, NEW k \in Kinds
  PROVE  /\ Len(OfKind(s, k)) \in Nat
         /\ Len(OfKind(Append(s, m), k)) = Len(OfKind(s, k)) + IF m.kind = k THEN 1 ELSE 0
<1> DEFINE I == {i \in DOMAIN s : s[i].kind = k}
           u == Append(s, m)
           J == {i \in DOMAIN u : u[i].kind = k}
           n == Len(s) + 1
<1>1. u \in Seq(Message) /\ Len(s) \in Nat /\ DOMAIN s = 1..Len(s) /\ DOMAIN u = 1..n
  OBVIOUS
<1>2. \A i \in DOMAIN s : u[i] = s[i]
  OBVIOUS
<1>3. u[n] = m
  OBVIOUS
<1>4. I \subseteq DOMAIN s /\ J \subseteq DOMAIN u /\ n \notin I
  BY <1>1
<1>5. J = IF m.kind = k THEN I \cup {n} ELSE I
  <2>1. \A i \in DOMAIN u : i = n \/ i \in DOMAIN s
    BY <1>1
  <2>2. DOMAIN s \subseteq DOMAIN u /\ n \in DOMAIN u
    BY <1>1
  <2> HIDE DEF u, n
  <2> QED BY <1>2, <1>3, <2>1, <2>2
<1>6. OfKind(s, k) = Pick(s, I) /\ OfKind(u, k) = Pick(u, J)
  BY DEF OfKind
<1> HIDE DEF I, J, u, n
<1>7. IsFiniteSet(I) /\ Len(Pick(s, I)) = Cardinality(I)
  BY <1>4, PickSelects DEF Selection
<1>8. Len(Pick(u, J)) = Cardinality(J)
  BY <1>1, <1>4, PickSelects DEF Selection
<1>9. Cardinality(I) \in Nat /\ Cardinality(I \cup {n}) = Cardinality(I) + 1
  BY <1>4, <1>7, FS_CardinalityType, FS_AddElement
<1> QED BY <1>5, <1>6, <1>7, <1>8, <1>9 DEF u

-----------------------------------------------------------------------------
(***************************************************************************)
(* Routing and merging                                                     *)
(***************************************************************************)

JoinStep(ss, f, i) == IF i = 1 THEN ss[i] ELSE f[i - 1] \o ss[i]

\* The concatenation of sequences is defined by recursion: the function exists.
LEMMA JoinExists ==
  ASSUME NEW ss, NEW n \in Nat
  PROVE  \E f : f = [i \in 1..n |-> JoinStep(ss, f, i)]
<1> DEFINE Exists(m) == \E f : f = [i \in 1..m |-> JoinStep(ss, f, i)]
           bad == {m \in Nat : ~Exists(m)}
<1> SUFFICES ASSUME bad # {} PROVE FALSE
  OBVIOUS
<1>1. PICK m \in bad : \A k \in bad : m <= k
  <2>1. bad \subseteq Nat
    OBVIOUS
  <2> HIDE DEF bad
  <2> QED BY <2>1, LeastNat
<1>2. Exists(0)
  <2> DEFINE f == [i \in {} |-> None]
  <2>1. f = [i \in 1..0 |-> JoinStep(ss, f, i)]
    OBVIOUS
  <2> QED BY <2>1
<1>3. m \in Nat /\ m # 0 /\ m - 1 \in Nat
  <2>1. m # 0
    BY <1>1, <1>2
  <2> QED BY <1>1, <2>1
<1>4. Exists(m - 1)
  BY <1>1, <1>3
<1>5. PICK f : f = [i \in 1..(m - 1) |-> JoinStep(ss, f, i)]
  BY <1>4
<1> DEFINE g == [i \in 1..m |-> IF i < m THEN f[i] ELSE JoinStep(ss, f, m)]
<1>6. ASSUME NEW i \in 1..m PROVE g[i] = JoinStep(ss, g, i)
  <2>1. g[i] = JoinStep(ss, f, i)
    <3>1. CASE i < m
      <4>1. i \in 1..(m - 1)
        BY <1>3, <3>1
      <4> QED BY <1>5, <3>1, <4>1
    <3>2. CASE i = m
      BY <3>2
    <3> QED BY <1>3, <3>1, <3>2
  <2>2. i # 1 => g[i - 1] = f[i - 1]
    <3> SUFFICES ASSUME i # 1 PROVE g[i - 1] = f[i - 1]
      OBVIOUS
    <3>1. i - 1 \in 1..m /\ i - 1 < m
      BY <1>3
    <3> QED BY <3>1
  <2> HIDE DEF g
  <2> QED BY <2>1, <2>2 DEF JoinStep
<1>7. g = [i \in 1..m |-> JoinStep(ss, g, i)]
  BY <1>6
<1>8. Exists(m)
  <2> HIDE DEF g
  <2> QED BY <1>7
<1> QED BY <1>1, <1>8

\* Flattening sequences over T stays over T.
LEMMA FlattenTyped ==
  ASSUME NEW T, NEW ss \in Seq(Seq(T))
  PROVE  FlattenSeq(ss) \in Seq(T)
<1> DEFINE n == Len(ss)
           f == CHOOSE f : f = [i \in 1..n |-> JoinStep(ss, f, i)]
<1>1. CASE n = 0
  <2>1. FlattenSeq(ss) = ss /\ ss = <<>>
    BY <1>1 DEF FlattenSeq
  <2> QED BY <2>1
<1>2. CASE n # 0
  <2>1. n \in Nat /\ n >= 1
    BY <1>2
  <2>2. FlattenSeq(ss) = f[n]
    BY <1>2 DEF FlattenSeq, JoinStep
  <2>3. f = [i \in 1..n |-> JoinStep(ss, f, i)]
    BY <2>1, JoinExists
  <2>4. \A i \in 1..n : ss[i] \in Seq(T)
    OBVIOUS
  <2> HIDE DEF n, f
  <2> DEFINE bad == {i \in 1..n : f[i] \notin Seq(T)}
  <2>5. bad = {}
    <3> SUFFICES ASSUME bad # {} PROVE FALSE
      OBVIOUS
    <3>1. PICK m \in bad : \A k \in bad : m <= k
      <4>1. bad \subseteq Nat
        BY <2>1
      <4> HIDE DEF bad
      <4> QED BY <4>1, LeastNat
    <3>2. m \in 1..n /\ f[m] = JoinStep(ss, f, m) /\ f[m] \notin Seq(T)
      BY <2>3, <3>1
    <3>3. m # 1
      BY <2>4, <3>2 DEF JoinStep
    <3>4. m - 1 \in 1..n /\ m - 1 \notin bad
      BY <2>1, <3>1, <3>2, <3>3
    <3>5. f[m - 1] \in Seq(T)
      BY <3>4
    <3>6. f[m - 1] \o ss[m] \in Seq(T)
      BY <2>4, <3>2, <3>5
    <3> QED BY <3>2, <3>3, <3>6 DEF JoinStep
  <2>6. n \in 1..n
    BY <2>1
  <2> QED BY <2>2, <2>5, <2>6
<1> QED BY <1>1, <1>2

\* An active set is a sequence of invocations of the graph's nodes.
LEMMA TasksTyped ==
  ASSUME NEW names \in Seq(Nodes), NEW tasks \in Seq(Task)
  PROVE  /\ Plain(names) \in Seq(Task)
         /\ Names(Plain(names)) = names
         /\ Names(tasks) \in Seq(Nodes)
         /\ Planned(tasks) \in Seq(Task)
<1>1. Plain(names) \in [1..Len(names) -> Task]
  BY DEF Plain, Task
<1>2. Names(tasks) \in [1..Len(tasks) -> Nodes]
  <2>1. \A i \in 1..Len(tasks) : tasks[i] \in Task
    OBVIOUS
  <2>2. \A i \in 1..Len(tasks) : tasks[i].name \in Nodes
    BY <2>1 DEF Task
  <2>3. DOMAIN tasks = 1..Len(tasks)
    OBVIOUS
  <2> QED BY <2>2, <2>3 DEF Names
<1>3. Names(Plain(names)) = names
  BY DEF Names, Plain
<1> DEFINE I == {i \in DOMAIN tasks :
                   tasks[i].scoped = 0 => \A j \in 1..(i - 1) : tasks[j] # tasks[i]}
<1>4. Pick(tasks, I) \in Seq(Task)
  <2>1. I \subseteq DOMAIN tasks
    OBVIOUS
  <2> HIDE DEF I
  <2> QED BY <2>1, PickSelects
<1>5. Planned(tasks) = Pick(tasks, I)
  BY DEF Planned
<1>6. Plain(names) \in Seq(Task)
  BY <1>1
<1>7. Names(tasks) \in Seq(Nodes)
  BY <1>2
<1> QED BY <1>3, <1>4, <1>5, <1>6, <1>7

\* What the routers or the commands of a step schedule is an active set.
LEMMA NextTyped ==
  ASSUME NEW active \in Seq(Task), NEW results \in Seq(Result), Joins(results, active),
         NEW route \in [{active[i].name : i \in DOMAIN active} -> UNION {Routes[n] : n \in Nodes}],
         \A n \in DOMAIN route : route[n] \in Routes[n]
  PROVE  NextTasks(results, route) \in Seq(Task)
<1> DEFINE gotoss == [i \in DOMAIN results |-> results[i].goto]
           I == {i \in DOMAIN results : \A j \in 1..(i - 1) : results[j].name # results[i].name}
           ran == Ran(results)
           routes == [i \in DOMAIN ran |-> route[ran[i]]]
<1>1. FlattenSeq(gotoss) \in Seq(Nodes)
  <2>1. gotoss \in [1..Len(results) -> Seq(Nodes)]
    <3>1. \A i \in 1..Len(results) : results[i] \in Result
      OBVIOUS
    <3>2. \A i \in 1..Len(results) : results[i].goto \in Seq(Nodes)
      BY <3>1 DEF Result
    <3>3. DOMAIN results = 1..Len(results)
      OBVIOUS
    <3> QED BY <3>2, <3>3
  <2>2. gotoss \in Seq(Seq(Nodes))
    BY <2>1
  <2> HIDE DEF gotoss
  <2> QED BY <2>2, FlattenTyped
<1>2. /\ Pick(results, I) \in Seq(Result)
      /\ Selection(Pick(results, I), results, I)
      /\ I \subseteq DOMAIN results
  <2>1. I \subseteq DOMAIN results
    OBVIOUS
  <2> HIDE DEF I
  <2> QED BY <2>1, PickSelects
<1>3. ran = Names(Pick(results, I))
  BY DEF Ran
<1> HIDE DEF I, gotoss
<1>4. /\ DOMAIN ran = DOMAIN Pick(results, I)
      /\ \A i \in DOMAIN ran : \E j \in DOMAIN results : ran[i] = results[j].name
  <2>1. \A i \in DOMAIN Pick(results, I) : \E j \in DOMAIN results : Pick(results, I)[i] = results[j]
    BY <1>2 DEF Selection
  <2> QED BY <1>3, <2>1 DEF Names
<1>5. \A i \in DOMAIN ran : ran[i] \in DOMAIN route /\ ran[i] \in Nodes
  <2>1. \A j \in DOMAIN results :
          /\ results[j].index \in DOMAIN active
          /\ results[j].name = active[results[j].index].name
    BY DEF Joins
  <2>2. \A j \in DOMAIN active : active[j].name \in Nodes
    <3>1. \A j \in DOMAIN active : active[j] \in Task
      OBVIOUS
    <3> QED BY <3>1 DEF Task
  <2>3. DOMAIN route = {active[i].name : i \in DOMAIN active}
    OBVIOUS
  <2> HIDE DEF ran
  <2> SUFFICES ASSUME NEW i \in DOMAIN ran PROVE ran[i] \in DOMAIN route /\ ran[i] \in Nodes
    OBVIOUS
  <2>4. PICK j \in DOMAIN results : ran[i] = results[j].name
    BY <1>4
  <2> QED BY <2>1, <2>2, <2>3, <2>4
<1>6. \A i \in DOMAIN ran : route[ran[i]] \in Seq(Task)
  BY <1>5
<1>7. routes \in Seq(Seq(Task))
  <2>1. DOMAIN ran = 1..Len(Pick(results, I)) /\ Len(Pick(results, I)) \in Nat
    BY <1>2, <1>4
  <2> DEFINE l == Len(Pick(results, I))
  <2> HIDE DEF l
  <2>2. routes \in [1..l -> Seq(Task)]
    BY <1>6, <2>1 DEF l
  <2>3. l \in Nat
    BY <2>1 DEF l
  <2> HIDE DEF routes
  <2> QED BY <2>2, <2>3, IsSeq
<1>8. FlattenSeq(routes) \in Seq(Task)
  <2> HIDE DEF routes
  <2> QED BY <1>7, FlattenTyped
<1>9. NextTasks(results, route) \in {Planned(Plain(FlattenSeq(gotoss))), Planned(FlattenSeq(routes))}
  BY DEF NextTasks, gotoss
<1> HIDE DEF routes
<1> QED BY <1>1, <1>8, <1>9, TasksTyped

\* The block of writes a barrier merges.
Block(results) ==
  [i \in DOMAIN results |->
     [name |-> MergeOrder(results)[i].name, scoped |-> MergeOrder(results)[i].scoped]]

\* Once every invocation has joined, the merge is canonical, however they joined.
LEMMA MergeCanonical ==
  ASSUME NEW active \in Seq(Task), NEW results \in Seq(Result), Joins(results, active),
         Len(results) = Len(active)
  PROVE  Block(results) \in Seq(Task) /\ Canonical(Block(results), active)
<1> DEFINE n == Len(active)
           S == ToSet(results)
           before == [r \in S |-> {q \in S : Before(q, r)}]
           merged == MergeOrder(results)
           place == [k \in 1..n |-> merged[k].index]
           block == Block(results)
<1>1. n \in Nat /\ DOMAIN results = 1..n /\ DOMAIN active = 1..n
  OBVIOUS
<1>2. \A j \in 1..n : results[j] \in Result /\ results[j] \in S
  BY <1>1 DEF ToSet
<1>3. \A r \in S : \E j \in 1..n : r = results[j]
  BY <1>1 DEF ToSet
<1>4. \A r \in S : /\ r \in Result
                   /\ r.index \in 1..n
                   /\ r.name = active[r.index].name
                   /\ r.scoped = active[r.index].scoped
  <2>1. \A j \in 1..n : /\ results[j].index \in 1..n
                         /\ results[j].name = active[results[j].index].name
                         /\ results[j].scoped = active[results[j].index].scoped
    BY <1>1 DEF Joins
  <2> HIDE DEF n, S
  <2> QED BY <1>2, <1>3, <2>1
<1>5. \A j, l \in 1..n : results[j] = results[l] => j = l
  BY <1>1 DEF Joins
<1>6. \A q, r \in S : q.index = r.index => q = r
  <2>1. \A j, l \in 1..n : results[j].index = results[l].index => j = l
    BY <1>1 DEF Joins
  <2> HIDE DEF n, S
  <2> QED BY <1>3, <2>1
<1>7. \A r \in S : r.index \in Int /\ r.name \in Int
  <2>1. \A r \in Result : r.name \in Nodes
    BY DEF Result
  <2> HIDE DEF n, S
  <2>2. \A i \in 1..n : i \in Int
    BY <1>1
  <2>3. \A r \in S : r.name \in Nodes
    BY <1>4, <2>1
  <2>4. \A r \in S : r.index \in Int
    BY <1>4, <2>2
  <2>5. \A a \in Nodes : a \in Int
    OBVIOUS
  <2> QED BY <2>3, <2>4, <2>5
<1>8. IsFiniteSet(1..n) /\ Cardinality(1..n) = n
  <2>1. IsFiniteSet(1..n) /\ Cardinality(1..n) = IF 1 > n THEN 0 ELSE n - 1 + 1
    <3> HIDE DEF n
    <3>1. 1 \in Int /\ n \in Int
      BY <1>1
    <3> QED BY <3>1, FS_Interval
  <2> QED BY <1>1, <2>1
<1> DEFINE joined == [j \in 1..n |-> results[j]]
<1>9. IsFiniteSet(S) /\ Cardinality(S) = n
  <2>1. joined \in Bijection(1..n, S)
    BY <1>2, <1>3, <1>5 DEF Bijection, Injection, Surjection, IsInjective
  <2>2. ExistsBijection(1..n, S)
    BY <2>1 DEF ExistsBijection
  <2> HIDE DEF S, n
  <2> QED BY <1>8, <2>2, FS_Bijection
<1>10. Ranking(S, before)
  <2> HIDE DEF S
  <2>1. \A r \in S : ~Before(r, r)
    BY <1>7 DEF Before
  <2>2. \A q, r \in S : q = r \/ Before(q, r) \/ Before(r, q)
    BY <1>6, <1>7 DEF Before
  <2>3. \A p, q, r \in S : Before(p, q) /\ Before(q, r) => Before(p, r)
    BY <1>7 DEF Before
  <2> QED BY <2>1, <2>2, <2>3 DEF Ranking
<1>11. \A r \in S : before[r] = {q \in S : Before(q, r)}
  OBVIOUS
<1>12. merged = [k \in 1..n |-> CHOOSE r \in S : Cardinality({q \in S : Before(q, r)}) = k - 1]
  BY <1>1 DEF MergeOrder
<1> HIDE DEF S, before, merged, n
<1>13. /\ \A k \in 1..n : \E r \in S : Cardinality(before[r]) = k - 1
       /\ \A q, r \in S : q \in before[r] <=> Cardinality(before[q]) < Cardinality(before[r])
  BY <1>9, <1>10, Places
<1>14. \A k \in 1..n : merged[k] \in S /\ Cardinality(before[merged[k]]) = k - 1
  <2>1. \A k \in 1..n : \E r \in S : Cardinality({q \in S : Before(q, r)}) = k - 1
    BY <1>11, <1>13
  <2>2. \A k \in 1..n : merged[k] \in S /\ Cardinality({q \in S : Before(q, merged[k])}) = k - 1
    BY <1>12, <2>1
  <2> QED BY <1>11, <2>2
<1>15. ASSUME NEW k \in 1..n, NEW l \in 1..n, k < l
       PROVE  Before(merged[k], merged[l])
  <2>1. k - 1 < l - 1
    BY <1>1, <1>15
  <2>2. merged[k] \in before[merged[l]]
    BY <1>13, <1>14, <2>1
  <2> QED BY <1>11, <1>14, <2>2
<1>16. place \in Bijection(1..n, 1..n)
  <2>1. place \in [1..n -> 1..n]
    BY <1>4, <1>14
  <2>2. ASSUME NEW k \in 1..n, NEW l \in 1..n, place[k] = place[l] PROVE k = l
    <3>1. merged[k] = merged[l]
      BY <1>6, <1>14, <2>2
    <3>2. ~Before(merged[k], merged[l]) /\ ~Before(merged[l], merged[k])
      BY <1>7, <1>14, <3>1 DEF Before
    <3> QED BY <1>1, <1>15, <3>2
  <2>3. place \in Injection(1..n, 1..n)
    BY <2>1, <2>2 DEF Injection, IsInjective
  <2> HIDE DEF place
  <2>4. place \in Surjection(1..n, 1..n)
    BY <1>8, <2>3, FS_Injection
  <2> QED BY <2>3, <2>4 DEF Bijection
<1>17. DOMAIN block = 1..n
  BY <1>1 DEF Block
<1>18. \A k \in 1..n : block[k].name = merged[k].name /\ block[k].scoped = merged[k].scoped
                       /\ block[k] = [name |-> merged[k].name, scoped |-> merged[k].scoped]
  BY <1>1 DEF Block, merged
<1>19. \A k \in 1..n : block[k] = active[place[k]]
  <2>1. \A i \in 1..n : active[i] \in Task
    BY <1>1
  <2>2. \A i \in 1..n : active[i] = [name |-> active[i].name, scoped |-> active[i].scoped]
    BY <2>1 DEF Task
  <2>3. \A k \in 1..n : place[k] \in 1..n /\ place[k] = merged[k].index
                        /\ merged[k].name = active[place[k]].name
                        /\ merged[k].scoped = active[place[k]].scoped
    BY <1>4, <1>14
  <2> HIDE DEF place, block
  <2> QED BY <1>18, <2>2, <2>3
<1>20. \A k, l \in 1..n :
         k < l => \/ block[k].name < block[l].name
                  \/ block[k].name = block[l].name /\ place[k] < place[l]
  <2>1. \A k \in 1..n : place[k] = merged[k].index
    OBVIOUS
  <2> HIDE DEF place, block
  <2> SUFFICES ASSUME NEW k \in 1..n, NEW l \in 1..n, k < l
               PROVE  \/ block[k].name < block[l].name
                      \/ block[k].name = block[l].name /\ place[k] < place[l]
    OBVIOUS
  <2>2. Before(merged[k], merged[l])
    BY <1>15
  <2> QED BY <1>18, <2>1, <2>2 DEF Before
<1>21. block \in Seq(Task)
  <2>1. block \in [1..n -> Task]
    <3>1. \A i \in 1..n : active[i] \in Task
      BY <1>1
    <3>2. \A k \in 1..n : place[k] \in 1..n
      BY <1>4, <1>14
    <3>3. block = [k \in 1..n |-> block[k]]
      <4>1. block = [k \in 1..Len(results) |-> [name |-> merged[k].name, scoped |-> merged[k].scoped]]
        BY DEF Block, merged
      <4> HIDE DEF block
      <4> QED BY <1>17, <4>1
    <3> HIDE DEF block, place
    <3> QED BY <1>19, <3>1, <3>2, <3>3
  <2> HIDE DEF block
  <2> QED BY <1>1, <2>1, IsSeq
<1>22. Canonical(block, active)
  <2>1. DOMAIN active = 1..n
    BY <1>1
  <2> HIDE DEF block, place
  <2> QED BY <1>16, <1>17, <1>19, <1>20, <2>1 DEF Canonical
<1> QED BY <1>21, <1>22

-----------------------------------------------------------------------------
(***************************************************************************)
(* The inbox                                                               *)
(***************************************************************************)

\* A handle's queues are sequences of messages.
LEMMA BoxTyped ==
  ASSUME NEW box \in InboxType
  PROVE  /\ box.pending \in Seq(Message) /\ box.steering \in Seq(Message)
         /\ box.followup \in Seq(Message) /\ box.injected \in Seq(Message)
         /\ \A k \in Kinds : box[k] \in Seq(Message)
         /\ box.touched \in BOOLEAN
         /\ box.cancel \in BOOLEAN \cup {None}
<1>1. /\ box.pending \in Seq(Message) /\ box.steering \in Seq(Message)
      /\ box.followup \in Seq(Message) /\ box.injected \in Seq(Message)
      /\ box.touched \in BOOLEAN
      /\ box.cancel \in BOOLEAN \cup {None}
  BY DEF InboxType
<1> QED BY <1>1 DEF Kinds

\* What a kind occupies, pending sends included.
LEMMA OccupiedTyped ==
  ASSUME NEW box \in InboxType, NEW k \in Kinds
  PROVE  /\ Occupied(box, k) \in Nat /\ Len(box[k]) \in Nat
         /\ Len(box[k]) <= Occupied(box, k)
         /\ box.pending = <<>> => Occupied(box, k) = Len(box[k])
<1>1. box.pending \in Seq(Message) /\ box[k] \in Seq(Message)
  BY BoxTyped
<1>2. /\ OfKind(box.pending, k) \in Seq(Message)
      /\ box.pending = <<>> => OfKind(box.pending, k) = <<>>
  BY <1>1, OfKindFacts
<1>3. Len(OfKind(box.pending, k)) \in Nat /\ Len(box[k]) \in Nat
  BY <1>1, <1>2
<1>4. box.pending = <<>> => Len(OfKind(box.pending, k)) = 0
  BY <1>2
<1>5. Occupied(box, k) = Len(OfKind(box.pending, k)) + Len(box[k])
  BY DEF Occupied
<1> DEFINE a == Len(OfKind(box.pending, k))
           b == Len(box[k])
<1> HIDE DEF a, b
<1>6. a \in Nat /\ b \in Nat /\ Occupied(box, k) = a + b /\ (box.pending = <<>> => a = 0)
  BY <1>3, <1>4, <1>5 DEF a, b
<1>7. /\ Occupied(box, k) \in Nat /\ b \in Nat /\ b <= Occupied(box, k)
      /\ (box.pending = <<>> => Occupied(box, k) = b)
  BY <1>6
<1> QED BY <1>7 DEF b

\* Settling moves the pending sends and keeps the count.
LEMMA SettledFacts ==
  ASSUME NEW box \in InboxType
  PROVE  /\ Settled(box) \in InboxType
         /\ Settled(box).pending = <<>>
         /\ Settled(box).touched = box.touched
         /\ Settled(box).cancel = box.cancel
         /\ \A k \in Kinds : Settled(box)[k] = box[k] \o OfKind(box.pending, k)
         /\ \A k \in Kinds : Len(Settled(box)[k]) = Occupied(box, k)
         /\ \A k \in Kinds : Occupied(Settled(box), k) = Occupied(box, k)
         /\ \A k \in Kinds :
              ToSet(Settled(box)[k]) = ToSet(box[k]) \cup {m \in ToSet(box.pending) : m.kind = k}
         /\ Queued(Settled(box)) = Queued(box) \cup ToSet(box.pending)
<1> DEFINE new == Settled(box)
<1>1. /\ box.pending \in Seq(Message) /\ box.steering \in Seq(Message)
      /\ box.followup \in Seq(Message) /\ box.injected \in Seq(Message)
      /\ \A k \in Kinds : box[k] \in Seq(Message)
  BY BoxTyped
<1>2. \A k \in Kinds :
        /\ OfKind(box.pending, k) \in Seq(Message)
        /\ ToSet(OfKind(box.pending, k)) = {m \in ToSet(box.pending) : m.kind = k}
  BY <1>1, OfKindFacts
<1>3. /\ new.pending = <<>> /\ new.touched = box.touched /\ new.cancel = box.cancel
      /\ new.steering = box.steering \o OfKind(box.pending, "steering")
      /\ new.followup = box.followup \o OfKind(box.pending, "followup")
      /\ new.injected = box.injected \o OfKind(box.pending, "injected")
  BY DEF Settled, InboxType
<1>4. \A k \in Kinds : new[k] = box[k] \o OfKind(box.pending, k)
  BY <1>3 DEF Kinds
<1>5. ASSUME NEW k \in Kinds
      PROVE  /\ new[k] \in Seq(Message)
             /\ ToSet(new[k]) = ToSet(box[k]) \cup ToSet(OfKind(box.pending, k))
  <2> DEFINE s == box[k]
             t == OfKind(box.pending, k)
  <2>1. s \in Seq(Message) /\ t \in Seq(Message) /\ new[k] = s \o t
    BY <1>1, <1>2, <1>4
  <2> HIDE DEF s, t, new
  <2>2. s \o t \in Seq(Message) /\ ToSet(s \o t) = ToSet(s) \cup ToSet(t)
    BY <2>1, SetOf
  <2> QED BY <2>1, <2>2 DEF s, t
<1>6. new \in InboxType
  <2>1. /\ box.steering \o OfKind(box.pending, "steering") \in Seq(Message)
        /\ box.followup \o OfKind(box.pending, "followup") \in Seq(Message)
        /\ box.injected \o OfKind(box.pending, "injected") \in Seq(Message)
    BY <1>3, <1>5 DEF Kinds
  <2>2. <<>> \in Seq(Message)
    OBVIOUS
  <2> QED BY <2>1, <2>2 DEF Settled, InboxType
<1>7. \A k \in Kinds : Len(new[k]) = Occupied(box, k)
  <2> SUFFICES ASSUME NEW k \in Kinds PROVE Len(new[k]) = Occupied(box, k)
    OBVIOUS
  <2>1. Len(box[k] \o OfKind(box.pending, k)) = Len(OfKind(box.pending, k)) + Len(box[k])
    <3> DEFINE s == box[k]
               t == OfKind(box.pending, k)
    <3>1. s \in Seq(Message) /\ t \in Seq(Message)
      BY <1>1, <1>2
    <3> HIDE DEF s, t
    <3>2. Len(s \o t) = Len(t) + Len(s)
      BY <3>1
    <3> QED BY <3>2 DEF s, t
  <2> QED BY <1>4, <2>1 DEF Occupied
<1> HIDE DEF new
<1>8. \A k \in Kinds : Occupied(new, k) = Occupied(box, k)
  BY <1>3, <1>6, <1>7, OccupiedTyped
<1>9. \A k \in Kinds :
        ToSet(new[k]) = ToSet(box[k]) \cup {m \in ToSet(box.pending) : m.kind = k}
  BY <1>2, <1>5
<1>10. Queued(new) = Queued(box) \cup ToSet(box.pending)
  <2>1. \A m \in ToSet(box.pending) : m.kind \in Kinds
    <3>1. ToSet(box.pending) \subseteq Message
      BY <1>1 DEF ToSet
    <3> QED BY <3>1 DEF Message
  <2>2. /\ ToSet(new.steering) = ToSet(box.steering) \cup {m \in ToSet(box.pending) : m.kind = "steering"}
        /\ ToSet(new.followup) = ToSet(box.followup) \cup {m \in ToSet(box.pending) : m.kind = "followup"}
        /\ ToSet(new.injected) = ToSet(box.injected) \cup {m \in ToSet(box.pending) : m.kind = "injected"}
    BY <1>9 DEF Kinds
  <2> QED BY <2>1, <2>2 DEF Queued, Kinds
<1> QED BY <1>3, <1>4, <1>6, <1>7, <1>8, <1>9, <1>10 DEF new

\* A handle whose queues are those of another, or some of them emptied.
Shrinks(new, box) ==
  /\ new \in InboxType
  /\ new.touched = box.touched
  /\ new.pending = box.pending \/ new.pending = <<>>
  /\ \A k \in Kinds : new[k] = box[k] \/ new[k] = <<>>

\* Emptying queues frees their places.
LEMMA ShrinksFacts ==
  ASSUME NEW box \in InboxType, NEW new, Shrinks(new, box)
  PROVE  /\ Queued(new) \subseteq Queued(box)
         /\ \A k \in Kinds : Occupied(new, k) <= Occupied(box, k)
<1>1. Queued(new) \subseteq Queued(box)
  BY SetOfNone DEF Shrinks, Kinds, Queued
<1>2. ASSUME NEW k \in Kinds PROVE Occupied(new, k) <= Occupied(box, k)
  <2>1. Len(new[k]) <= Len(box[k]) /\ Len(new[k]) \in Nat /\ Len(box[k]) \in Nat
    <3>1. new[k] \in Seq(Message) /\ box[k] \in Seq(Message)
      BY BoxTyped DEF Shrinks
    <3>2. Len(<<>>) = 0 /\ Len(new[k]) \in Nat /\ Len(box[k]) \in Nat
      BY <3>1
    <3>3. new[k] = box[k] \/ new[k] = <<>>
      BY DEF Shrinks
    <3> QED BY <3>2, <3>3
  <2>2. new \in InboxType
    BY DEF Shrinks
  <2>3. CASE new.pending = <<>>
    BY <2>1, <2>2, <2>3, OccupiedTyped
  <2>4. CASE new.pending = box.pending
    <3>1. OfKind(box.pending, k) \in Seq(Message)
      BY BoxTyped, OfKindFacts
    <3>2. Len(OfKind(box.pending, k)) \in Nat
      BY <3>1
    <3> QED BY <2>1, <2>4, <3>2 DEF Occupied
  <2> QED BY <2>3, <2>4 DEF Shrinks
<1> QED BY <1>1, <1>2

\* What a stamp preserves.
LEMMA SnapshotFacts ==
  ASSUME NEW box \in InboxType, NEW d \in Seq(Message)
  PROVE  /\ Snapshot(box, d) \in SnapshotType
         /\ box.touched => /\ Snapshot(box, d) # None
                           /\ Snapshot(box, d) \in InboxSnapshot
                           /\ Stamped(Snapshot(box, d)) = Queued(box) \cup ToSet(d)
                           /\ Snapshot(box, d).pending_delivery = d
                           /\ \A k \in Kinds : Snapshot(box, d)[k] = box[k]
         /\ ~box.touched => Snapshot(box, d) = None /\ Stamped(Snapshot(box, d)) = {}
<1> DEFINE s == [steering |-> box.steering, followup |-> box.followup,
                 injected |-> box.injected, pending_delivery |-> d]
<1>1. s \in InboxSnapshot
  BY BoxTyped DEF InboxSnapshot
<1>2. s # None
  BY <1>1
<1>3. box.touched => Snapshot(box, d) = s
  BY DEF Snapshot
<1>4. ~box.touched => Snapshot(box, d) = None
  BY DEF Snapshot
<1>5. Stamped(s) = Queued(box) \cup ToSet(d)
  BY <1>2 DEF Stamped, Queued
<1>6. \A k \in Kinds : s[k] = box[k]
  BY DEF Kinds
<1>7. s.pending_delivery = d
  OBVIOUS
<1> HIDE DEF s
<1> QED BY <1>1, <1>2, <1>3, <1>4, <1>5, <1>6, <1>7 DEF SnapshotType, Stamped

\* What a resume makes of a handle.
LEMMA SeededFacts ==
  ASSUME NEW box \in InboxType, NEW stamp \in SnapshotType
  PROVE  /\ Seeded(box, stamp) \in InboxType
         /\ box.touched \/ stamp = None => Seeded(box, stamp) = box
         /\ ~box.touched /\ stamp # None =>
              /\ Seeded(box, stamp).touched
              /\ Seeded(box, stamp).pending = box.pending
              /\ stamp \in InboxSnapshot
              /\ \A k \in Kinds : Seeded(box, stamp)[k] = stamp[k]
              /\ Queued(Seeded(box, stamp)) \cup ToSet(stamp.pending_delivery) = Stamped(stamp)
<1>1. CASE box.touched \/ stamp = None
  BY <1>1 DEF Seeded
<1>2. CASE ~box.touched /\ stamp # None
  <2> DEFINE new == [box EXCEPT !.steering = stamp.steering, !.followup = stamp.followup,
                                !.injected = stamp.injected, !.touched = TRUE]
  <2>1. Seeded(box, stamp) = new
    BY <1>2 DEF Seeded
  <2>2. stamp \in InboxSnapshot
    BY <1>2 DEF SnapshotType
  <2>3. new \in InboxType /\ new.touched /\ new.pending = box.pending
    BY <2>2 DEF InboxType, InboxSnapshot
  <2>4. new.steering = stamp.steering /\ new.followup = stamp.followup
        /\ new.injected = stamp.injected
    BY DEF InboxType
  <2> HIDE DEF new
  <2>5. \A k \in Kinds : new[k] = stamp[k]
    BY <2>4 DEF Kinds
  <2>6. Queued(new) \cup ToSet(stamp.pending_delivery) = Stamped(stamp)
    BY <1>2, <2>4 DEF Queued, Stamped
  <2> QED BY <1>2, <2>1, <2>2, <2>3, <2>5, <2>6
<1> QED BY <1>1, <1>2

-----------------------------------------------------------------------------
(***************************************************************************)
(* The inductive invariant                                                 *)
(***************************************************************************)

LEMMA LocalsTyped ==
  ASSUME NEW r \in Locals
  PROVE  /\ r.pc \in {"idle", "boundary", "step"} /\ r.state \in State
         /\ r.active \in Seq(Task) /\ r.step \in Nat /\ r.steps_run \in Nat
         /\ r.carried \in Seq(Message) /\ r.delivery \in Seq(Message)
         /\ r.results \in Seq(Result) /\ r.turn_start \in BOOLEAN
         /\ r.token \in BOOLEAN /\ r.over \in BOOLEAN
         /\ r.state.writes \in Blocks /\ r.state.seen \in Seq(Message)
<1>1. r.state \in State
  BY DEF Locals
<1>2. r.state.writes \in Blocks /\ r.state.seen \in Seq(Message)
  BY <1>1 DEF State
<1> QED BY <1>1, <1>2 DEF Locals

LEMMA HeaderTyped ==
  ASSUME NEW c \in Header
  PROVE  /\ c.step \in Nat /\ c.state \in State /\ c.next \in Seq(Nodes)
         /\ c.tasks \in Seq(Task) /\ c.stamp \in SnapshotType /\ c.prev \in Nat
         /\ c.state.writes \in Blocks /\ c.state.seen \in Seq(Message)
<1>1. c.state \in State
  BY DEF Header
<1>2. c.state.writes \in Blocks /\ c.state.seen \in Seq(Message)
  BY <1>1 DEF State
<1> QED BY <1>1, <1>2 DEF Header

LEMMA LogTyped ==
  ASSUME Typed, NEW c \in DOMAIN log
  PROVE  log[c] \in Header /\ c \in Nat /\ c # 0
BY DEF Typed

LEMMA EmptyTyped == EmptyState \in State /\ NoRun \in Locals
<1>1. EmptyState \in State
  BY DEF EmptyState, State, Blocks
<1> QED BY <1>1 DEF NoRun, Locals

\* The beginning of a loop.
LEMMA LoopFacts ==
  ASSUME NEW state \in State, NEW step \in Nat, NEW active \in Seq(Task),
         NEW carried \in Seq(Message), NEW over \in BOOLEAN
  PROVE  LET r == Loop(state, step, active, carried, over)
         IN /\ r \in Locals /\ r.pc = "boundary" /\ r.state = state /\ r.active = active
            /\ r.carried = carried /\ r.delivery = <<>> /\ r.results = <<>>
            /\ r.steps_run = 0
<1>1. <<>> \in Seq(Message) /\ <<>> \in Seq(Result) /\ 0 \in Nat
  OBVIOUS
<1> QED BY <1>1 DEF Loop, NoRun, Locals

\* mint_checkpoint.
LEMMA CheckpointFacts ==
  ASSUME Typed, NEW step \in Nat, NEW state \in State, NEW tasks \in Seq(Task),
         NEW stamp \in SnapshotType
  PROVE  LET c == Checkpoint(step, state, tasks, stamp)
         IN /\ c \in Header /\ c.state = state /\ c.next = Names(tasks) /\ c.stamp = stamp
            /\ c.prev = base
<1>1. Names(tasks) \in Seq(Nodes)
  <2>1. <<Entry>> \in Seq(Nodes)
    OBVIOUS
  <2> QED BY <2>1, TasksTyped
<1>2. base \in Nat
  BY DEF Typed
<1> QED BY <1>1, <1>2 DEF Checkpoint, Header

\* A successful put.
LEMMA PutFacts ==
  ASSUME Typed, NEW c \in Header, c.prev = base, Put(c)
  PROVE  /\ log' \in Seq(Header)
         /\ \A i \in DOMAIN log' : log'[i].prev \in 0..(i - 1)
         /\ base' \in 0..Len(log') /\ base' # 0 /\ base' \in DOMAIN log'
         /\ log'[base'] = c /\ Last(log') = c
         /\ log' # log
         /\ \A i \in DOMAIN log : i \in DOMAIN log' /\ log'[i] = log[i]
         /\ \A i \in DOMAIN log' : (i \in DOMAIN log /\ log'[i] = log[i]) \/ log'[i] = c
<1>1. log \in Seq(Header) /\ log' = Append(log, c) /\ base' = Len(log) + 1
  BY DEF Typed, Put
<1>2. Len(log) \in Nat /\ DOMAIN log = 1..Len(log)
  BY <1>1
<1>3. log' \in Seq(Header) /\ Len(log') = Len(log) + 1 /\ DOMAIN log' = 1..(Len(log) + 1)
  BY <1>1
<1>4. \A i \in 1..Len(log) : log'[i] = log[i]
  BY <1>1
<1>5. log'[Len(log) + 1] = c
  BY <1>1
<1>6. \A i \in DOMAIN log' : i \in DOMAIN log \/ i = Len(log) + 1
  BY <1>2, <1>3
<1>7. \A i \in DOMAIN log' : log'[i].prev \in 0..(i - 1)
  <2>1. \A i \in DOMAIN log : log'[i].prev \in 0..(i - 1)
    BY <1>2, <1>4 DEF Typed
  <2>2. c.prev \in 0..Len(log)
    BY DEF Typed
  <2>3. (Len(log) + 1) - 1 = Len(log)
    BY <1>2
  <2> QED BY <1>5, <1>6, <2>1, <2>2, <2>3
<1>8. Last(log') = c
  BY <1>3, <1>5 DEF Last
<1>9. log' # log
  BY <1>2, <1>3
<1>10. base' \in 0..Len(log') /\ base' # 0 /\ base' \in DOMAIN log'
  BY <1>1, <1>2, <1>3
<1>11. log'[base'] = c
  BY <1>1, <1>5
<1>12. \A i \in DOMAIN log : i \in DOMAIN log' /\ log'[i] = log[i]
  BY <1>2, <1>3, <1>4
<1>13. \A i \in DOMAIN log' : (i \in DOMAIN log /\ log'[i] = log[i]) \/ log'[i] = c
  BY <1>5, <1>6, <1>12
<1> QED BY <1>3, <1>7, <1>8, <1>9, <1>10, <1>11, <1>12, <1>13

\* A run that ends leaves nothing but its handle and its checkpoints.
LEMMA Returned ==
  ASSUME Typed', run' = NoRun,
         ~inbox'.touched => inbox'.pending = <<>> /\ Queued(inbox') = {},
         Bounded'
  PROVE  IInv'
<1>1. /\ run'.pc = "idle" /\ run'.delivery = <<>> /\ run'.results = <<>>
      /\ run'.carried = <<>> /\ run'.steps_run = 0
  BY DEF NoRun
<1>2. Placed'
  BY <1>1 DEF Placed
<1>3. Joined'
  BY <1>1 DEF Joined, Joins
<1>4. Fresh'
  BY <1>1, SetOfNone DEF Fresh, Held
<1>5. Accounted'
  BY <1>1 DEF Accounted, Live
<1> QED BY <1>2, <1>3, <1>4, <1>5 DEF IInv

LEMMA InitIInv == Init => IInv
<1> SUFFICES ASSUME Init PROVE IInv
  OBVIOUS
<1>1. inbox = FreshInbox /\ run = NoRun /\ log = <<>> /\ base = 0 /\ sent = 0
  BY DEF Init
<1>2. FreshInbox \in InboxType
  BY DEF FreshInbox, InboxType
<1>3. Typed
  BY <1>1, <1>2, EmptyTyped DEF Typed
<1>4. /\ run.pc = "idle" /\ run.delivery = <<>> /\ run.results = <<>>
      /\ run.carried = <<>> /\ run.steps_run = 0
  BY <1>1 DEF NoRun
<1>5. Placed
  BY <1>1, <1>4 DEF Placed
<1>6. Joined
  BY <1>4 DEF Joined, Joins
<1>7. Fresh
  BY <1>1, <1>4, SetOfNone DEF Fresh, Held, Queued, FreshInbox
<1>8. Accounted
  BY <1>4 DEF Accounted, Live
<1>9. Bounded
  <2>1. \A k \in Kinds : FreshInbox[k] = <<>> /\ FreshInbox.pending = <<>>
    BY DEF FreshInbox, Kinds
  <2>2. \A k \in Kinds : Occupied(FreshInbox, k) = 0
    BY <1>2, <2>1, OccupiedTyped
  <2> QED BY <1>1, <2>2 DEF Bounded
<1> QED BY <1>3, <1>5, <1>6, <1>7, <1>8, <1>9 DEF IInv

\* A put of a bounded snapshot keeps all stamps bounded.
LEMMA StampsBounded ==
  ASSUME Typed, Bounded, NEW c \in Header, c.prev = base, Put(c),
         NEW box \in InboxType, NEW d \in Seq(Message), c.stamp = Snapshot(box, d),
         \A k \in Kinds : Occupied(box, k) <= MaxQueue
  PROVE  \A i \in DOMAIN log' : log'[i].stamp # None =>
           \A k \in Kinds : Len(log'[i].stamp[k]) <= MaxQueue
<1>1. ASSUME c.stamp # None, NEW k \in Kinds PROVE Len(c.stamp[k]) <= MaxQueue
  <2>1. box.touched
    BY <1>1, SnapshotFacts, BoxTyped
  <2>2. c.stamp[k] = box[k]
    BY <2>1, SnapshotFacts
  <2>3. Len(box[k]) <= Occupied(box, k) /\ Len(box[k]) \in Nat /\ Occupied(box, k) \in Nat
    BY OccupiedTyped
  <2>4. Len(box[k]) <= MaxQueue
    BY <2>3
  <2> QED BY <2>2, <2>4
<1>2. \A i \in DOMAIN log' : (i \in DOMAIN log /\ log'[i] = log[i]) \/ log'[i] = c
  BY PutFacts
<1> QED BY <1>1, <1>2 DEF Bounded

\* The environment keeps the invariant.
LEMMA StartIInv == IInv /\ Start => IInv'
<1> SUFFICES ASSUME IInv, Start PROVE IInv'
  OBVIOUS
<1>1. /\ run' = Loop(EmptyState, 0, Plain(<<Entry>>), <<>>, FALSE)
      /\ base' = 0 /\ log' = log /\ inbox' = inbox /\ sent' = sent
  BY DEF Start
<1>2. Plain(<<Entry>>) \in Seq(Task) /\ Names(Plain(<<Entry>>)) = <<Entry>>
  <2>1. <<Entry>> \in Seq(Nodes) /\ <<>> \in Seq(Task)
    OBVIOUS
  <2> QED BY <2>1, TasksTyped
<1>3. /\ run' \in Locals /\ run'.pc = "boundary" /\ run'.state = EmptyState
      /\ run'.active = Plain(<<Entry>>) /\ run'.carried = <<>> /\ run'.delivery = <<>>
      /\ run'.results = <<>> /\ run'.steps_run = 0
  <2>1. <<>> \in Seq(Message) /\ <<>> \in Seq(Result) /\ 0 \in Nat /\ EmptyState \in State
    BY EmptyTyped
  <2> QED BY <1>1, <1>2, <2>1 DEF Loop, NoRun, Locals
<1>4. Typed'
  <2>1. base' \in 0..Len(log')
    <3>1. Len(log) \in Nat
      BY DEF IInv, Typed
    <3> QED BY <1>1, <3>1
  <2> QED BY <1>1, <1>3, <2>1 DEF IInv, Typed
<1>5. Placed'
  <2>1. BaseState' = EmptyState /\ BaseNext' = <<Entry>>
    BY <1>1 DEF BaseState, BaseNext
  <2>2. Names(run'.active) = <<Entry>>
    BY <1>2, <1>3
  <2> QED BY <1>3, <2>1, <2>2 DEF Placed
<1>6. Joined'
  BY <1>3 DEF Joined, Joins
<1>7. Held' = {}
  BY <1>3, SetOfNone DEF Held
<1>8. Fresh'
  BY <1>1, <1>7 DEF IInv, Fresh
<1>9. Bounded'
  BY <1>1 DEF IInv, Bounded
<1>10. Accounted'
  BY <1>1 DEF Accounted, BaseStamp, Stamped
<1> QED BY <1>4, <1>5, <1>6, <1>8, <1>9, <1>10 DEF IInv

LEMMA ResumeIInv ==
  ASSUME IInv, NEW c \in DOMAIN log, NEW over \in BOOLEAN, Resume(c, over)
  PROVE  IInv'
<1> DEFINE box == Seeded(inbox, log[c].stamp)
           carried == Carried(log[c])
<1>1. /\ inbox' = box /\ base' = c /\ log' = log /\ sent' = sent
      /\ run' = IF log[c].next = <<>> THEN NoRun
                ELSE Loop(log[c].state, log[c].step, Restored(log[c]), carried, over)
      /\ forfeited' = forfeited \cup (Stamped(log[c].stamp) \ (Queued(box) \cup ToSet(carried)))
      /\ dropped' = dropped
  BY DEF Resume
<1>2. /\ log[c] \in Header /\ c \in Nat /\ c # 0
      /\ log[c].state \in State /\ log[c].step \in Nat /\ log[c].next \in Seq(Nodes)
      /\ log[c].stamp \in SnapshotType
  BY LogTyped, HeaderTyped DEF IInv
<1>3. inbox \in InboxType /\ (~inbox.touched => inbox.pending = <<>> /\ Queued(inbox) = {})
  BY DEF IInv, Typed, Fresh
<1>4. /\ box \in InboxType
      /\ inbox.touched \/ log[c].stamp = None => box = inbox
      /\ ~inbox.touched /\ log[c].stamp # None =>
           /\ box.touched /\ box.pending = inbox.pending
           /\ log[c].stamp \in InboxSnapshot
           /\ \A k \in Kinds : box[k] = log[c].stamp[k]
  BY <1>2, <1>3, SeededFacts
<1>5. carried \in Seq(Message) /\ (inbox.touched \/ log[c].stamp = None => carried = <<>>)
  <2>1. log[c].stamp \in InboxSnapshot => log[c].stamp.pending_delivery \in Seq(Message)
    BY DEF InboxSnapshot
  <2>2. <<>> \in Seq(Message)
    OBVIOUS
  <2> QED BY <1>3, <1>4, <2>1, <2>2, BoxTyped DEF Carried
<1>6. Restored(log[c]) \in Seq(Task) /\ Names(Restored(log[c])) = log[c].next
  <2>1. <<>> \in Seq(Task)
    OBVIOUS
  <2> QED BY <1>2, <2>1, TasksTyped DEF Restored
<1> HIDE DEF box, carried
<1>7. run' \in Locals
  BY <1>1, <1>2, <1>5, <1>6, LoopFacts, EmptyTyped
<1>8. Typed'
  BY <1>1, <1>4, <1>7 DEF IInv, Typed
<1>9. ~box.touched => /\ box.pending = <<>> /\ Queued(box) = {} /\ carried = <<>>
  BY <1>3, <1>4, <1>5, BoxTyped
<1>10. Bounded'
  <2>1. ASSUME NEW k \in Kinds PROVE Occupied(box, k) <= MaxQueue
    <3>1. CASE box = inbox
      BY <3>1 DEF IInv, Bounded
    <3>2. CASE ~inbox.touched /\ log[c].stamp # None
      <4>1. Occupied(box, k) = Len(box[k])
        BY <1>3, <1>4, <3>2, OccupiedTyped
      <4>2. Len(log[c].stamp[k]) <= MaxQueue
        BY <3>2 DEF IInv, Bounded
      <4> QED BY <1>4, <3>2, <4>1, <4>2
    <3> QED BY <1>3, <1>4, <3>1, <3>2, BoxTyped
  <2> QED BY <1>1, <2>1 DEF IInv, Bounded
<1>11. CASE log[c].next = <<>>
  BY <1>1, <1>8, <1>9, <1>10, <1>11, Returned
<1>12. CASE log[c].next # <<>>
  <2>1. /\ run'.pc = "boundary" /\ run'.state = log[c].state
        /\ run'.active = Restored(log[c]) /\ run'.carried = carried /\ run'.delivery = <<>>
        /\ run'.results = <<>> /\ run'.steps_run = 0
    BY <1>1, <1>2, <1>5, <1>6, <1>12, LoopFacts
  <2>2. Placed'
    BY <1>1, <1>2, <1>6, <2>1 DEF Placed, BaseState, BaseNext
  <2>3. Joined'
    BY <2>1 DEF Joined, Joins
  <2>4. Held' = ToSet(carried)
    BY <2>1, SetOfNone DEF Held
  <2>5. Fresh'
    BY <1>1, <1>9, <2>4, SetOfNone DEF Fresh
  <2>6. Accounted'
    BY <1>1, <1>2, <2>4 DEF Accounted, BaseStamp
  <2> QED BY <1>8, <1>10, <2>2, <2>3, <2>5, <2>6 DEF IInv
<1> QED BY <1>11, <1>12

LEMMA SendIInv ==
  ASSUME IInv, NEW k \in Kinds, Send(k)
  PROVE  IInv'
<1> DEFINE m == [id |-> sent + 1, kind |-> k]
           box == Sent(inbox, m)
<1>1. /\ inbox' = box /\ sent' = sent + 1 /\ log' = log /\ base' = base /\ run' = run
      /\ dropped' = dropped /\ forfeited' = forfeited
      /\ CanSend(inbox, k)
  BY DEF Send
<1>2. inbox \in InboxType /\ sent \in Nat /\ m \in Message
  BY DEF IInv, Typed, Message
<1>3. inbox.pending \in Seq(Message) /\ \A l \in Kinds : inbox[l] \in Seq(Message)
  BY <1>2, BoxTyped
<1>4. Append(inbox.pending, m) \in Seq(Message)
  BY <1>2, <1>3
<1>5. /\ box \in InboxType /\ box.touched /\ box.pending = Append(inbox.pending, m)
      /\ box.steering = inbox.steering /\ box.followup = inbox.followup
      /\ box.injected = inbox.injected
  BY <1>2, <1>4 DEF Sent, InboxType
<1>6. m.kind = k
  OBVIOUS
<1> HIDE DEF m, box
<1>7. (\A l \in Kinds : box[l] = inbox[l]) /\ Queued(box) = Queued(inbox)
  BY <1>5 DEF Kinds, Queued
<1>8. ASSUME NEW l \in Kinds PROVE Occupied(box, l) <= MaxQueue
  <2> DEFINE a == Len(OfKind(inbox.pending, l))
             b == Len(inbox[l])
             e == IF k = l THEN 1 ELSE 0
  <2>1. a \in Nat /\ Len(OfKind(box.pending, l)) = a + e
    BY <1>2, <1>3, <1>5, <1>6, OfKindAppend
  <2>2. b \in Nat
    BY <1>2, OccupiedTyped
  <2>3. Occupied(box, l) = a + e + b
    BY <1>7, <2>1 DEF Occupied
  <2>4. a + b <= MaxQueue /\ (k = l => a + b < MaxQueue)
    BY <1>1 DEF CanSend, Occupied, IInv, Bounded
  <2> HIDE DEF a, b
  <2> QED BY <2>1, <2>2, <2>3, <2>4
<1>9. Typed'
  BY <1>1, <1>2, <1>5 DEF IInv, Typed
<1>10. Placed' /\ Joined'
  BY <1>1 DEF IInv, Placed, Joined, Joins, BaseState, BaseNext
<1>11. Fresh'
  BY <1>1, <1>5 DEF Fresh
<1>12. Bounded'
  BY <1>1, <1>8 DEF IInv, Bounded
<1>13. Accounted'
  BY <1>1, <1>7 DEF IInv, Accounted, BaseStamp, Held, Live
<1> QED BY <1>9, <1>10, <1>11, <1>12, <1>13 DEF IInv

LEMMA CancelIInv ==
  ASSUME IInv, NEW keep \in BOOLEAN, Cancel(keep)
  PROVE  IInv'
<1> DEFINE box == Cancelled(inbox, keep)
<1>1. /\ inbox' = box /\ sent' = sent /\ log' = log /\ base' = base /\ run' = run
      /\ dropped' = dropped /\ forfeited' = forfeited
  BY DEF Cancel
<1>2. inbox \in InboxType
  BY DEF IInv, Typed
<1>3. /\ box \in InboxType /\ box.touched = inbox.touched /\ box.pending = inbox.pending
      /\ box.steering = inbox.steering /\ box.followup = inbox.followup
      /\ box.injected = inbox.injected
  BY <1>2 DEF Cancelled, InboxType
<1> HIDE DEF box
<1>4. (\A l \in Kinds : box[l] = inbox[l]) /\ Queued(box) = Queued(inbox)
  BY <1>3 DEF Kinds, Queued
<1>5. \A l \in Kinds : Occupied(box, l) = Occupied(inbox, l)
  BY <1>3, <1>4 DEF Occupied
<1>6. Typed'
  BY <1>1, <1>3 DEF IInv, Typed
<1>7. Placed' /\ Joined'
  BY <1>1 DEF IInv, Placed, Joined, Joins, BaseState, BaseNext
<1>8. Fresh'
  BY <1>1, <1>3, <1>4 DEF IInv, Fresh, Held
<1>9. Bounded'
  BY <1>1, <1>5 DEF IInv, Bounded
<1>10. Accounted'
  BY <1>1, <1>4 DEF IInv, Accounted, BaseStamp, Held, Live
<1> QED BY <1>6, <1>7, <1>8, <1>9, <1>10 DEF IInv

LEMMA DrainIInv == IInv /\ Drain => IInv'
<1> SUFFICES ASSUME IInv, Drain PROVE IInv'
  OBVIOUS
<1>1. /\ inbox' = inbox /\ sent' = sent /\ log' = log /\ base' = base
      /\ run' = [run EXCEPT !.token = TRUE] /\ Live
      /\ dropped' = dropped /\ forfeited' = forfeited
  BY DEF Drain
<1>2. /\ run' \in Locals /\ run'.pc = run.pc /\ run'.state = run.state
      /\ run'.active = run.active /\ run'.carried = run.carried
      /\ run'.delivery = run.delivery /\ run'.results = run.results
      /\ run'.steps_run = run.steps_run
  BY <1>1 DEF IInv, Typed, Locals
<1>3. Typed'
  BY <1>1, <1>2 DEF IInv, Typed
<1>4. Placed' /\ Joined'
  BY <1>1, <1>2 DEF IInv, Placed, Joined, Joins, BaseState, BaseNext, Live
<1>5. Fresh' /\ Bounded'
  BY <1>1, <1>2 DEF IInv, Fresh, Bounded, Held
<1>6. Accounted'
  BY <1>1, <1>2 DEF IInv, Accounted, BaseStamp, Held, Live
<1> QED BY <1>3, <1>4, <1>5, <1>6 DEF IInv

LEMMA FreshFacts ==
  /\ FreshInbox \in InboxType
  /\ FreshInbox.pending = <<>> /\ Queued(FreshInbox) = {}
  /\ \A k \in Kinds : FreshInbox[k] = <<>> /\ Occupied(FreshInbox, k) <= MaxQueue
<1>1. FreshInbox \in InboxType
  BY DEF FreshInbox, InboxType
<1>2. \A k \in Kinds : FreshInbox[k] = <<>> /\ FreshInbox.pending = <<>>
  BY DEF FreshInbox, Kinds
<1>3. \A k \in Kinds : Occupied(FreshInbox, k) = 0
  BY <1>1, <1>2, OccupiedTyped
<1>4. FreshInbox.pending = <<>> /\ Queued(FreshInbox) = {}
  BY SetOfNone DEF FreshInbox, Queued
<1> QED BY <1>1, <1>2, <1>3, <1>4

\* A new handle, between two runs or after a crash.
LEMMA HandleIInv == IInv /\ (NewHandle \/ Crash) => IInv'
<1> SUFFICES ASSUME IInv, NewHandle \/ Crash PROVE IInv'
  OBVIOUS
<1>1. inbox' = FreshInbox /\ sent' = sent /\ log' = log /\ base' = base
  BY DEF NewHandle, Crash
<1>2. run' = NoRun
  BY DEF NewHandle, Crash, Return, Live, IInv, Placed
<1>3. Typed'
  BY <1>1, <1>2, FreshFacts, EmptyTyped DEF IInv, Typed
<1>4. Bounded'
  BY <1>1, FreshFacts DEF IInv, Bounded
<1> QED BY <1>1, <1>2, <1>3, <1>4, FreshFacts, Returned

\* What the two action properties say of one step.
WholeStep ==
  log' # log =>
    \/ Last(log').state = BaseState /\ Last(log').next = BaseNext
    \/ /\ Last(log').state.writes # <<>>
       /\ Front(Last(log').state.writes) = BaseState.writes
       /\ BaseNext = Names(run.active)
       /\ Canonical(Last(Last(log').state.writes), run.active)

CompleteStep ==
  log' # log =>
    Queued(inbox) \cup Held \cup Stamped(BaseStamp) \subseteq
      Stamped(Last(log').stamp) \cup ToSet(Last(log').state.seen) \cup dropped' \cup forfeited'

StepOK == IInv' /\ WholeStep /\ CompleteStep

\* The handle without its latched cancellation, and the handle cleared.
LEMMA UncancelFacts ==
  ASSUME NEW box \in InboxType
  PROVE  LET new == [box EXCEPT !.cancel = None]
         IN /\ new \in InboxType /\ new.pending = box.pending /\ new.touched = box.touched
            /\ \A k \in Kinds : new[k] = box[k] /\ Occupied(new, k) = Occupied(box, k)
            /\ Queued(new) = Queued(box)
<1> DEFINE new == [box EXCEPT !.cancel = None]
<1>1. /\ new \in InboxType /\ new.pending = box.pending /\ new.touched = box.touched
      /\ new.steering = box.steering /\ new.followup = box.followup
      /\ new.injected = box.injected
  BY DEF InboxType
<1> HIDE DEF new
<1>2. \A k \in Kinds : new[k] = box[k]
  BY <1>1 DEF Kinds
<1>3. \A k \in Kinds : Occupied(new, k) = Occupied(box, k)
  BY <1>1, <1>2 DEF Occupied
<1>4. Queued(new) = Queued(box)
  BY <1>1 DEF Queued
<1> QED BY <1>1, <1>2, <1>3, <1>4 DEF new

LEMMA ClearedFacts ==
  ASSUME NEW box \in InboxType
  PROVE  /\ Cleared(box) \in InboxType /\ Cleared(box).pending = <<>>
         /\ Cleared(box).touched = box.touched
         /\ \A k \in Kinds : Cleared(box)[k] = <<>> /\ Occupied(Cleared(box), k) = 0
         /\ Queued(Cleared(box)) = {}
<1> DEFINE new == Cleared(box)
<1>1. /\ new \in InboxType /\ new.pending = <<>> /\ new.touched = box.touched
      /\ new.steering = <<>> /\ new.followup = <<>> /\ new.injected = <<>>
  <2>1. <<>> \in Seq(Message)
    OBVIOUS
  <2> QED BY <2>1 DEF Cleared, InboxType
<1> HIDE DEF new
<1>2. \A k \in Kinds : new[k] = <<>>
  BY <1>1 DEF Kinds
<1>3. \A k \in Kinds : Occupied(new, k) = 0
  BY <1>1, <1>2, OccupiedTyped
<1>4. Queued(new) = {}
  BY <1>1, SetOfNone DEF Queued
<1> QED BY <1>1, <1>2, <1>3, <1>4 DEF new

\* The handle a cancellation leaves.
LEMMA CancelBox ==
  ASSUME IInv, NEW keep \in BOOLEAN
  PROVE  LET settled == [Settled(inbox) EXCEPT !.cancel = None]
             box == IF keep THEN settled ELSE Cleared(settled)
         IN /\ settled \in InboxType /\ box \in InboxType
            /\ box.touched = inbox.touched /\ box.pending = <<>>
            /\ Queued(settled) = Queued(inbox) \cup ToSet(inbox.pending)
            /\ Queued(box) = IF keep THEN Queued(settled) ELSE {}
            /\ \A k \in Kinds : Occupied(box, k) <= MaxQueue
            /\ \A k \in Kinds : box[k] = Settled(inbox)[k] \/ box[k] = <<>>
<1> DEFINE settled == [Settled(inbox) EXCEPT !.cancel = None]
           cleared == Cleared(settled)
<1>1. inbox \in InboxType /\ \A k \in Kinds : Occupied(inbox, k) <= MaxQueue
  BY DEF IInv, Typed, Bounded
<1>2. /\ Settled(inbox) \in InboxType /\ Settled(inbox).pending = <<>>
      /\ Settled(inbox).touched = inbox.touched
      /\ Queued(Settled(inbox)) = Queued(inbox) \cup ToSet(inbox.pending)
      /\ \A k \in Kinds : Occupied(Settled(inbox), k) = Occupied(inbox, k)
  BY <1>1, SettledFacts
<1>3. /\ settled \in InboxType /\ settled.pending = <<>> /\ settled.touched = inbox.touched
      /\ Queued(settled) = Queued(inbox) \cup ToSet(inbox.pending)
      /\ \A k \in Kinds : Occupied(settled, k) = Occupied(inbox, k)
      /\ \A k \in Kinds : settled[k] = Settled(inbox)[k]
  BY <1>2, UncancelFacts
<1> HIDE DEF settled
<1>4. /\ cleared \in InboxType /\ cleared.pending = <<>> /\ cleared.touched = inbox.touched
      /\ Queued(cleared) = {}
      /\ \A k \in Kinds : cleared[k] = <<>> /\ Occupied(cleared, k) <= MaxQueue
  BY <1>3, ClearedFacts
<1> HIDE DEF cleared
<1>5. CASE keep
  BY <1>1, <1>3, <1>5 DEF settled
<1>6. CASE ~keep
  BY <1>3, <1>4, <1>6 DEF settled, cleared
<1> QED BY <1>5, <1>6

\* What a live run holds, from the invariant.
LEMMA LiveFacts ==
  ASSUME IInv
  PROVE  /\ run \in Locals /\ inbox \in InboxType
         /\ ~inbox.touched => inbox.pending = <<>> /\ Queued(inbox) = {} /\ Held = {}
         /\ \A k \in Kinds : Occupied(inbox, k) <= MaxQueue
         /\ run.pc # "idle" => run.state = BaseState /\ Names(run.active) = BaseNext
         /\ run.pc # "idle" => Stamped(BaseStamp) \subseteq Queued(inbox) \cup Held
              \cup ToSet(run.state.seen) \cup dropped \cup forfeited
         /\ run.pc = "boundary" => Held = ToSet(run.carried)
         /\ run.pc = "step" => Held = ToSet(run.delivery)
BY SetOfNone DEF IInv, Typed, Placed, Fresh, Bounded, Accounted, Held, Live

\* The checkpoints of the boundary.
LEMMA CeilingStep == IInv /\ Ceiling => StepOK
<1> SUFFICES ASSUME IInv, Ceiling PROVE StepOK
  OBVIOUS
<1> DEFINE stamp == Snapshot(inbox, <<>>)
           c == Checkpoint(run.step, run.state, run.active, stamp)
<1>1. /\ run.pc = "boundary" /\ Put(c) /\ run' = NoRun
      /\ forfeited' = forfeited \cup ToSet(run.carried)
      /\ inbox' = inbox /\ dropped' = dropped /\ sent' = sent
  BY DEF Ceiling, Return
<1>2. PICK none \in Seq(Message) : none = <<>>
  <2>1. <<>> \in Seq(Message)
    OBVIOUS
  <2> QED BY <2>1
<1>3. stamp = Snapshot(inbox, none) /\ ToSet(none) = {}
  BY <1>2, SetOfNone
<1>4. /\ stamp \in SnapshotType
      /\ inbox.touched => Stamped(stamp) = Queued(inbox)
  <2>1. inbox \in InboxType
    BY LiveFacts
  <2>2. /\ Snapshot(inbox, none) \in SnapshotType
        /\ inbox.touched => Stamped(Snapshot(inbox, none)) = Queued(inbox) \cup ToSet(none)
    BY <2>1, SnapshotFacts
  <2> QED BY <1>3, <2>2
<1> HIDE DEF stamp
<1>5. c \in Header /\ c.state = run.state /\ c.next = Names(run.active) /\ c.stamp = stamp
      /\ c.prev = base
  BY <1>4, LiveFacts, LocalsTyped, CheckpointFacts DEF IInv
<1> HIDE DEF c
<1>6. /\ log' \in Seq(Header) /\ \A i \in DOMAIN log' : log'[i].prev \in 0..(i - 1)
      /\ base' \in 0..Len(log') /\ Last(log') = c
  BY <1>1, <1>5, PutFacts DEF IInv
<1>7. Typed'
  BY <1>1, <1>6, EmptyTyped DEF IInv, Typed
<1>8. Bounded'
  <2>1. \A i \in DOMAIN log' : log'[i].stamp # None =>
          \A k \in Kinds : Len(log'[i].stamp[k]) <= MaxQueue
    BY <1>1, <1>3, <1>5, LiveFacts, StampsBounded DEF IInv
  <2> QED BY <1>1, <2>1, LiveFacts DEF Bounded
<1>9. IInv'
  BY <1>1, <1>7, <1>8, LiveFacts, Returned
<1>10. WholeStep
  BY <1>1, <1>5, <1>6, LiveFacts DEF WholeStep
<1>11. CompleteStep
  <2>1. Queued(inbox) \subseteq Stamped(stamp)
    BY <1>4, LiveFacts, BoxTyped
  <2> QED BY <1>1, <1>5, <1>6, <2>1, LiveFacts DEF CompleteStep
<1> QED BY <1>9, <1>10, <1>11 DEF StepOK

LEMMA TypedCancelStep == IInv /\ TypedCancel => StepOK
<1> SUFFICES ASSUME IInv, TypedCancel PROVE StepOK
  OBVIOUS
<1> DEFINE settled == [Settled(inbox) EXCEPT !.cancel = None]
           box == IF inbox.cancel THEN settled ELSE Cleared(settled)
           delivery == IF inbox.cancel THEN run.carried ELSE <<>>
           stamp == Snapshot(box, delivery)
           c == Checkpoint(run.step, run.state, run.active, stamp)
<1>1. /\ run.pc = "boundary" /\ Put(c) /\ run' = NoRun
      /\ inbox.cancel # None
      /\ forfeited' = forfeited /\ inbox' = box /\ sent' = sent
      /\ dropped' = IF inbox.cancel THEN dropped
                    ELSE dropped \cup Queued(settled) \cup ToSet(run.carried)
  BY DEF TypedCancel, Return
<1>2. inbox.cancel \in BOOLEAN
  BY <1>1, LiveFacts, BoxTyped
<1>3. /\ box \in InboxType /\ box.touched = inbox.touched /\ box.pending = <<>>
      /\ Queued(settled) = Queued(inbox) \cup ToSet(inbox.pending)
      /\ Queued(box) = IF inbox.cancel THEN Queued(settled) ELSE {}
      /\ \A k \in Kinds : Occupied(box, k) <= MaxQueue
  BY <1>2, CancelBox
<1> HIDE DEF settled, box
<1>4. delivery \in Seq(Message) /\ (~inbox.cancel => ToSet(delivery) = {})
      /\ (inbox.cancel => delivery = run.carried)
  <2>1. <<>> \in Seq(Message)
    OBVIOUS
  <2> QED BY <1>2, <2>1, LiveFacts, LocalsTyped, SetOfNone
<1> HIDE DEF delivery
<1>5. /\ stamp \in SnapshotType
      /\ box.touched => Stamped(stamp) = Queued(box) \cup ToSet(delivery)
  BY <1>3, <1>4, SnapshotFacts
<1>6. c \in Header /\ c.state = run.state /\ c.next = Names(run.active) /\ c.stamp = stamp
      /\ c.prev = base
  <2> HIDE DEF stamp
  <2> QED BY <1>5, LiveFacts, LocalsTyped, CheckpointFacts DEF IInv
<1> HIDE DEF c
<1>7. /\ log' \in Seq(Header) /\ \A i \in DOMAIN log' : log'[i].prev \in 0..(i - 1)
      /\ base' \in 0..Len(log') /\ Last(log') = c
  BY <1>1, <1>6, PutFacts DEF IInv
<1>8. Typed'
  BY <1>1, <1>3, <1>7, EmptyTyped DEF IInv, Typed
<1>9. Bounded'
  <2>1. \A i \in DOMAIN log' : log'[i].stamp # None =>
          \A k \in Kinds : Len(log'[i].stamp[k]) <= MaxQueue
    BY <1>1, <1>3, <1>4, <1>6, StampsBounded DEF IInv
  <2> QED BY <1>1, <1>3, <2>1 DEF Bounded
<1> HIDE DEF stamp
<1>10. ~inbox.touched => Queued(box) = {}
  <2>1. ~inbox.touched => Queued(inbox) = {} /\ ToSet(inbox.pending) = {}
    BY LiveFacts, SetOfNone
  <2> QED BY <1>2, <1>3, <2>1
<1>11. IInv'
  BY <1>1, <1>3, <1>8, <1>9, <1>10, Returned
<1>12. WholeStep
  BY <1>1, <1>6, <1>7, LiveFacts DEF WholeStep
<1>13. CompleteStep
  <2>1. Queued(inbox) \cup ToSet(run.carried) \subseteq Stamped(stamp) \cup dropped'
    <3>1. CASE inbox.cancel
      <4>1. CASE inbox.touched
        BY <1>3, <1>4, <1>5, <3>1, <4>1
      <4>2. CASE ~inbox.touched
        BY <1>1, <4>2, LiveFacts
      <4> QED BY <4>1, <4>2, LiveFacts, BoxTyped
    <3>2. CASE ~inbox.cancel
      BY <1>1, <1>3, <3>2
    <3> QED BY <1>2, <3>1, <3>2
  <2>2. dropped \subseteq dropped'
    BY <1>1, <1>2
  <2> QED BY <1>1, <1>6, <1>7, <2>1, <2>2, LiveFacts DEF CompleteStep
<1> QED BY <1>11, <1>12, <1>13 DEF StepOK

LEMMA BoundaryPutFailsIInv == IInv /\ BoundaryPutFails => IInv'
<1> SUFFICES ASSUME IInv, BoundaryPutFails PROVE IInv'
  OBVIOUS
<1> DEFINE settled == [Settled(inbox) EXCEPT !.cancel = None]
           box == IF inbox.cancel THEN settled ELSE Cleared(settled)
<1>1. /\ run' = NoRun /\ sent' = sent /\ log' = log /\ base' = base
      /\ inbox' = inbox \/ (inbox.cancel # None /\ inbox' = box)
  BY DEF BoundaryPutFails, Return
<1>2. CASE inbox' = inbox
  BY <1>1, <1>2, EmptyTyped, LiveFacts, Returned DEF IInv, Typed, Bounded
<1>3. CASE inbox.cancel # None /\ inbox' = box
  <2>1. inbox.cancel \in BOOLEAN
    BY <1>3, LiveFacts, BoxTyped
  <2>2. /\ box \in InboxType /\ box.touched = inbox.touched /\ box.pending = <<>>
        /\ Queued(settled) = Queued(inbox) \cup ToSet(inbox.pending)
        /\ Queued(box) = IF inbox.cancel THEN Queued(settled) ELSE {}
        /\ \A k \in Kinds : Occupied(box, k) <= MaxQueue
    BY <2>1, CancelBox
  <2> HIDE DEF settled, box
  <2>3. ~inbox.touched => Queued(box) = {}
    <3>1. ~inbox.touched => Queued(inbox) = {} /\ ToSet(inbox.pending) = {}
      BY LiveFacts, SetOfNone
    <3> QED BY <2>1, <2>2, <3>1
  <2>4. Typed' /\ Bounded'
    BY <1>1, <1>3, <2>2, EmptyTyped DEF IInv, Typed, Bounded
  <2> QED BY <1>1, <1>3, <2>2, <2>3, <2>4, Returned
<1> QED BY <1>1, <1>2, <1>3

\* What wakes the staged injections.
Woken(box) == run.turn_start \/ run.carried # <<>> \/ box.steering # <<>>

\* A batch leaves the handle: nothing is lost, nothing is in both.
LEMMA BatchFacts ==
  ASSUME run \in Locals, NEW box \in InboxType
  PROVE  /\ Batch(box) \in Seq(Message)
         /\ Batch(box) = run.carried \o box.steering \o (IF Woken(box) THEN box.injected ELSE <<>>)
         /\ Shrinks(Drained(box), box)
         /\ Drained(box).pending = box.pending
         /\ Drained(box).steering = <<>> /\ Drained(box).followup = box.followup
         /\ Drained(box).injected = IF Woken(box) THEN <<>> ELSE box.injected
         /\ ToSet(Batch(box)) = ToSet(run.carried) \cup ToSet(box.steering)
              \cup (IF Woken(box) THEN ToSet(box.injected) ELSE {})
         /\ Queued(Drained(box)) \cup ToSet(Batch(box)) = Queued(box) \cup ToSet(run.carried)
<1> DEFINE rest == IF Woken(box) THEN box.injected ELSE <<>>
           new == Drained(box)
<1>1. /\ box.steering \in Seq(Message) /\ box.injected \in Seq(Message)
      /\ run.carried \in Seq(Message) /\ rest \in Seq(Message) /\ <<>> \in Seq(Message)
  BY BoxTyped, LocalsTyped
<1>2. Batch(box) = run.carried \o box.steering \o rest
  BY DEF Batch, Woken
<1>3. ToSet(rest) = IF Woken(box) THEN ToSet(box.injected) ELSE {}
  BY SetOfNone
<1>4. /\ new \in InboxType /\ new.touched = box.touched /\ new.pending = box.pending
      /\ new.steering = <<>> /\ new.followup = box.followup
      /\ new.injected = IF Woken(box) THEN <<>> ELSE box.injected
  BY <1>1 DEF Drained, Woken, InboxType
<1> HIDE DEF rest, new
<1>5. /\ run.carried \o box.steering \in Seq(Message)
      /\ ToSet(run.carried \o box.steering) = ToSet(run.carried) \cup ToSet(box.steering)
  BY <1>1, SetOf
<1>6. /\ Batch(box) \in Seq(Message)
      /\ ToSet(Batch(box)) = ToSet(run.carried) \cup ToSet(box.steering) \cup ToSet(rest)
  <2> DEFINE front == run.carried \o box.steering
  <2> HIDE DEF front
  <2>1. front \in Seq(Message) /\ Batch(box) = front \o rest
    BY <1>2, <1>5 DEF front
  <2>2. front \o rest \in Seq(Message) /\ ToSet(front \o rest) = ToSet(front) \cup ToSet(rest)
    BY <1>1, <2>1, SetOf
  <2> QED BY <1>5, <2>1, <2>2 DEF front
<1>7. Shrinks(new, box)
  BY <1>4 DEF Shrinks, Kinds
<1>8. Queued(new) \cup ToSet(Batch(box)) = Queued(box) \cup ToSet(run.carried)
  <2>1. Queued(new) = ToSet(box.followup) \cup (IF Woken(box) THEN {} ELSE ToSet(box.injected))
    BY <1>4, SetOfNone DEF Queued
  <2> QED BY <1>3, <1>6, <2>1 DEF Queued
<1> QED BY <1>2, <1>3, <1>4, <1>6, <1>7, <1>8 DEF rest, new

\* The step begins, runs and is joined.
LEMMA BeginStepIInv == IInv /\ BeginStep => IInv'
<1> SUFFICES ASSUME IInv, BeginStep PROVE IInv'
  OBVIOUS
<1> DEFINE box == Settled(inbox)
<1>1. /\ run.pc = "boundary" /\ ~AtCeiling /\ inbox' = Drained(box)
      /\ run' = IF run.token THEN NoRun
                ELSE [run EXCEPT !.pc = "step", !.delivery = Batch(box), !.carried = <<>>,
                                 !.turn_start = FALSE, !.results = <<>>]
      /\ log' = log /\ base' = base /\ sent' = sent
      /\ dropped' = dropped /\ forfeited' = forfeited
  BY DEF BeginStep
<1>2. /\ box \in InboxType /\ box.pending = <<>> /\ box.touched = inbox.touched
      /\ \A k \in Kinds : Occupied(box, k) <= MaxQueue
      /\ Queued(box) = Queued(inbox) \cup ToSet(inbox.pending)
  BY LiveFacts, SettledFacts
<1> HIDE DEF box
<1>3. /\ Batch(box) \in Seq(Message)
      /\ Shrinks(Drained(box), box)
      /\ Drained(box).pending = box.pending
      /\ Queued(Drained(box)) \cup ToSet(Batch(box)) = Queued(box) \cup ToSet(run.carried)
  BY <1>2, LiveFacts, BatchFacts
<1>4. /\ inbox' \in InboxType /\ inbox'.pending = <<>> /\ inbox'.touched = inbox.touched
  BY <1>1, <1>2, <1>3 DEF Shrinks
<1>5. Bounded'
  <2>1. ASSUME NEW k \in Kinds PROVE Occupied(inbox', k) <= MaxQueue
    <3>1. Occupied(inbox', k) <= Occupied(box, k) /\ Occupied(box, k) <= MaxQueue
      BY <1>1, <1>2, <1>3, ShrinksFacts
    <3>2. Occupied(inbox', k) \in Nat /\ Occupied(box, k) \in Nat
      BY <1>2, <1>4, OccupiedTyped
    <3> QED BY <3>1, <3>2
  <2> QED BY <1>1, <2>1 DEF IInv, Bounded
<1>6. ~inbox.touched => Queued(inbox') = {} /\ ToSet(Batch(box)) = {}
  <2>1. ~inbox.touched => Queued(box) = {} /\ ToSet(run.carried) = {}
    BY <1>1, <1>2, LiveFacts, SetOfNone
  <2> QED BY <1>1, <1>3, <2>1
<1>7. CASE run.token
  <2>1. run' = NoRun
    BY <1>1, <1>7
  <2>2. Typed'
    BY <1>1, <1>4, <2>1, EmptyTyped DEF IInv, Typed
  <2> QED BY <1>4, <1>5, <1>6, <2>1, <2>2, Returned
<1>8. CASE ~run.token
  <2>1. <<>> \in Seq(Message) /\ <<>> \in Seq(Result) /\ run \in Locals
    BY LiveFacts
  <2>2. /\ run' \in Locals /\ run'.pc = "step" /\ run'.delivery = Batch(box)
        /\ run'.carried = <<>> /\ run'.results = <<>> /\ run'.state = run.state
        /\ run'.active = run.active /\ run'.steps_run = run.steps_run
    BY <1>1, <1>3, <1>8, <2>1 DEF Locals
  <2>3. Typed'
    BY <1>1, <1>4, <2>2 DEF IInv, Typed
  <2>4. run.steps_run < MaxSteps /\ run.steps_run \in Nat
    BY <1>1, <2>1, LocalsTyped DEF AtCeiling
  <2>5. BaseState' = BaseState /\ BaseNext' = BaseNext /\ BaseStamp' = BaseStamp
    BY <1>1 DEF BaseState, BaseNext, BaseStamp
  <2>6. Placed'
    BY <1>1, <2>2, <2>4, <2>5, LiveFacts DEF Placed
  <2>7. Joined'
    BY <2>2 DEF Joined, Joins
  <2>8. Held' = ToSet(Batch(box))
    BY <2>2, SetOfNone DEF Held
  <2>9. Fresh'
    BY <1>4, <1>6, <2>8 DEF Fresh
  <2>10. Accounted'
    <3>1. Queued(inbox) \cup Held \subseteq Queued(inbox') \cup Held'
      BY <1>1, <1>2, <1>3, <2>8, LiveFacts
    <3>2. Stamped(BaseStamp) \subseteq Queued(inbox) \cup Held
              \cup ToSet(run.state.seen) \cup dropped \cup forfeited
      BY <1>1, LiveFacts
    <3> QED BY <1>1, <2>2, <2>5, <3>1, <3>2 DEF Accounted
  <2> QED BY <1>5, <2>3, <2>6, <2>7, <2>9, <2>10 DEF IInv
<1> QED BY <1>7, <1>8, LiveFacts, LocalsTyped

LEMMA NodeOkIInv ==
  ASSUME IInv, NEW i \in DOMAIN run.active, NEW goto, NodeOk(i, goto)
  PROVE  IInv'
<1> DEFINE new == [index |-> i, name |-> run.active[i].name,
                   scoped |-> run.active[i].scoped, goto |-> goto]
<1>1. /\ run.pc = "step" /\ i \in Unfinished /\ goto \in Gotos[run.active[i].name]
      /\ run' = [run EXCEPT !.results = Append(@, new)]
      /\ log' = log /\ base' = base /\ sent' = sent /\ inbox' = inbox
      /\ dropped' = dropped /\ forfeited' = forfeited
  BY DEF NodeOk
<1>2. run \in Locals /\ run.active \in Seq(Task) /\ run.results \in Seq(Result)
  BY LiveFacts, LocalsTyped
<1>3. new \in Result
  <2>1. i \in Nat /\ run.active[i] \in Task
    BY <1>2
  <2>2. run.active[i].name \in Nodes /\ run.active[i].scoped \in Nat
    BY <2>1 DEF Task
  <2>3. goto \in Seq(Nodes)
    BY <1>1, <2>2
  <2> QED BY <2>1, <2>2, <2>3 DEF Result
<1>4. new.index = i /\ new.name = run.active[i].name /\ new.scoped = run.active[i].scoped
  OBVIOUS
<1> HIDE DEF new
<1>5. Append(run.results, new) \in Seq(Result)
  BY <1>2, <1>3
<1>6. /\ run' \in Locals /\ run'.pc = run.pc /\ run'.state = run.state
      /\ run'.active = run.active /\ run'.carried = run.carried
      /\ run'.delivery = run.delivery /\ run'.results = Append(run.results, new)
      /\ run'.steps_run = run.steps_run
  BY <1>1, <1>2, <1>5 DEF Locals
<1>7. Typed'
  BY <1>1, <1>6 DEF IInv, Typed
<1>8. Placed'
  BY <1>1, <1>6 DEF IInv, Placed, BaseState, BaseNext
<1>9. Joined'
  <2> DEFINE old == run.results
             n == Len(old)
  <2>1. /\ DOMAIN old = 1..n /\ n \in Nat /\ DOMAIN Append(old, new) = 1..(n + 1)
        /\ Append(old, new)[n + 1] = new
        /\ \A j \in 1..n : Append(old, new)[j] = old[j]
    BY <1>2
  <2>2. \A j \in 1..n : old[j].index # i
    BY <1>1, <2>1 DEF Unfinished
  <2>3. Joins(old, run.active)
    BY DEF IInv, Joined
  <2> HIDE DEF old, n
  <2>4. \A j \in 1..(n + 1) : j \in 1..n \/ j = n + 1
    BY <2>1
  <2>5. Joins(Append(old, new), run.active)
    BY <1>4, <2>1, <2>2, <2>3, <2>4 DEF Joins
  <2> QED BY <1>6, <2>5 DEF Joined, old
<1>10. Fresh' /\ Bounded'
  BY <1>1, <1>6 DEF IInv, Fresh, Bounded, Held
<1>11. Accounted'
  BY <1>1, <1>6 DEF IInv, Accounted, BaseStamp, Held, Live
<1> QED BY <1>7, <1>8, <1>9, <1>10, <1>11 DEF IInv

LEMMA NodeInterruptStep ==
  ASSUME IInv, NEW i, NodeInterrupt(i)
  PROVE  StepOK
<1> DEFINE stamp == Snapshot(inbox, run.delivery)
           c == Checkpoint(run.step, run.state, run.active, stamp)
<1>1. /\ run.pc = "step" /\ Put(c) /\ run' = NoRun
      /\ forfeited' = forfeited /\ inbox' = inbox /\ dropped' = dropped /\ sent' = sent
  BY DEF NodeInterrupt, Return, Suspended
<1>2. /\ stamp \in SnapshotType
      /\ inbox.touched => Stamped(stamp) = Queued(inbox) \cup ToSet(run.delivery)
  BY LiveFacts, LocalsTyped, SnapshotFacts
<1>3. c \in Header /\ c.state = run.state /\ c.next = Names(run.active) /\ c.stamp = stamp
      /\ c.prev = base
  <2> HIDE DEF stamp
  <2> QED BY <1>2, LiveFacts, LocalsTyped, CheckpointFacts DEF IInv
<1> HIDE DEF c
<1>4. /\ log' \in Seq(Header) /\ \A j \in DOMAIN log' : log'[j].prev \in 0..(j - 1)
      /\ base' \in 0..Len(log') /\ Last(log') = c
  BY <1>1, <1>3, PutFacts DEF IInv
<1>5. Typed'
  BY <1>1, <1>4, EmptyTyped DEF IInv, Typed
<1>6. Bounded'
  <2>1. \A j \in DOMAIN log' : log'[j].stamp # None =>
          \A k \in Kinds : Len(log'[j].stamp[k]) <= MaxQueue
    BY <1>1, <1>3, LiveFacts, LocalsTyped, StampsBounded DEF IInv
  <2> QED BY <1>1, <2>1, LiveFacts DEF Bounded
<1> HIDE DEF stamp
<1>7. IInv'
  BY <1>1, <1>5, <1>6, LiveFacts, Returned
<1>8. WholeStep
  BY <1>1, <1>3, <1>4, LiveFacts DEF WholeStep
<1>9. CompleteStep
  <2>1. Queued(inbox) \cup Held \subseteq Stamped(stamp)
    BY <1>1, <1>2, LiveFacts, BoxTyped
  <2> QED BY <1>1, <1>3, <1>4, <2>1, LiveFacts DEF CompleteStep
<1> QED BY <1>7, <1>8, <1>9 DEF StepOK

LEMMA NodeFailsIInv == IInv /\ NodeFails => IInv'
<1> SUFFICES ASSUME IInv, NodeFails PROVE IInv'
  OBVIOUS
<1>1. /\ run' = NoRun /\ sent' = sent /\ log' = log /\ base' = base /\ inbox' = inbox
  BY DEF NodeFails, Return
<1> QED BY <1>1, EmptyTyped, LiveFacts, Returned DEF IInv, Typed, Bounded

\* The turn's extension leaves the handle in the same way.
LEMMA ExtensionFacts ==
  ASSUME NEW box \in InboxType
  PROVE  /\ Extension(box) \in Seq(Message)
         /\ Extension(box) = IF box.followup = <<>> THEN <<>> ELSE box.followup \o box.injected
         /\ Shrinks(Extended(box), box)
         /\ Extended(box).pending = box.pending
         /\ Extended(box).steering = box.steering
         /\ Extended(box).followup = <<>>
         /\ Extended(box).injected = IF box.followup = <<>> THEN box.injected ELSE <<>>
         /\ Queued(Extended(box)) \cup ToSet(Extension(box)) = Queued(box)
<1> DEFINE new == Extended(box)
           ext == Extension(box)
<1>1. /\ box.followup \in Seq(Message) /\ box.injected \in Seq(Message) /\ <<>> \in Seq(Message)
  BY BoxTyped
<1>2. ext = IF box.followup = <<>> THEN <<>> ELSE box.followup \o box.injected
  BY DEF Extension
<1>3. /\ box.followup \o box.injected \in Seq(Message)
      /\ ToSet(box.followup \o box.injected) = ToSet(box.followup) \cup ToSet(box.injected)
  BY <1>1, SetOf
<1>4. ext \in Seq(Message)
      /\ ToSet(ext) = IF box.followup = <<>> THEN {} ELSE ToSet(box.followup) \cup ToSet(box.injected)
  BY <1>1, <1>2, <1>3, SetOfNone
<1>5. /\ new \in InboxType /\ new.touched = box.touched /\ new.pending = box.pending
      /\ new.steering = box.steering /\ new.followup = <<>>
      /\ new.injected = IF box.followup = <<>> THEN box.injected ELSE <<>>
  BY <1>1 DEF Extended, InboxType
<1> HIDE DEF new, ext
<1>6. Shrinks(new, box)
  BY <1>5 DEF Shrinks, Kinds
<1>7. Queued(new) \cup ToSet(ext) = Queued(box)
  BY <1>4, <1>5, SetOfNone DEF Queued
<1> QED BY <1>2, <1>4, <1>5, <1>6, <1>7 DEF new, ext

\* What the barrier does to the handle, whether or not the turn would end.
LEMMA BarrierBox ==
  ASSUME IInv, NEW ends \in BOOLEAN
  PROVE  LET settled == IF ends THEN Settled(inbox) ELSE inbox
             extension == IF ends THEN Extension(settled) ELSE <<>>
             box == IF ends THEN Extended(settled) ELSE inbox
         IN /\ box \in InboxType /\ extension \in Seq(Message)
            /\ box.touched = inbox.touched
            /\ \A k \in Kinds : Occupied(box, k) <= MaxQueue
            /\ Queued(inbox) \subseteq Queued(box) \cup ToSet(extension)
            /\ ~inbox.touched => box.pending = <<>> /\ Queued(box) = {} /\ ToSet(extension) = {}
<1> DEFINE settled == Settled(inbox)
<1>1. inbox \in InboxType /\ \A k \in Kinds : Occupied(inbox, k) <= MaxQueue
  BY LiveFacts
<1>2. CASE ends
  <2>1. /\ settled \in InboxType /\ settled.pending = <<>>
        /\ settled.touched = inbox.touched
        /\ Queued(settled) = Queued(inbox) \cup ToSet(inbox.pending)
        /\ \A k \in Kinds : Occupied(settled, k) = Occupied(inbox, k)
    BY <1>1, SettledFacts
  <2> HIDE DEF settled
  <2>2. /\ Extension(settled) \in Seq(Message)
        /\ Shrinks(Extended(settled), settled)
        /\ Extended(settled).pending = settled.pending
        /\ Queued(Extended(settled)) \cup ToSet(Extension(settled)) = Queued(settled)
    BY <2>1, ExtensionFacts
  <2>3. Extended(settled) \in InboxType /\ Extended(settled).touched = settled.touched
    BY <2>2 DEF Shrinks
  <2>4. ASSUME NEW k \in Kinds PROVE Occupied(Extended(settled), k) <= MaxQueue
    <3>1. /\ Occupied(Extended(settled), k) <= Occupied(settled, k)
          /\ Occupied(settled, k) <= MaxQueue
      BY <1>1, <2>1, <2>2, ShrinksFacts
    <3>2. Occupied(Extended(settled), k) \in Nat /\ Occupied(settled, k) \in Nat
      BY <2>1, <2>3, OccupiedTyped
    <3> QED BY <3>1, <3>2
  <2>5. ~inbox.touched => Queued(settled) = {}
    BY <2>1, LiveFacts, SetOfNone
  <2> QED BY <1>2, <2>1, <2>2, <2>3, <2>4, <2>5 DEF settled
<1>3. CASE ~ends
  <2>1. <<>> \in Seq(Message) /\ ToSet(<<>>) = {}
    BY SetOfNone
  <2> QED BY <1>1, <1>3, <2>1, LiveFacts
<1> QED BY <1>2, <1>3

LEMMA BarrierFailsIInv == IInv /\ BarrierFails => IInv'
<1> SUFFICES ASSUME IInv, BarrierFails PROVE IInv'
  OBVIOUS
<1>1. /\ run' = NoRun /\ sent' = sent /\ log' = log /\ base' = base
      /\ inbox' = inbox \/ inbox' = Extended(Settled(inbox))
  BY DEF BarrierFails, Return
<1>2. CASE inbox' = inbox
  BY <1>1, <1>2, EmptyTyped, LiveFacts, Returned DEF IInv, Typed, Bounded
<1>3. CASE inbox' = Extended(Settled(inbox))
  <2> DEFINE box == Extended(Settled(inbox))
  <2>1. /\ box \in InboxType /\ box.touched = inbox.touched
        /\ \A k \in Kinds : Occupied(box, k) <= MaxQueue
        /\ ~inbox.touched => box.pending = <<>> /\ Queued(box) = {}
    <3>1. PICK ends \in BOOLEAN : ends = TRUE
      OBVIOUS
    <3> QED BY <3>1, BarrierBox
  <2> HIDE DEF box
  <2>2. inbox' = box
    BY <1>3 DEF box
  <2>3. Typed' /\ Bounded'
    BY <1>1, <2>1, <2>2, EmptyTyped DEF IInv, Typed, Bounded
  <2> QED BY <1>1, <2>1, <2>2, <2>3, Returned
<1> QED BY <1>1, <1>2, <1>3

\* The state a barrier makes.
LEMMA MergedFacts ==
  ASSUME IInv, run.pc = "step", AllJoined
  PROVE  LET state == Merged(run.results)
         IN /\ state \in State
            /\ state.writes # <<>>
            /\ Front(state.writes) = run.state.writes
            /\ Canonical(Last(state.writes), run.active)
            /\ state.seen = run.state.seen \o run.delivery
            /\ ToSet(state.seen) = ToSet(run.state.seen) \cup ToSet(run.delivery)
<1> DEFINE state == Merged(run.results)
           block == Block(run.results)
           old == run.state.writes
           writes == Append(old, block)
<1>1. /\ run \in Locals /\ run.active \in Seq(Task) /\ run.results \in Seq(Result)
      /\ run.state \in State /\ old \in Blocks /\ run.state.seen \in Seq(Message)
      /\ run.delivery \in Seq(Message)
  BY LiveFacts, LocalsTyped
<1>2. block \in Seq(Task) /\ Canonical(block, run.active)
  <2>1. Joins(run.results, run.active) /\ Len(run.results) = Len(run.active)
    BY DEF IInv, Joined, AllJoined
  <2> QED BY <1>1, <2>1, MergeCanonical
<1>3. state = [writes |-> writes, seen |-> run.state.seen \o run.delivery]
  BY DEF Merged, Block
<1> HIDE DEF block, old, state
<1>4. /\ writes \in Blocks /\ writes # <<>> /\ Last(writes) = block
      /\ Len(writes) = Len(old) + 1
  <2>1. old \in Seq(Seq(Task)) /\ block \in Seq(Task)
    BY <1>1, <1>2 DEF Blocks
  <2>2. /\ writes \in Seq(Seq(Task)) /\ Len(writes) = Len(old) + 1
        /\ writes[Len(old) + 1] = block
    BY <2>1
  <2>3. Len(old) \in Nat
    BY <2>1
  <2> HIDE DEF writes
  <2>4. writes # <<>>
    <3>1. Len(writes) # 0
      BY <2>2, <2>3
    <3>2. Len(<<>>) = 0
      OBVIOUS
    <3> QED BY <3>1, <3>2
  <2> QED BY <2>2, <2>4 DEF Blocks, Last
<1>5. Front(writes) = old
  <2>1. old \in Seq(Seq(Task)) /\ block \in Seq(Task)
    BY <1>1, <1>2 DEF Blocks
  <2>2. SubSeq(Append(old, block), 1, Len(old)) = old
    BY <2>1
  <2>3. Len(Append(old, block)) - 1 = Len(old)
    BY <2>1
  <2> QED BY <2>2, <2>3 DEF Front
<1>6. /\ run.state.seen \o run.delivery \in Seq(Message)
      /\ ToSet(run.state.seen \o run.delivery) = ToSet(run.state.seen) \cup ToSet(run.delivery)
  BY <1>1, SetOf
<1> HIDE DEF writes
<1>7. state \in State
  BY <1>3, <1>4, <1>6 DEF State
<1>8. state.writes = writes /\ state.seen = run.state.seen \o run.delivery
  BY <1>3
<1>9. /\ state \in State
      /\ state.writes # <<>>
      /\ Front(state.writes) = old
      /\ Canonical(Last(state.writes), run.active)
      /\ state.seen = run.state.seen \o run.delivery
      /\ ToSet(state.seen) = ToSet(run.state.seen) \cup ToSet(run.delivery)
  BY <1>2, <1>4, <1>5, <1>6, <1>7, <1>8
<1> QED BY <1>9 DEF state, old

\* The barrier puts the merged state with the turn's extension as undelivered.
LEMMA BarrierStep ==
  ASSUME IInv, NEW route \in RouteChoices, NEW over \in BOOLEAN, Barrier(route, over)
  PROVE  StepOK
<1> DEFINE state == Merged(run.results)
           routed == NextTasks(run.results, route)
           ends == routed = <<>>
           settled == IF ends THEN Settled(inbox) ELSE inbox
           extension == IF ends THEN Extension(settled) ELSE <<>>
           box == IF ends THEN Extended(settled) ELSE inbox
           next == IF extension # <<>> THEN Plain(<<Entry>>) ELSE routed
           stamp == Snapshot(box, extension)
           c == Checkpoint(run.step, state, next, stamp)
<1>1. /\ run.pc = "step" /\ AllJoined /\ inbox' = box /\ Put(c)
      /\ run' = IF over \/ next = <<>> THEN NoRun
                ELSE [run EXCEPT !.pc = "boundary", !.state = state, !.active = next,
                                 !.step = @ + 1, !.steps_run = @ + 1, !.carried = extension,
                                 !.turn_start = extension # <<>>,
                                 !.delivery = <<>>, !.results = <<>>]
      /\ dropped' = dropped /\ forfeited' = forfeited /\ sent' = sent
  BY DEF Barrier, BoundaryStamp
<1>2. run \in Locals /\ run.step \in Nat /\ run.steps_run \in Nat
  BY LiveFacts, LocalsTyped
<1>3. /\ state \in State /\ state.writes # <<>>
      /\ Front(state.writes) = run.state.writes
      /\ Canonical(Last(state.writes), run.active)
      /\ ToSet(state.seen) = ToSet(run.state.seen) \cup ToSet(run.delivery)
  BY <1>1, MergedFacts
<1>4. routed \in Seq(Task)
  <2>1. run.active \in Seq(Task) /\ run.results \in Seq(Result)
    BY <1>2, LocalsTyped
  <2>2. Joins(run.results, run.active)
    BY DEF IInv, Joined
  <2>3. /\ route \in [{run.active[i].name : i \in DOMAIN run.active}
                        -> UNION {Routes[n] : n \in Nodes}]
        /\ \A n \in DOMAIN route : route[n] \in Routes[n]
    BY DEF RouteChoices
  <2> QED BY <2>1, <2>2, <2>3, NextTyped
<1>5. ends \in BOOLEAN
  OBVIOUS
<1> HIDE DEF state, routed, ends
<1>6. /\ box \in InboxType /\ extension \in Seq(Message)
      /\ box.touched = inbox.touched
      /\ \A k \in Kinds : Occupied(box, k) <= MaxQueue
      /\ Queued(inbox) \subseteq Queued(box) \cup ToSet(extension)
      /\ ~inbox.touched => box.pending = <<>> /\ Queued(box) = {} /\ ToSet(extension) = {}
  BY <1>5, BarrierBox
<1> HIDE DEF box, extension
<1>7. next \in Seq(Task)
  <2>1. <<Entry>> \in Seq(Nodes)
    OBVIOUS
  <2>2. Plain(<<Entry>>) \in Seq(Task)
    BY <1>4, <2>1, TasksTyped
  <2> QED BY <1>4, <2>2
<1> HIDE DEF next
<1>8. /\ stamp \in SnapshotType
      /\ box.touched => Stamped(stamp) = Queued(box) \cup ToSet(extension)
      /\ ~box.touched => Stamped(stamp) = {}
  BY <1>6, SnapshotFacts
<1>9. c \in Header /\ c.state = state /\ c.next = Names(next) /\ c.stamp = stamp
      /\ c.prev = base
  <2> HIDE DEF stamp
  <2> QED BY <1>2, <1>3, <1>7, <1>8, CheckpointFacts DEF IInv
<1> HIDE DEF c
<1>10. /\ log' \in Seq(Header) /\ \A j \in DOMAIN log' : log'[j].prev \in 0..(j - 1)
       /\ base' \in 0..Len(log') /\ base' # 0 /\ log'[base'] = c /\ Last(log') = c
  BY <1>1, <1>9, PutFacts DEF IInv
<1>11. Bounded'
  <2>1. \A j \in DOMAIN log' : log'[j].stamp # None =>
          \A k \in Kinds : Len(log'[j].stamp[k]) <= MaxQueue
    BY <1>1, <1>6, <1>9, StampsBounded DEF IInv
  <2> QED BY <1>1, <1>6, <2>1 DEF Bounded
<1> HIDE DEF stamp
<1>12. IInv'
  <2>1. CASE run' = NoRun
    <3>1. Typed'
      BY <1>1, <1>6, <1>10, <2>1, EmptyTyped DEF IInv, Typed
    <3> QED BY <1>1, <1>6, <1>11, <2>1, <3>1, Returned
  <2>2. CASE run' # NoRun
    <3>1. run' = [run EXCEPT !.pc = "boundary", !.state = state, !.active = next,
                             !.step = run.step + 1, !.steps_run = run.steps_run + 1,
                             !.carried = extension, !.turn_start = extension # <<>>,
                             !.delivery = <<>>, !.results = <<>>]
      BY <1>1, <2>2
    <3>2. /\ run.step + 1 \in Nat /\ run.steps_run + 1 \in Nat
          /\ <<>> \in Seq(Message) /\ <<>> \in Seq(Result)
      BY <1>2
    <3>3. /\ run' \in Locals /\ run'.pc = "boundary" /\ run'.state = state
          /\ run'.active = next /\ run'.steps_run = run.steps_run + 1
          /\ run'.carried = extension /\ run'.delivery = <<>> /\ run'.results = <<>>
      BY <1>2, <1>3, <1>6, <1>7, <3>1, <3>2 DEF Locals
    <3>4. Typed'
      BY <1>1, <1>6, <1>10, <3>3 DEF IInv, Typed
    <3>5. BaseState' = state /\ BaseNext' = Names(next) /\ BaseStamp' = stamp
      BY <1>9, <1>10 DEF BaseState, BaseNext, BaseStamp
    <3>6. run.steps_run < MaxSteps
      BY <1>1 DEF IInv, Placed
    <3>7. run.steps_run + 1 <= MaxSteps
      BY <1>2, <3>6
    <3>8. Placed'
      BY <3>3, <3>5, <3>7 DEF Placed
    <3>9. Joined'
      BY <3>3 DEF Joined, Joins
    <3>10. Held' = ToSet(extension)
      BY <3>3, SetOfNone DEF Held
    <3>11. Fresh'
      BY <1>1, <1>6, <3>10 DEF Fresh
    <3>12. Accounted'
      <4>1. Stamped(stamp) \subseteq Queued(box) \cup ToSet(extension)
        BY <1>6, <1>8, BoxTyped
      <4> QED BY <1>1, <3>5, <3>10, <4>1 DEF Accounted
    <3> QED BY <1>11, <3>4, <3>8, <3>9, <3>11, <3>12 DEF IInv
  <2> QED BY <2>1, <2>2
<1>13. WholeStep
  <2>1. run.state = BaseState /\ Names(run.active) = BaseNext
    BY <1>1, LiveFacts
  <2> QED BY <1>3, <1>9, <1>10, <2>1 DEF WholeStep
<1>14. CompleteStep
  <2>1. Queued(inbox) \subseteq Stamped(stamp)
    <3>1. CASE inbox.touched
      BY <1>6, <1>8, <3>1
    <3>2. CASE ~inbox.touched
      BY <3>2, LiveFacts
    <3> QED BY <3>1, <3>2
  <2>2. Held = ToSet(run.delivery)
    BY <1>1, LiveFacts
  <2>3. Stamped(BaseStamp) \subseteq Queued(inbox) \cup Held
              \cup ToSet(run.state.seen) \cup dropped \cup forfeited
    BY <1>1, LiveFacts
  <2> QED BY <1>1, <1>3, <1>9, <1>10, <2>1, <2>2, <2>3 DEF CompleteStep
<1> QED BY <1>12, <1>13, <1>14 DEF StepOK

\* Every step keeps the invariant and says what the action properties say.
LEMMA EveryStep == IInv /\ [Next]_vars => StepOK
<1> SUFFICES ASSUME IInv, [Next]_vars PROVE StepOK
  OBVIOUS
<1>1. CASE log' = log /\ IInv'
  BY <1>1 DEF StepOK, WholeStep, CompleteStep
<1>2. CASE UNCHANGED vars
  <2>1. log' = log
    BY <1>2 DEF vars
  <2>2. IInv'
    BY <1>2 DEF vars, IInv, Typed, Placed, Joined, Joins, Fresh, Bounded, Accounted, Held,
                Live, BaseState, BaseNext, BaseStamp
  <2> QED BY <1>1, <2>1, <2>2
<1>3. CASE Start
  BY <1>1, <1>3, StartIInv DEF Start
<1>4. CASE \E c \in DOMAIN log, over \in BOOLEAN : Resume(c, over)
  <2>1. PICK c \in DOMAIN log, over \in BOOLEAN : Resume(c, over)
    BY <1>4
  <2>2. IInv'
    BY <2>1, ResumeIInv
  <2>3. log' = log
    BY <2>1 DEF Resume
  <2> QED BY <1>1, <2>2, <2>3
<1>5. CASE \E k \in Kinds : Send(k)
  BY <1>1, <1>5, SendIInv DEF Send
<1>6. CASE \E keep \in BOOLEAN : Cancel(keep)
  BY <1>1, <1>6, CancelIInv DEF Cancel
<1>7. CASE Drain
  BY <1>1, <1>7, DrainIInv DEF Drain
<1>8. CASE NewHandle \/ Crash
  BY <1>1, <1>8, HandleIInv DEF NewHandle, Crash
<1>9. CASE BoundaryPutFails
  BY <1>1, <1>9, BoundaryPutFailsIInv DEF BoundaryPutFails
<1>10. CASE NodeFails
  BY <1>1, <1>10, NodeFailsIInv DEF NodeFails
<1>11. CASE BarrierFails
  BY <1>1, <1>11, BarrierFailsIInv DEF BarrierFails
<1>12. CASE Ceiling
  BY <1>12, CeilingStep
<1>13. CASE TypedCancel
  BY <1>13, TypedCancelStep
<1>14. CASE BeginStep
  BY <1>1, <1>14, BeginStepIInv DEF BeginStep
<1>15. CASE \E i \in DOMAIN run.active, goto \in UNION {Gotos[n] : n \in Nodes} : NodeOk(i, goto)
  <2>1. PICK i \in DOMAIN run.active, goto \in UNION {Gotos[n] : n \in Nodes} : NodeOk(i, goto)
    BY <1>15
  <2>2. log' = log
    BY <2>1 DEF NodeOk
  <2> QED BY <1>1, <2>1, <2>2, NodeOkIInv
<1>16. CASE \E i \in DOMAIN run.active : NodeInterrupt(i)
  BY <1>16, NodeInterruptStep
<1>17. CASE \E route \in RouteChoices, over \in BOOLEAN : Barrier(route, over)
  BY <1>17, BarrierStep
<1> QED BY <1>2, <1>3, <1>4, <1>5, <1>6, <1>7, <1>8, <1>9, <1>10, <1>11, <1>12, <1>13,
           <1>14, <1>15, <1>16, <1>17 DEF Next, RunStep, Environment

\* The first invariant holds.
LEMMA Inductive == Spec => []IInv
<1>1. IInv /\ [Next]_vars => IInv'
  BY EveryStep DEF StepOK
<1> QED BY <1>1, InitIInv, PTL DEF Spec

-----------------------------------------------------------------------------
(***************************************************************************)
(* Bounds, whole steps and complete checkpoints                            *)
(***************************************************************************)

\* No segment passes max_steps, follow-up extensions included, and no settling overfills
\* a queue, whether its messages were sent, queued or restored from a stamp (run_inner's
\* ceiling, Inbox::send's occupancy check).
THEOREM BoundsHold == Spec => []WithinBounds
<1>1. IInv => WithinBounds
  <2> SUFFICES ASSUME IInv PROVE WithinBounds
    OBVIOUS
  <2>1. run \in Locals /\ inbox \in InboxType /\ \A k \in Kinds : Occupied(inbox, k) <= MaxQueue
    BY LiveFacts
  <2>2. \A k \in Kinds : Len(Settled(inbox)[k]) <= MaxQueue
    BY <2>1, SettledFacts
  <2>3. \A c \in DOMAIN log : /\ log[c].stamp \in SnapshotType
                              /\ log[c].next \in Seq(Nodes)
                              /\ log[c].prev \in 0..(c - 1)
    BY LogTyped, HeaderTyped DEF IInv, Typed
  <2>4. ExecTypeOK
    BY <2>1, <2>3, LocalsTyped DEF ExecTypeOK, IInv, Typed
  <2> QED BY <2>2, <2>4 DEF WithinBounds, IInv, Placed
<1> QED BY <1>1, Inductive, PTL

\* Across interrupts, failures, crashes and resumes no super-step is torn, skipped or
\* merged twice, and what it merges does not depend on the order its invocations finish
\* in: for every graph, however its routers answer (run_inner, apply_super_step).
THEOREM StepsAreWhole == Spec => StepsWhole
<1> DEFINE Body == log' # log =>
             LET c == Last(log')
                 state == IF base = 0 THEN EmptyState ELSE log[base].state
                 next == IF base = 0 THEN <<Entry>> ELSE log[base].next
             IN \/ c.state = state /\ c.next = next
                \/ /\ c.state.writes # <<>>
                   /\ Front(c.state.writes) = state.writes
                   /\ next = Names(run.active)
                   /\ Canonical(Last(c.state.writes), run.active)
<1>1. IInv /\ [Next]_vars => [Body]_vars
  BY EveryStep DEF StepOK, WholeStep, BaseState, BaseNext
<1>2. Spec => [][Body]_vars
  <2> HIDE DEF Body
  <2> QED BY <1>1, Inductive, PTL DEF Spec
<1> QED BY <1>2 DEF StepsWhole

\* No checkpoint loses a message: what the handle queued, what the run carried or was
\* delivering and what the checkpoint before it stamped is stamped again or was merged,
\* unless a cancellation dropped it or the code gave it up (Inbox::snapshot, and the
\* pending_delivery of a suspension and of an extended turn).
THEOREM CheckpointsComplete == Spec => CheckpointComplete
<1> DEFINE Body == log' # log =>
             LET c == Last(log')
                 held == Queued(inbox) \cup ToSet(run.carried) \cup ToSet(run.delivery)
                 stamped == IF base = 0 THEN {} ELSE Stamped(log[base].stamp)
             IN held \cup stamped \subseteq
                  Stamped(c.stamp) \cup ToSet(c.state.seen) \cup dropped' \cup forfeited'
<1>1. IInv /\ [Next]_vars => [Body]_vars
  <2>1. (IF base = 0 THEN {} ELSE Stamped(log[base].stamp)) = Stamped(BaseStamp)
    BY DEF BaseStamp, Stamped
  <2> QED BY <2>1, EveryStep DEF StepOK, CompleteStep, Held
<1>2. Spec => [][Body]_vars
  <2> HIDE DEF Body
  <2> QED BY <1>1, Inductive, PTL DEF Spec
<1> QED BY <1>2 DEF CheckpointComplete

-----------------------------------------------------------------------------
(***************************************************************************)
(* The order of delivery                                                   *)
(***************************************************************************)

LEMMA InOrderNone == InOrder(<<>>)
BY DEF InOrder

\* Order survives joining a sequence with a later one, and appending a newer message.
LEMMA InOrderJoin ==
  ASSUME NEW s \in Seq(Message), NEW t \in Seq(Message), InOrder(s), InOrder(t),
         Ahead(ToSet(s), ToSet(t))
  PROVE  InOrder(s \o t)
<1> SUFFICES ASSUME NEW i \in DOMAIN (s \o t), NEW j \in DOMAIN (s \o t), i < j,
                    (s \o t)[i].kind = (s \o t)[j].kind
             PROVE  (s \o t)[i].id < (s \o t)[j].id
  BY DEF InOrder
<1> DEFINE n == Len(s)
<1>1. n \in Nat /\ DOMAIN s = 1..n /\ DOMAIN t = 1..Len(t) /\ DOMAIN (s \o t) = 1..(n + Len(t))
      /\ Len(t) \in Nat
  OBVIOUS
<1>2. \A l \in 1..n : (s \o t)[l] = s[l]
  OBVIOUS
<1>3. \A l \in 1..(n + Len(t)) : l > n => (s \o t)[l] = t[l - n] /\ l - n \in 1..Len(t)
  OBVIOUS
<1>4. CASE j <= n
  BY <1>1, <1>2, <1>4 DEF InOrder
<1>5. CASE i > n
  <2>1. i - n < j - n /\ j > n
    BY <1>1, <1>5
  <2>2. /\ (s \o t)[i] = t[i - n] /\ i - n \in DOMAIN t
        /\ (s \o t)[j] = t[j - n] /\ j - n \in DOMAIN t
    BY <1>1, <1>3, <1>5, <2>1
  <2> QED BY <2>1, <2>2 DEF InOrder
<1>6. CASE i <= n /\ j > n
  <2>1. s[i] \in ToSet(s) /\ t[j - n] \in ToSet(t)
    BY <1>1, <1>3, <1>6 DEF ToSet
  <2> QED BY <1>1, <1>2, <1>3, <1>6, <2>1 DEF Ahead
<1> QED BY <1>1, <1>4, <1>5, <1>6

LEMMA InOrderAppend ==
  ASSUME NEW s \in Seq(Message), NEW m \in Message, InOrder(s), \A n \in ToSet(s) : n.id < m.id
  PROVE  InOrder(Append(s, m))
<1> DEFINE n == Len(s)
           u == Append(s, m)
<1>1. n \in Nat /\ DOMAIN s = 1..n /\ DOMAIN u = 1..(n + 1) /\ u[n + 1] = m
  OBVIOUS
<1>2. \A l \in 1..n : u[l] = s[l] /\ s[l] \in ToSet(s)
  BY DEF ToSet
<1>3. ASSUME NEW i \in DOMAIN u, NEW j \in DOMAIN u, i < j, u[i].kind = u[j].kind
      PROVE  u[i].id < u[j].id
  <2> HIDE DEF n, u
  <2>1. i \in 1..n /\ (j \in 1..n \/ j = n + 1)
    BY <1>1, <1>3
  <2> QED BY <1>1, <1>2, <1>3, <2>1 DEF InOrder
<1> QED BY <1>3 DEF InOrder

\* What Sorted says of the whole handle.
LEMMA SortedFacts ==
  ASSUME NEW q, Sorted(q)
  PROVE  /\ InOrder(q.steering) /\ InOrder(q.followup) /\ InOrder(q.injected)
         /\ \A m \in ToSet(q.steering) : m.kind = "steering"
         /\ \A m \in ToSet(q.followup) : m.kind = "followup"
         /\ \A m \in ToSet(q.injected) : m.kind = "injected"
BY DEF Sorted, Kinds

\* Emptying queues keeps the rest in order.
LEMMA SortedShrinks ==
  ASSUME NEW box, NEW new, Sorted(box), \A k \in Kinds : new[k] = box[k] \/ new[k] = <<>>
  PROVE  Sorted(new)
BY SetOfNone, InOrderNone DEF Sorted

\* The state a run continues from is in order, and its messages are known.
LEMMA BaseOrdered ==
  ASSUME IInv, Ordered
  PROVE  InOrder(BaseState.seen) /\ ToSet(BaseState.seen) \subseteq Past(log)
<1>1. CASE base = 0
  BY <1>1, SetOfNone, InOrderNone DEF BaseState, EmptyState
<1>2. CASE base # 0
  <2>1. base \in DOMAIN log
    BY <1>2 DEF IInv, Typed
  <2> QED BY <1>2, <2>1 DEF BaseState, Ordered, Logged, Past
<1> QED BY <1>1, <1>2

\* Settling keeps every queue in order, and behind what the run holds and has seen.
LEMMA SettledOrdered ==
  ASSUME IInv, Ordered
  PROVE  /\ Sorted(Settled(inbox))
         /\ Ahead(ToSet(BaseState.seen), Held \cup Queued(Settled(inbox)))
         /\ Ahead(Held, Queued(Settled(inbox)))
<1> DEFINE new == Settled(inbox)
<1>1. inbox \in InboxType /\ inbox.pending \in Seq(Message)
      /\ \A k \in Kinds : inbox[k] \in Seq(Message)
  BY LiveFacts, BoxTyped
<1>2. /\ \A k \in Kinds : new[k] = inbox[k] \o OfKind(inbox.pending, k)
      /\ \A k \in Kinds : ToSet(new[k]) = ToSet(inbox[k]) \cup {m \in ToSet(inbox.pending) : m.kind = k}
      /\ Queued(new) = Queued(inbox) \cup ToSet(inbox.pending)
  BY <1>1, SettledFacts
<1> HIDE DEF new
<1>3. \A m \in Known, n \in ToSet(inbox.pending) : m.id < n.id
  BY DEF Ordered, Numbered
<1>4. ASSUME NEW k \in Kinds PROVE InOrder(new[k]) /\ \A m \in ToSet(new[k]) : m.kind = k
  <2>1. /\ OfKind(inbox.pending, k) \in Seq(Message) /\ InOrder(OfKind(inbox.pending, k))
        /\ ToSet(OfKind(inbox.pending, k)) = {m \in ToSet(inbox.pending) : m.kind = k}
    BY <1>1, OfKindFacts DEF Ordered
  <2>2. ToSet(inbox[k]) \subseteq Known
    BY DEF Known, Queued, Kinds
  <2>3. Ahead(ToSet(inbox[k]), ToSet(OfKind(inbox.pending, k)))
    BY <1>3, <2>1, <2>2 DEF Ahead
  <2>4. InOrder(inbox[k]) /\ \A m \in ToSet(inbox[k]) : m.kind = k
    BY DEF Ordered, Sorted
  <2>5. InOrder(inbox[k] \o OfKind(inbox.pending, k))
    BY <1>1, <2>1, <2>3, <2>4, InOrderJoin
  <2> QED BY <1>2, <2>4, <2>5
<1>5. ToSet(BaseState.seen) \subseteq Known /\ Held \subseteq Known
  BY BaseOrdered DEF Known
<1>6. /\ Ahead(ToSet(BaseState.seen), Held \cup Queued(inbox)) /\ Ahead(Held, Queued(inbox))
  BY DEF Ordered
<1>7. /\ Ahead(ToSet(BaseState.seen), Held \cup Queued(new)) /\ Ahead(Held, Queued(new))
  BY <1>2, <1>3, <1>5, <1>6 DEF Ahead
<1> QED BY <1>4, <1>7 DEF Sorted, new

\* Whatever a step settles or moves, no known message is newer than a pending one.
LEMMA NumberedStep ==
  ASSUME Ordered, sent' = sent,
         \/ inbox'.pending = inbox.pending /\ Known' \subseteq Known
         \/ inbox'.pending = <<>> /\ Known' \subseteq Known \cup ToSet(inbox.pending)
  PROVE  Numbered'
BY SetOfNone DEF Ordered, Numbered

\* A step that ends the run and puts no checkpoint.
LEMMA ReturnOrdered ==
  ASSUME IInv, Ordered, run' = NoRun, log' = log, base' = base, sent' = sent,
         Sorted(inbox'),
         \/ inbox'.pending = inbox.pending /\ Queued(inbox') \subseteq Queued(inbox)
         \/ /\ inbox'.pending = <<>>
            /\ Queued(inbox') \subseteq Queued(inbox) \cup ToSet(inbox.pending)
  PROVE  Ordered'
<1>1. run'.carried = <<>> /\ run'.delivery = <<>> /\ Held' = {}
  BY SetOfNone DEF NoRun, Held
<1>2. InOrder(inbox'.pending) /\ InOrder(run'.carried) /\ InOrder(run'.delivery)
  BY <1>1, InOrderNone DEF Ordered
<1>3. Numbered'
  BY <1>1, NumberedStep DEF Known
<1>4. BaseState' = BaseState
  BY DEF BaseState
<1>5. Queued(Settled(inbox)) = Queued(inbox) \cup ToSet(inbox.pending)
  BY LiveFacts, SettledFacts
<1>6. Ahead(ToSet(BaseState'.seen), Held' \cup Queued(inbox')) /\ Ahead(Held', Queued(inbox'))
  BY <1>1, <1>4, <1>5, SettledOrdered DEF Ahead
<1> QED BY <1>2, <1>3, <1>6 DEF Ordered

\* A step that puts a checkpoint whose stamp is the handle's snapshot.
LEMMA PutOrdered ==
  ASSUME IInv, Ordered, inbox' \in InboxType, sent' = sent,
         NEW c \in Header, c.prev = base, Put(c),
         NEW d \in Seq(Message), c.stamp = Snapshot(inbox', d),
         Sorted(inbox'), InOrder(d), InOrder(c.state.seen),
         Ahead(ToSet(c.state.seen), ToSet(d) \cup Queued(inbox')),
         Ahead(ToSet(d), Queued(inbox')),
         Held' = {} \/ Held' = ToSet(d), InOrder(run'.carried), InOrder(run'.delivery),
         \/ /\ inbox'.pending = inbox.pending
            /\ Queued(inbox') \cup ToSet(d) \cup ToSet(c.state.seen) \subseteq Known
         \/ /\ inbox'.pending = <<>>
            /\ Queued(inbox') \cup ToSet(d) \cup ToSet(c.state.seen)
                 \subseteq Known \cup ToSet(inbox.pending)
  PROVE  Ordered'
<1>1. /\ base' # 0 /\ log'[base'] = c
      /\ \A i \in DOMAIN log' : (i \in DOMAIN log /\ log'[i] = log[i]) \/ log'[i] = c
  BY PutFacts DEF IInv
<1>2. /\ Stamped(c.stamp) \subseteq Queued(inbox') \cup ToSet(d)
      /\ c.stamp # None => /\ c.stamp.pending_delivery = d
                           /\ \A k \in Kinds : c.stamp[k] = inbox'[k]
  BY SnapshotFacts, BoxTyped
<1>3. c.stamp # None => Sorted(c.stamp) /\ Queued(c.stamp) = Queued(inbox')
  BY <1>2 DEF Sorted, Queued, Kinds
<1>4. Logged(c)
  BY <1>2, <1>3 DEF Logged, Ahead
<1>5. \A i \in DOMAIN log' : Logged(log'[i])
  BY <1>1, <1>4 DEF Ordered
<1>6. Past(log') \subseteq Past(log) \cup ToSet(c.state.seen) \cup Queued(inbox') \cup ToSet(d)
  BY <1>1, <1>2 DEF Past
<1>7. Numbered'
  BY <1>6, NumberedStep DEF Known
<1>8. BaseState' = c.state
  BY <1>1 DEF BaseState
<1>9. Ahead(ToSet(BaseState'.seen), Held' \cup Queued(inbox')) /\ Ahead(Held', Queued(inbox'))
  BY <1>8 DEF Ahead
<1>10. InOrder(inbox'.pending)
  BY InOrderNone DEF Ordered
<1> QED BY <1>5, <1>7, <1>9, <1>10 DEF Ordered

\* Known messages are messages.
LEMMA KnownTyped ==
  ASSUME IInv
  PROVE  Known \subseteq Message
<1>1. /\ ToSet(run.carried) \subseteq Message /\ ToSet(run.delivery) \subseteq Message
      /\ ToSet(inbox.steering) \subseteq Message /\ ToSet(inbox.followup) \subseteq Message
      /\ ToSet(inbox.injected) \subseteq Message
  BY LiveFacts, LocalsTyped, BoxTyped, SetOf
<1>2. ASSUME NEW c \in DOMAIN log
      PROVE  ToSet(log[c].state.seen) \subseteq Message /\ Stamped(log[c].stamp) \subseteq Message
  <2>1. log[c].state.seen \in Seq(Message) /\ log[c].stamp \in SnapshotType
    BY LogTyped, HeaderTyped DEF IInv
  <2>2. log[c].stamp # None => log[c].stamp \in InboxSnapshot
    BY <2>1 DEF SnapshotType
  <2>3. log[c].stamp # None =>
          /\ log[c].stamp.steering \in Seq(Message) /\ log[c].stamp.followup \in Seq(Message)
          /\ log[c].stamp.injected \in Seq(Message)
          /\ log[c].stamp.pending_delivery \in Seq(Message)
    BY <2>2 DEF InboxSnapshot
  <2> QED BY <2>1, <2>3, SetOf DEF Stamped
<1> QED BY <1>1, <1>2 DEF Known, Held, Queued, Past

\* A step that touches none of what the order is about.
LEMMA SameOrdered ==
  ASSUME Ordered, log' = log, base' = base, sent' = sent, inbox'.pending = inbox.pending,
         \A k \in Kinds : inbox'[k] = inbox[k],
         run'.carried = run.carried, run'.delivery = run.delivery
  PROVE  Ordered'
<1>1. Queued(inbox') = Queued(inbox)
  BY DEF Kinds, Queued
<1>2. Held' = Held /\ BaseState' = BaseState
  BY DEF Held, BaseState
<1>3. Sorted(inbox')
  BY DEF Ordered, Sorted
<1>4. Numbered'
  BY <1>1, <1>2, NumberedStep DEF Known
<1> QED BY <1>1, <1>2, <1>3, <1>4 DEF Ordered

LEMMA InitOrdered == Init => Ordered
<1> SUFFICES ASSUME Init PROVE Ordered
  OBVIOUS
<1>1. inbox = FreshInbox /\ run = NoRun /\ log = <<>> /\ base = 0 /\ sent = 0
  BY DEF Init
<1>2. run.delivery = <<>> /\ run.carried = <<>> /\ Held = {}
  BY <1>1, SetOfNone DEF NoRun, Held
<1>3. /\ inbox.pending = <<>> /\ Queued(inbox) = {} /\ \A k \in Kinds : inbox[k] = <<>>
  BY <1>1, FreshFacts
<1>4. Sorted(inbox)
  BY <1>3, SetOfNone, InOrderNone DEF Sorted
<1>5. DOMAIN log = {} /\ Past(log) = {}
  BY <1>1 DEF Past
<1>6. Numbered
  BY <1>2, <1>3, <1>5, SetOfNone DEF Numbered, Known
<1> QED BY <1>2, <1>3, <1>4, <1>5, <1>6, SetOfNone, InOrderNone DEF Ordered, Ahead

LEMMA StartOrdered == IInv /\ Ordered /\ Start => Ordered'
<1> SUFFICES ASSUME IInv, Ordered, Start PROVE Ordered'
  OBVIOUS
<1>1. /\ run' = Loop(EmptyState, 0, Plain(<<Entry>>), <<>>, FALSE)
      /\ base' = 0 /\ log' = log /\ inbox' = inbox /\ sent' = sent
  BY DEF Start
<1>2. run'.carried = <<>> /\ run'.delivery = <<>> /\ Held' = {}
  BY <1>1, SetOfNone DEF Loop, NoRun, Held
<1>3. ToSet(BaseState'.seen) = {}
  BY <1>1, SetOfNone DEF BaseState, EmptyState
<1>4. Numbered'
  BY <1>1, <1>2, NumberedStep DEF Known
<1> QED BY <1>1, <1>2, <1>3, <1>4, InOrderNone DEF Ordered, Ahead

\* A resume from where the handle was used last, or with a handle that has settled
\* nothing, or with a fresh one that takes the stamp over.
LEMMA ResumeOrdered ==
  ASSUME IInv, Ordered, NEW c \in DOMAIN log, NEW over \in BOOLEAN, Resume(c, over),
         c = base \/ Queued(inbox) = {}
  PROVE  Ordered'
<1> DEFINE box == Seeded(inbox, log[c].stamp)
           carried == Carried(log[c])
<1>1. /\ inbox' = box /\ base' = c /\ log' = log /\ sent' = sent
      /\ run' = IF log[c].next = <<>> THEN NoRun
                ELSE Loop(log[c].state, log[c].step, Restored(log[c]), carried, over)
  BY DEF Resume
<1>2. /\ log[c] \in Header /\ c \in Nat /\ c # 0 /\ log[c].stamp \in SnapshotType
  BY LogTyped, HeaderTyped DEF IInv
<1>3. /\ inbox \in InboxType /\ (~inbox.touched => inbox.pending = <<>>)
      /\ inbox.touched \in BOOLEAN
  BY LiveFacts, BoxTyped
<1>4. /\ inbox.touched \/ log[c].stamp = None => box = inbox
      /\ ~inbox.touched /\ log[c].stamp # None =>
           /\ box.pending = inbox.pending
           /\ \A k \in Kinds : box[k] = log[c].stamp[k]
           /\ Queued(box) \cup ToSet(log[c].stamp.pending_delivery) = Stamped(log[c].stamp)
  BY <1>2, <1>3, SeededFacts
<1>5. carried = IF inbox.touched \/ log[c].stamp = None THEN <<>>
                ELSE log[c].stamp.pending_delivery
  BY DEF Carried
<1> HIDE DEF box, carried
<1>6. /\ run'.delivery = <<>> /\ run'.carried \in {<<>>, carried}
      /\ Held' = ToSet(run'.carried)
  BY <1>1, SetOfNone DEF Loop, NoRun, Held
<1>7. BaseState' = log[c].state /\ Logged(log[c])
      /\ Stamped(log[c].stamp) \subseteq Past(log)
  BY <1>1, <1>2 DEF BaseState, Ordered, Past
<1>8. CASE inbox.touched \/ log[c].stamp = None
  <2>1. inbox' = inbox /\ run'.carried = <<>> /\ Held' = {}
    BY <1>1, <1>4, <1>5, <1>6, <1>8, SetOfNone
  <2>2. Ahead(ToSet(log[c].state.seen), Queued(inbox))
    <3>1. CASE c = base
      <4>1. BaseState = log[c].state
        BY <1>2, <3>1 DEF BaseState
      <4> QED BY <4>1 DEF Ordered, Ahead
    <3>2. CASE Queued(inbox) = {}
      BY <3>2 DEF Ahead
    <3> QED BY <3>1, <3>2
  <2>3. Numbered'
    BY <1>1, <2>1, NumberedStep DEF Known
  <2> QED BY <1>1, <1>6, <1>7, <2>1, <2>2, <2>3, InOrderNone DEF Ordered, Ahead
<1>9. CASE ~inbox.touched /\ log[c].stamp # None
  <2> DEFINE stamp == log[c].stamp
  <2>1. /\ Sorted(stamp) /\ InOrder(stamp.pending_delivery)
        /\ Ahead(ToSet(log[c].state.seen), Stamped(stamp))
        /\ Ahead(ToSet(stamp.pending_delivery), Queued(stamp))
    BY <1>7, <1>9 DEF Logged
  <2>2. Sorted(inbox') /\ Queued(inbox') = Queued(stamp)
    BY <1>1, <1>4, <1>9, <2>1 DEF Sorted, Queued, Kinds
  <2>3. inbox'.pending = inbox.pending
    BY <1>1, <1>4, <1>9
  <2>4. /\ InOrder(run'.carried) /\ InOrder(run'.delivery)
        /\ Held' = {} \/ Held' = ToSet(stamp.pending_delivery)
    BY <1>5, <1>6, <1>9, <2>1, SetOfNone, InOrderNone
  <2>5. Held' \cup Queued(inbox') \subseteq Stamped(stamp)
    BY <1>1, <1>4, <1>9, <2>4
  <2>6. Numbered'
    BY <1>1, <1>7, <2>3, <2>5, NumberedStep DEF Known
  <2>7. Ahead(ToSet(BaseState'.seen), Held' \cup Queued(inbox'))
    BY <1>7, <2>1, <2>5 DEF Ahead
  <2>8. Ahead(Held', Queued(inbox'))
    BY <2>1, <2>2, <2>4 DEF Ahead
  <2>9. InOrder(inbox'.pending)
    BY <2>3 DEF Ordered
  <2> QED BY <1>1, <2>2, <2>4, <2>6, <2>7, <2>8, <2>9 DEF Ordered
<1> QED BY <1>3, <1>8, <1>9

\* A send gets the next number.
LEMMA SendOrdered ==
  ASSUME IInv, Ordered, NEW k \in Kinds, Send(k)
  PROVE  Ordered'
<1> DEFINE m == [id |-> sent + 1, kind |-> k]
<1>1. /\ inbox' = Sent(inbox, m) /\ sent' = sent + 1 /\ log' = log /\ base' = base /\ run' = run
  BY DEF Send
<1>2. inbox \in InboxType /\ sent \in Nat /\ m \in Message /\ m.id = sent + 1
  BY DEF IInv, Typed, Message
<1>3. inbox.pending \in Seq(Message)
  BY <1>2, BoxTyped
<1>4. /\ inbox'.pending = Append(inbox.pending, m)
      /\ inbox'.steering = inbox.steering /\ inbox'.followup = inbox.followup
      /\ inbox'.injected = inbox.injected
  BY <1>1, <1>2 DEF Sent, InboxType
<1> HIDE DEF m
<1>5. Queued(inbox') = Queued(inbox) /\ \A l \in Kinds : inbox'[l] = inbox[l]
  BY <1>4 DEF Kinds, Queued
<1>6. ToSet(inbox'.pending) = ToSet(inbox.pending) \cup {m}
  BY <1>2, <1>3, <1>4, SetOfAppend
<1>7. Held' = Held /\ BaseState' = BaseState /\ Known' = Known
  BY <1>1, <1>5 DEF Held, BaseState, Known
<1>8. /\ \A n \in ToSet(inbox.pending) : n.id \in Nat /\ n.id <= sent
  <2>1. ToSet(inbox.pending) \subseteq Message
    BY <1>3, SetOf
  <2> QED BY <2>1 DEF Ordered, Numbered, Message
<1>9. InOrder(inbox'.pending)
  <2>1. \A n \in ToSet(inbox.pending) : n.id < m.id
    BY <1>2, <1>8
  <2> QED BY <1>2, <1>3, <1>4, <2>1, InOrderAppend DEF Ordered
<1>10. \A n \in Known : n.id \in Nat /\ n.id <= sent
  BY KnownTyped DEF Ordered, Numbered, Message
<1>11. Numbered'
  BY <1>1, <1>2, <1>6, <1>7, <1>8, <1>10 DEF Ordered, Numbered
<1>12. Sorted(inbox')
  BY <1>5 DEF Ordered, Sorted
<1> QED BY <1>1, <1>5, <1>7, <1>9, <1>11, <1>12 DEF Ordered

LEMMA CancelOrdered ==
  ASSUME IInv, Ordered, NEW keep \in BOOLEAN, Cancel(keep)
  PROVE  Ordered'
<1>1. inbox' = Cancelled(inbox, keep) /\ sent' = sent /\ log' = log /\ base' = base /\ run' = run
  BY DEF Cancel
<1>2. /\ inbox'.pending = inbox.pending /\ inbox'.steering = inbox.steering
      /\ inbox'.followup = inbox.followup /\ inbox'.injected = inbox.injected
  BY <1>1, LiveFacts DEF Cancelled, InboxType
<1>3. \A k \in Kinds : inbox'[k] = inbox[k]
  BY <1>2 DEF Kinds
<1> QED BY <1>1, <1>2, <1>3, SameOrdered

LEMMA QuietOrdered ==
  ASSUME IInv, Ordered, Drain \/ \E i \in DOMAIN run.active : \E goto : NodeOk(i, goto)
  PROVE  Ordered'
<1>1. /\ inbox' = inbox /\ sent' = sent /\ log' = log /\ base' = base
      /\ \/ run' = [run EXCEPT !.token = TRUE]
         \/ \E r : run' = [run EXCEPT !.results = r]
  BY DEF Drain, NodeOk
<1>2. run'.carried = run.carried /\ run'.delivery = run.delivery
  BY <1>1, LiveFacts DEF Locals
<1> QED BY <1>1, <1>2, SameOrdered

LEMMA HandleOrdered == IInv /\ Ordered /\ (NewHandle \/ Crash) => Ordered'
<1> SUFFICES ASSUME IInv, Ordered, NewHandle \/ Crash PROVE Ordered'
  OBVIOUS
<1>1. inbox' = FreshInbox /\ sent' = sent /\ log' = log /\ base' = base
  BY DEF NewHandle, Crash
<1>2. run' = NoRun
  BY DEF NewHandle, Crash, Return, Live, IInv, Placed
<1>3. Sorted(inbox')
  BY <1>1, FreshFacts, SetOfNone, InOrderNone DEF Sorted
<1> QED BY <1>1, <1>2, <1>3, FreshFacts, ReturnOrdered

\* The checkpoints of the boundary keep the order.
LEMMA CeilingOrdered == IInv /\ Ordered /\ Ceiling => Ordered'
<1> SUFFICES ASSUME IInv, Ordered, Ceiling PROVE Ordered'
  OBVIOUS
<1>1. PICK none \in Seq(Message) : none = <<>>
  <2>1. <<>> \in Seq(Message)
    OBVIOUS
  <2> QED BY <2>1
<1> DEFINE stamp == Snapshot(inbox, none)
           c == Checkpoint(run.step, run.state, run.active, stamp)
<1>2. /\ run.pc = "boundary" /\ Put(c) /\ run' = NoRun /\ inbox' = inbox /\ sent' = sent
  BY <1>1 DEF Ceiling, Return
<1>3. inbox \in InboxType /\ stamp \in SnapshotType /\ run.state = BaseState
  BY <1>2, LiveFacts, SnapshotFacts
<1>4. c \in Header /\ c.state = BaseState /\ c.stamp = stamp /\ c.prev = base
  <2> HIDE DEF stamp
  <2> QED BY <1>3, LiveFacts, LocalsTyped, CheckpointFacts DEF IInv
<1> HIDE DEF c
<1>5. run'.carried = <<>> /\ run'.delivery = <<>> /\ Held' = {}
  BY <1>2, SetOfNone DEF NoRun, Held
<1>6. ToSet(none) = {} /\ InOrder(none) /\ InOrder(run'.carried) /\ InOrder(run'.delivery)
  BY <1>1, <1>5, SetOfNone, InOrderNone
<1>7. /\ InOrder(c.state.seen) /\ ToSet(c.state.seen) \subseteq Known
  BY <1>4, BaseOrdered DEF Known
<1>8. /\ Sorted(inbox') /\ Queued(inbox') \subseteq Known
      /\ Ahead(ToSet(c.state.seen), ToSet(none) \cup Queued(inbox'))
      /\ Ahead(ToSet(none), Queued(inbox'))
  BY <1>2, <1>4, <1>6 DEF Ordered, Ahead, Known
<1> QED BY <1>2, <1>3, <1>4, <1>5, <1>6, <1>7, <1>8, PutOrdered

LEMMA TypedCancelOrdered == IInv /\ Ordered /\ TypedCancel => Ordered'
<1> SUFFICES ASSUME IInv, Ordered, TypedCancel PROVE Ordered'
  OBVIOUS
<1> DEFINE settled == [Settled(inbox) EXCEPT !.cancel = None]
           box == IF inbox.cancel THEN settled ELSE Cleared(settled)
           delivery == IF inbox.cancel THEN run.carried ELSE <<>>
           stamp == Snapshot(box, delivery)
           c == Checkpoint(run.step, run.state, run.active, stamp)
<1>1. /\ run.pc = "boundary" /\ Put(c) /\ run' = NoRun
      /\ inbox.cancel # None /\ inbox' = box /\ sent' = sent
  BY DEF TypedCancel, Return
<1>2. inbox.cancel \in BOOLEAN
  BY <1>1, LiveFacts, BoxTyped
<1>3. /\ box \in InboxType /\ box.pending = <<>>
      /\ Queued(box) \subseteq Queued(inbox) \cup ToSet(inbox.pending)
      /\ \A k \in Kinds : box[k] = Settled(inbox)[k] \/ box[k] = <<>>
  BY <1>2, CancelBox
<1> HIDE DEF settled, box
<1>4. /\ delivery \in Seq(Message) /\ InOrder(delivery) /\ ToSet(delivery) \subseteq Held
  <2>1. <<>> \in Seq(Message)
    OBVIOUS
  <2> QED BY <1>1, <1>2, <2>1, LiveFacts, LocalsTyped, SetOfNone, InOrderNone DEF Ordered
<1> HIDE DEF delivery
<1>5. stamp \in SnapshotType /\ run.state = BaseState
  BY <1>1, <1>3, <1>4, LiveFacts, SnapshotFacts
<1>6. c \in Header /\ c.state = BaseState /\ c.stamp = stamp /\ c.prev = base
  <2> HIDE DEF stamp
  <2> QED BY <1>5, LiveFacts, LocalsTyped, CheckpointFacts DEF IInv
<1> HIDE DEF c
<1>7. run'.carried = <<>> /\ run'.delivery = <<>> /\ Held' = {}
  BY <1>1, SetOfNone DEF NoRun, Held
<1>8. InOrder(run'.carried) /\ InOrder(run'.delivery)
  BY <1>7, InOrderNone
<1>9. /\ InOrder(c.state.seen) /\ ToSet(c.state.seen) \cup ToSet(delivery) \subseteq Known
  BY <1>4, <1>6, BaseOrdered DEF Known
<1>10. Sorted(box)
  BY <1>3, SettledOrdered, SortedShrinks
<1>11. /\ Ahead(ToSet(c.state.seen), ToSet(delivery) \cup Queued(box))
       /\ Ahead(ToSet(delivery), Queued(box))
  <2>1. Queued(Settled(inbox)) = Queued(inbox) \cup ToSet(inbox.pending)
    BY LiveFacts, SettledFacts
  <2> QED BY <1>3, <1>4, <1>6, <2>1, SettledOrdered DEF Ahead
<1>12. Queued(box) \subseteq Known \cup ToSet(inbox.pending)
  BY <1>3 DEF Known
<1> QED BY <1>1, <1>3, <1>4, <1>6, <1>7, <1>8, <1>9, <1>10, <1>11, <1>12, PutOrdered

LEMMA BoundaryPutFailsOrdered == IInv /\ Ordered /\ BoundaryPutFails => Ordered'
<1> SUFFICES ASSUME IInv, Ordered, BoundaryPutFails PROVE Ordered'
  OBVIOUS
<1> DEFINE settled == [Settled(inbox) EXCEPT !.cancel = None]
           box == IF inbox.cancel THEN settled ELSE Cleared(settled)
<1>1. /\ run' = NoRun /\ sent' = sent /\ log' = log /\ base' = base
      /\ inbox' = inbox \/ (inbox.cancel # None /\ inbox' = box)
  BY DEF BoundaryPutFails, Return
<1>2. CASE inbox' = inbox
  BY <1>1, <1>2, ReturnOrdered DEF Ordered
<1>3. CASE inbox.cancel # None /\ inbox' = box
  <2>1. inbox.cancel \in BOOLEAN
    BY <1>3, LiveFacts, BoxTyped
  <2>2. /\ box.pending = <<>>
        /\ Queued(box) \subseteq Queued(inbox) \cup ToSet(inbox.pending)
        /\ \A k \in Kinds : box[k] = Settled(inbox)[k] \/ box[k] = <<>>
    BY <2>1, CancelBox
  <2> HIDE DEF settled, box
  <2>3. Sorted(box)
    BY <2>2, SettledOrdered, SortedShrinks
  <2> QED BY <1>1, <1>3, <2>2, <2>3, ReturnOrdered
<1> QED BY <1>1, <1>2, <1>3

\* The batch of a step: what was carried, then the queues it drains, each behind it.
LEMMA BatchOrdered ==
  ASSUME IInv, Ordered, run.pc = "boundary"
  PROVE  LET box == Settled(inbox)
         IN /\ InOrder(Batch(box)) /\ Sorted(Drained(box))
            /\ Ahead(ToSet(Batch(box)), Queued(Drained(box)))
<1> DEFINE box == Settled(inbox)
           rest == IF Woken(box) THEN box.injected ELSE <<>>
           front == run.carried \o box.steering
<1>1. /\ box \in InboxType /\ Sorted(box) /\ Ahead(ToSet(run.carried), Queued(box))
      /\ run \in Locals /\ run.carried \in Seq(Message) /\ InOrder(run.carried)
  BY LiveFacts, LocalsTyped, SettledFacts, SettledOrdered DEF Ordered
<1> HIDE DEF box
<1>2. /\ box.steering \in Seq(Message) /\ rest \in Seq(Message)
  <2>1. <<>> \in Seq(Message)
    OBVIOUS
  <2> QED BY <1>1, <2>1, BoxTyped
<1>3. /\ InOrder(box.steering) /\ InOrder(rest)
      /\ \A m \in ToSet(box.steering) : m.kind = "steering"
      /\ \A m \in ToSet(box.followup) : m.kind = "followup"
      /\ \A m \in ToSet(box.injected) : m.kind = "injected"
      /\ ToSet(rest) \subseteq ToSet(box.injected)
  BY <1>1, SortedFacts, InOrderNone, SetOfNone
<1>4. /\ Batch(box) = front \o rest
      /\ Drained(box).steering = <<>> /\ Drained(box).followup = box.followup
      /\ Drained(box).injected = IF Woken(box) THEN <<>> ELSE box.injected
      /\ ToSet(Batch(box)) = ToSet(run.carried) \cup ToSet(box.steering)
              \cup (IF Woken(box) THEN ToSet(box.injected) ELSE {})
      /\ Shrinks(Drained(box), box)
  BY <1>1, BatchFacts
<1> HIDE DEF rest
<1>5. front \in Seq(Message) /\ ToSet(front) = ToSet(run.carried) \cup ToSet(box.steering)
  BY <1>1, <1>2, SetOf
<1>6. InOrder(front)
  <2>1. Ahead(ToSet(run.carried), ToSet(box.steering))
    BY <1>1 DEF Ahead, Queued
  <2> QED BY <1>1, <1>2, <1>3, <2>1, InOrderJoin
<1> HIDE DEF front
<1>7. InOrder(front \o rest)
  <2>1. Ahead(ToSet(front), ToSet(rest))
    BY <1>1, <1>3, <1>5 DEF Ahead, Queued
  <2> QED BY <1>2, <1>3, <1>5, <1>6, <2>1, InOrderJoin
<1>8. Sorted(Drained(box))
  BY <1>1, <1>4, SortedShrinks DEF Shrinks
<1>9. Ahead(ToSet(Batch(box)), Queued(Drained(box)))
  <2>1. Queued(Drained(box)) = ToSet(box.followup) \cup (IF Woken(box) THEN {} ELSE ToSet(box.injected))
    BY <1>4, SetOfNone DEF Queued
  <2> QED BY <1>1, <1>3, <1>4, <2>1 DEF Ahead, Queued
<1> QED BY <1>4, <1>7, <1>8, <1>9 DEF box

LEMMA BeginStepOrdered == IInv /\ Ordered /\ BeginStep => Ordered'
<1> SUFFICES ASSUME IInv, Ordered, BeginStep PROVE Ordered'
  OBVIOUS
<1> DEFINE box == Settled(inbox)
<1>1. /\ run.pc = "boundary" /\ inbox' = Drained(box)
      /\ run' = IF run.token THEN NoRun
                ELSE [run EXCEPT !.pc = "step", !.delivery = Batch(box), !.carried = <<>>,
                                 !.turn_start = FALSE, !.results = <<>>]
      /\ log' = log /\ base' = base /\ sent' = sent
  BY DEF BeginStep
<1>2. /\ box \in InboxType /\ box.pending = <<>>
      /\ Queued(box) = Queued(inbox) \cup ToSet(inbox.pending)
  BY LiveFacts, SettledFacts
<1>3. /\ InOrder(Batch(box)) /\ Sorted(Drained(box))
      /\ Ahead(ToSet(Batch(box)), Queued(Drained(box)))
  BY <1>1, BatchOrdered
<1>4. Ahead(ToSet(BaseState.seen), Held \cup Queued(box))
  BY SettledOrdered
<1> HIDE DEF box
<1>5. /\ Drained(box).pending = <<>>
      /\ Queued(Drained(box)) \cup ToSet(Batch(box)) = Queued(box) \cup Held
  BY <1>1, <1>2, LiveFacts, BatchFacts
<1>6. CASE run.token
  <2>1. run' = NoRun
    BY <1>1, <1>6
  <2>2. Queued(Drained(box)) \subseteq Queued(box)
    BY <1>2, LiveFacts, BatchFacts, ShrinksFacts
  <2> QED BY <1>1, <1>2, <1>3, <1>5, <2>1, <2>2, ReturnOrdered
<1>7. CASE ~run.token
  <2>1. run'.carried = <<>> /\ run'.delivery = Batch(box)
    BY <1>1, <1>7, LiveFacts DEF Locals
  <2>2. Held' = ToSet(Batch(box)) /\ BaseState' = BaseState
    BY <1>1, <2>1, SetOfNone DEF Held, BaseState
  <2>3. Numbered'
    BY <1>1, <1>2, <1>5, <2>2, NumberedStep DEF Known
  <2>4. Ahead(ToSet(BaseState'.seen), Held' \cup Queued(inbox')) /\ Ahead(Held', Queued(inbox'))
    BY <1>1, <1>3, <1>4, <1>5, <2>2 DEF Ahead
  <2>5. InOrder(inbox'.pending) /\ InOrder(run'.carried) /\ InOrder(run'.delivery)
    BY <1>1, <1>3, <1>5, <2>1, InOrderNone
  <2> QED BY <1>1, <1>3, <2>3, <2>4, <2>5 DEF Ordered
<1> QED BY <1>6, <1>7, LiveFacts, LocalsTyped

LEMMA NodeInterruptOrdered ==
  ASSUME IInv, Ordered, NEW i, NodeInterrupt(i)
  PROVE  Ordered'
<1> DEFINE stamp == Snapshot(inbox, run.delivery)
           c == Checkpoint(run.step, run.state, run.active, stamp)
<1>1. run.pc = "step" /\ Put(c) /\ run' = NoRun /\ inbox' = inbox /\ sent' = sent
  BY DEF NodeInterrupt, Return, Suspended
<1>2. /\ inbox \in InboxType /\ run.delivery \in Seq(Message) /\ stamp \in SnapshotType
      /\ run.state = BaseState /\ Held = ToSet(run.delivery)
  BY <1>1, LiveFacts, LocalsTyped, SnapshotFacts
<1>3. c \in Header /\ c.state = BaseState /\ c.stamp = stamp /\ c.prev = base
  <2> HIDE DEF stamp
  <2> QED BY <1>2, LiveFacts, LocalsTyped, CheckpointFacts DEF IInv
<1> HIDE DEF c
<1>4. run'.carried = <<>> /\ run'.delivery = <<>> /\ Held' = {}
  BY <1>1, SetOfNone DEF NoRun, Held
<1>5. InOrder(run'.carried) /\ InOrder(run'.delivery)
  BY <1>4, InOrderNone
<1>6. InOrder(c.state.seen) /\ ToSet(c.state.seen) \subseteq Known
  BY <1>3, BaseOrdered DEF Known
<1>7. /\ Sorted(inbox') /\ Queued(inbox') \subseteq Known /\ ToSet(run.delivery) \subseteq Known
      /\ InOrder(run.delivery)
      /\ Ahead(ToSet(c.state.seen), ToSet(run.delivery) \cup Queued(inbox'))
      /\ Ahead(ToSet(run.delivery), Queued(inbox'))
  BY <1>1, <1>2, <1>3 DEF Ordered, Known
<1> QED BY <1>1, <1>2, <1>3, <1>4, <1>5, <1>6, <1>7, PutOrdered

LEMMA NodeFailsOrdered == IInv /\ Ordered /\ NodeFails => Ordered'
BY ReturnOrdered DEF NodeFails, Return, Ordered

\* The batch of an extended turn leaves only steering behind.
LEMMA ExtensionOrdered ==
  ASSUME NEW box \in InboxType, Sorted(box)
  PROVE  /\ InOrder(Extension(box)) /\ Sorted(Extended(box))
         /\ Ahead(ToSet(Extension(box)), Queued(Extended(box)))
<1>1. /\ box.followup \in Seq(Message) /\ box.injected \in Seq(Message)
  BY BoxTyped
<1>2. /\ InOrder(box.followup) /\ InOrder(box.injected)
      /\ \A m \in ToSet(box.steering) : m.kind = "steering"
      /\ \A m \in ToSet(box.followup) : m.kind = "followup"
      /\ \A m \in ToSet(box.injected) : m.kind = "injected"
  BY SortedFacts
<1>3. /\ Extension(box) = IF box.followup = <<>> THEN <<>> ELSE box.followup \o box.injected
      /\ Shrinks(Extended(box), box)
      /\ Extended(box).steering = box.steering
      /\ Extended(box).followup = <<>>
      /\ Extended(box).injected = IF box.followup = <<>> THEN box.injected ELSE <<>>
  BY ExtensionFacts
<1>4. /\ InOrder(box.followup \o box.injected)
      /\ ToSet(box.followup \o box.injected) = ToSet(box.followup) \cup ToSet(box.injected)
  <2>1. Ahead(ToSet(box.followup), ToSet(box.injected))
    BY <1>2 DEF Ahead
  <2> QED BY <1>1, <1>2, <2>1, InOrderJoin, SetOf
<1>5. InOrder(Extension(box))
  BY <1>3, <1>4, InOrderNone
<1>6. Sorted(Extended(box))
  BY <1>3, SortedShrinks DEF Shrinks
<1>7. Ahead(ToSet(Extension(box)), Queued(Extended(box)))
  <2>1. CASE box.followup = <<>>
    BY <1>3, <2>1, SetOfNone DEF Ahead
  <2>2. CASE box.followup # <<>>
    <3>1. Queued(Extended(box)) = ToSet(box.steering)
      BY <1>3, <2>2, SetOfNone DEF Queued
    <3> QED BY <1>2, <1>3, <1>4, <2>2, <3>1 DEF Ahead
  <2> QED BY <2>1, <2>2
<1> QED BY <1>5, <1>6, <1>7

LEMMA BarrierFailsOrdered == IInv /\ Ordered /\ BarrierFails => Ordered'
<1> SUFFICES ASSUME IInv, Ordered, BarrierFails PROVE Ordered'
  OBVIOUS
<1>1. /\ run' = NoRun /\ sent' = sent /\ log' = log /\ base' = base
      /\ inbox' = inbox \/ inbox' = Extended(Settled(inbox))
  BY DEF BarrierFails, Return
<1>2. CASE inbox' = inbox
  BY <1>1, <1>2, ReturnOrdered DEF Ordered
<1>3. CASE inbox' = Extended(Settled(inbox))
  <2> DEFINE box == Settled(inbox)
  <2>1. /\ box \in InboxType /\ box.pending = <<>> /\ Sorted(box)
        /\ Queued(box) = Queued(inbox) \cup ToSet(inbox.pending)
    BY LiveFacts, SettledFacts, SettledOrdered
  <2> HIDE DEF box
  <2>2. /\ Extended(box).pending = <<>> /\ Sorted(Extended(box))
        /\ Queued(Extended(box)) \subseteq Queued(box)
    BY <2>1, ExtensionFacts, ExtensionOrdered
  <2>3. inbox' = Extended(box)
    BY <1>3 DEF box
  <2> QED BY <1>1, <2>1, <2>2, <2>3, ReturnOrdered
<1> QED BY <1>1, <1>2, <1>3

\* The barrier appends the delivered batch to what was seen.
LEMMA BarrierOrdered ==
  ASSUME IInv, Ordered, NEW route \in RouteChoices, NEW over \in BOOLEAN, Barrier(route, over)
  PROVE  Ordered'
<1> DEFINE state == Merged(run.results)
           routed == NextTasks(run.results, route)
           ends == routed = <<>>
           settled == IF ends THEN Settled(inbox) ELSE inbox
           extension == IF ends THEN Extension(settled) ELSE <<>>
           box == IF ends THEN Extended(settled) ELSE inbox
           next == IF extension # <<>> THEN Plain(<<Entry>>) ELSE routed
           stamp == Snapshot(box, extension)
           c == Checkpoint(run.step, state, next, stamp)
<1>1. /\ run.pc = "step" /\ AllJoined /\ inbox' = box /\ Put(c)
      /\ run' = IF over \/ next = <<>> THEN NoRun
                ELSE [run EXCEPT !.pc = "boundary", !.state = state, !.active = next,
                                 !.step = @ + 1, !.steps_run = @ + 1, !.carried = extension,
                                 !.turn_start = extension # <<>>,
                                 !.delivery = <<>>, !.results = <<>>]
      /\ sent' = sent
  BY DEF Barrier, BoundaryStamp
<1>2. /\ run \in Locals /\ run.step \in Nat /\ run.state = BaseState
      /\ run.state.seen \in Seq(Message) /\ run.delivery \in Seq(Message)
      /\ Held = ToSet(run.delivery)
  BY <1>1, LiveFacts, LocalsTyped
<1>3. /\ state \in State /\ state.seen = run.state.seen \o run.delivery
      /\ ToSet(state.seen) = ToSet(run.state.seen) \cup ToSet(run.delivery)
  BY <1>1, MergedFacts
<1>4. routed \in Seq(Task)
  <2>1. run.active \in Seq(Task) /\ run.results \in Seq(Result)
    BY <1>2, LocalsTyped
  <2>2. Joins(run.results, run.active)
    BY DEF IInv, Joined
  <2>3. /\ route \in [{run.active[i].name : i \in DOMAIN run.active}
                        -> UNION {Routes[n] : n \in Nodes}]
        /\ \A n \in DOMAIN route : route[n] \in Routes[n]
    BY DEF RouteChoices
  <2> QED BY <2>1, <2>2, <2>3, NextTyped
<1> HIDE DEF state, routed
<1>5. /\ settled \in InboxType /\ Sorted(settled)
      /\ Ahead(ToSet(BaseState.seen), Held \cup Queued(settled))
      /\ Ahead(Held, Queued(settled))
      /\ \/ settled.pending = inbox.pending /\ Queued(settled) = Queued(inbox) /\ ~ends
         \/ settled.pending = <<>> /\ Queued(settled) = Queued(inbox) \cup ToSet(inbox.pending)
  <2>1. CASE ends
    <3>1. settled = Settled(inbox)
      BY <2>1
    <3> QED BY <3>1, LiveFacts, SettledFacts, SettledOrdered
  <2>2. CASE ~ends
    BY <2>2, LiveFacts DEF Ordered
  <2> QED BY <2>1, <2>2
<1> HIDE DEF settled
<1>6. /\ box \in InboxType /\ box.pending = settled.pending /\ Sorted(box)
      /\ extension \in Seq(Message) /\ InOrder(extension)
      /\ Queued(box) \cup ToSet(extension) = Queued(settled)
      /\ Ahead(ToSet(extension), Queued(box))
  <2>1. CASE ends
    <3>1. extension = Extension(settled) /\ box = Extended(settled)
      BY <2>1
    <3>2. /\ Extended(settled) \in InboxType /\ Extended(settled).pending = settled.pending
          /\ Extension(settled) \in Seq(Message)
          /\ Queued(Extended(settled)) \cup ToSet(Extension(settled)) = Queued(settled)
      BY <1>5, ExtensionFacts DEF Shrinks
    <3>3. /\ InOrder(Extension(settled)) /\ Sorted(Extended(settled))
          /\ Ahead(ToSet(Extension(settled)), Queued(Extended(settled)))
      BY <1>5, ExtensionOrdered
    <3> QED BY <3>1, <3>2, <3>3
  <2>2. CASE ~ends
    <3>1. extension = <<>> /\ box = inbox /\ settled = inbox /\ <<>> \in Seq(Message)
      BY <2>2 DEF settled
    <3>2. ToSet(extension) = {} /\ InOrder(extension)
      BY <3>1, SetOfNone, InOrderNone
    <3>3. Ahead(ToSet(extension), Queued(box))
      BY <3>2 DEF Ahead
    <3> QED BY <1>5, <3>1, <3>2, <3>3
  <2> QED BY <2>1, <2>2
<1> HIDE DEF box, extension, ends
<1>7. next \in Seq(Task)
  <2>1. <<Entry>> \in Seq(Nodes)
    OBVIOUS
  <2>2. Plain(<<Entry>>) \in Seq(Task)
    BY <1>4, <2>1, TasksTyped
  <2> QED BY <1>4, <2>2
<1> HIDE DEF next
<1>8. stamp \in SnapshotType
  BY <1>6, SnapshotFacts
<1>9. c \in Header /\ c.state = state /\ c.stamp = stamp /\ c.prev = base
  <2> HIDE DEF stamp
  <2> QED BY <1>2, <1>3, <1>7, <1>8, CheckpointFacts DEF IInv
<1> HIDE DEF c
<1>10. /\ InOrder(run'.carried) /\ InOrder(run'.delivery)
       /\ Held' = {} \/ Held' = ToSet(extension)
  <2>1. CASE run' = NoRun
    <3>1. run'.carried = <<>> /\ run'.delivery = <<>>
      BY <2>1 DEF NoRun
    <3> QED BY <3>1, SetOfNone, InOrderNone DEF Held
  <2>2. CASE run' # NoRun
    <3>1. run'.carried = extension /\ run'.delivery = <<>>
      BY <1>1, <1>2, <2>2 DEF Locals
    <3> QED BY <1>6, <3>1, SetOfNone, InOrderNone DEF Held
  <2> QED BY <2>1, <2>2
<1>11. InOrder(state.seen)
  <2>1. InOrder(run.delivery) /\ Ahead(ToSet(run.state.seen), ToSet(run.delivery))
    BY <1>2 DEF Ordered, Ahead
  <2>2. InOrder(run.state.seen)
    BY <1>2, BaseOrdered
  <2> QED BY <1>2, <1>3, <2>1, <2>2, InOrderJoin
<1>12. Ahead(ToSet(state.seen), ToSet(extension) \cup Queued(box))
  BY <1>2, <1>3, <1>5, <1>6 DEF Ahead
<1>13. ToSet(state.seen) \subseteq Known
  BY <1>2, <1>3, BaseOrdered DEF Known
<1>14. \/ /\ inbox'.pending = inbox.pending
          /\ Queued(inbox') \cup ToSet(extension) \cup ToSet(c.state.seen) \subseteq Known
       \/ /\ inbox'.pending = <<>>
          /\ Queued(inbox') \cup ToSet(extension) \cup ToSet(c.state.seen)
               \subseteq Known \cup ToSet(inbox.pending)
  BY <1>1, <1>5, <1>6, <1>9, <1>13 DEF Known
<1>15. /\ inbox' \in InboxType /\ Sorted(inbox') /\ InOrder(c.state.seen)
       /\ c.stamp = Snapshot(inbox', extension)
       /\ Ahead(ToSet(c.state.seen), ToSet(extension) \cup Queued(inbox'))
       /\ Ahead(ToSet(extension), Queued(inbox'))
  BY <1>1, <1>6, <1>9, <1>11, <1>12
<1> HIDE DEF stamp
<1> QED BY <1>1, <1>6, <1>9, <1>10, <1>14, <1>15, PutOrdered

\* What KeepsBranch says of one step.
BranchStep == ~Live /\ base' # base /\ base' # 0 => Queued(inbox) = {}

\* Every step that keeps to the branch keeps the order.
LEMMA EveryOrdered == IInv /\ Ordered /\ [Next]_vars /\ [BranchStep]_vars => Ordered'
<1> SUFFICES ASSUME IInv, Ordered, [Next]_vars, [BranchStep]_vars PROVE Ordered'
  OBVIOUS
<1>1. CASE UNCHANGED vars
  BY <1>1, SameOrdered DEF vars
<1>2. CASE Start
  BY <1>2, StartOrdered
<1>3. CASE \E c \in DOMAIN log, over \in BOOLEAN : Resume(c, over)
  <2>1. PICK c \in DOMAIN log, over \in BOOLEAN : Resume(c, over)
    BY <1>3
  <2>2. base' = c /\ ~Live /\ c # 0
    BY <2>1, LogTyped DEF Resume, IInv
  <2>3. c = base \/ Queued(inbox) = {}
    BY <2>2 DEF BranchStep, vars
  <2> QED BY <2>1, <2>3, ResumeOrdered
<1>4. CASE \E k \in Kinds : Send(k)
  BY <1>4, SendOrdered
<1>5. CASE \E keep \in BOOLEAN : Cancel(keep)
  BY <1>5, CancelOrdered
<1>6. CASE Drain
  BY <1>6, QuietOrdered
<1>7. CASE NewHandle \/ Crash
  BY <1>7, HandleOrdered
<1>8. CASE BoundaryPutFails
  BY <1>8, BoundaryPutFailsOrdered
<1>9. CASE NodeFails
  BY <1>9, NodeFailsOrdered
<1>10. CASE BarrierFails
  BY <1>10, BarrierFailsOrdered
<1>11. CASE Ceiling
  BY <1>11, CeilingOrdered
<1>12. CASE TypedCancel
  BY <1>12, TypedCancelOrdered
<1>13. CASE BeginStep
  BY <1>13, BeginStepOrdered
<1>14. CASE \E i \in DOMAIN run.active, goto \in UNION {Gotos[n] : n \in Nodes} : NodeOk(i, goto)
  BY <1>14, QuietOrdered
<1>15. CASE \E i \in DOMAIN run.active : NodeInterrupt(i)
  BY <1>15, NodeInterruptOrdered
<1>16. CASE \E route \in RouteChoices, over \in BOOLEAN : Barrier(route, over)
  BY <1>16, BarrierOrdered
<1> QED BY <1>1, <1>2, <1>3, <1>4, <1>5, <1>6, <1>7, <1>8, <1>9, <1>10, <1>11, <1>12, <1>13,
           <1>14, <1>15, <1>16 DEF Next, RunStep, Environment

\* As long as a handle with settled messages only resumes the checkpoint its run ended
\* at, no step is delivered a message twice and none overtakes an earlier one of its kind,
\* in any state of the run or of a checkpoint, over any number of segments, crashes, new
\* handles, cancellations and discarded steps (Inbox::seed, settle, the drains of
\* run_inner and the stamp of every checkpoint).
THEOREM DeliveredInOrder == Spec /\ KeepsBranch => []SeenInOrder
<1>1. Spec /\ KeepsBranch => []Ordered
  <2>1. IInv /\ Ordered /\ [Next]_vars /\ [BranchStep]_vars => Ordered'
    BY EveryOrdered
  <2>2. KeepsBranch => [][BranchStep]_vars
    BY DEF KeepsBranch, BranchStep
  <2> QED BY <2>1, <2>2, InitOrdered, Inductive, PTL DEF Spec
<1>2. IInv /\ Ordered => SeenInOrder
  <2> SUFFICES ASSUME IInv, Ordered PROVE SeenInOrder
    OBVIOUS
  <2>1. run.pc = "idle" => run.state.seen = <<>>
    BY DEF IInv, Placed, NoRun, EmptyState
  <2>2. InOrder(run.state.seen)
    BY <2>1, LiveFacts, BaseOrdered, InOrderNone
  <2> QED BY <2>2 DEF SeenInOrder, Ordered, Logged, InOrder
<1> QED BY <1>1, <1>2, Inductive, PTL

====
