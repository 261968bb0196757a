------------------------ MODULE CheckpointFilesProofs ------------------------
(***************************************************************************)
(* Proofs about CheckpointFiles: every chain is within the policy's bound, *)
(* a read folds back what was put, the latest checkpoint is the last put   *)
(* that completed, and one run's checkpoints carry one policy version.     *)
(*                                                                         *)
(* What a chain folds to, how long it is and whether it ever shrank are    *)
(* recursive functions over a thread's files.  That they exist, and what   *)
(* they satisfy, is shown by their least counterexample; from there on a   *)
(* directory is reasoned about as a whole: what a put, a deletion and a    *)
(* fork do to the chains in it (PutSound, CutSound, SnapshotsSound).       *)
(*                                                                         *)
(* The invariant adds to the properties what the caches and the puts in    *)
(* flight may rely on: a cached head never promises a shorter chain than   *)
(* the one on disk, nor a channel that chain does not fold to (Chained),   *)
(* its number is not handed out again (Numbered), and on a thread without  *)
(* a rollback its file is there (Whole).                                   *)
(***************************************************************************)
EXTENDS CheckpointFiles, TLAPS, FiniteSetTheorems, WellFoundedInduction

\* A checkpoint file; full is history.
File ==
  [step : Nat, pin : {Floor, Promoted}, full : States, base : Ids \cup {None}, state : States]
Dirs == UNION {[stored -> File] : stored \in SUBSET Ids}

\* The bases of a directory's deltas are older than they are.
Founded(dir) ==
  /\ DOMAIN dir \subseteq Ids
  /\ \A i \in DOMAIN dir : dir[i].base # None => dir[i].base \in Ids /\ dir[i].base < i

DeltaHead == [id : Ids, state : States, links : Nat]

\* A state holds every channel of another one, with its value.
Covers(got, put) == DOMAIN put \subseteq DOMAIN got /\ \A c \in DOMAIN put : got[c] = put[c]

ChainsSound(dir) ==
  \A i \in DOMAIN dir :
    /\ Count(dir)[i] <= MaxChain
    /\ Fold(dir)[i] # None =>
         /\ Covers(Fold(dir)[i], dir[i].full)
         /\ Unshrunk(dir)[i] => Fold(dir)[i] = dir[i].full

\* What a head says of the chain it stands for, as far as that is still there.
HeadSound(dir, head) ==
  /\ Count(dir)[head.id] <= head.links
  /\ Fold(dir)[head.id] # None => Covers(Fold(dir)[head.id], head.state)

Locals ==
  [state : States, step : Nat, pin : {Floor, Promoted}, ids : Seq(Ids),
   writing : DeltaHead \cup {None}]
EndedRun == [thread : Threads, ids : Seq(Ids)]

Typed ==
  /\ files \in [Threads -> Dirs]
  /\ latest \in [Threads -> Ids \cup {None}]
  /\ heads \in [Threads -> DeltaHead \cup {None}]
  /\ run \in [Threads -> Locals \cup {None}]
  /\ finished \subseteq EndedRun
  /\ rollback \in EndedRun \cup {None}
  /\ active \in {Floor, Promoted}
  /\ lastPut \in [Threads -> Ids \cup {None}]
  /\ rolled \subseteq Threads
  /\ minted \in 0..MaxPuts

Writing(r) == r # None /\ r.writing # None

\* Numbers are handed out once: what names a checkpoint names one already minted.
Numbered(dir, head, r, m) ==
  /\ Founded(dir)
  /\ DOMAIN dir \subseteq 1..m
  /\ head # None => head.id <= m
  /\ Writing(r) => r.writing.id <= m

\* The chains are sound, and what caches and puts in flight say of them.
Chained(dir, head, r) ==
  /\ ChainsSound(dir)
  /\ head # None => HeadSound(dir, head)
  /\ Writing(r) => HeadSound(dir, r.writing) /\ r.writing.links <= MaxChain

\* Where no rollback was, no file is missing: not the base of a delta, not the head
\* that the next one will have, not the last put.
Whole(dir, head, r, last, done) ==
  /\ \A i \in DOMAIN dir : dir[i].base # None => dir[i].base \in DOMAIN dir
  /\ head # None => head.id \in DOMAIN dir
  /\ Writing(r) => r.writing.id \in DOMAIN dir
  /\ done # None => last = done /\ done \in DOMAIN dir

\* The version a run is bound to: its own, or the one its first put took, which the
\* latest pointer hands on from put to put.
Bound(dir, r, last) ==
  r # None =>
    /\ r.ids # <<>> => r.step > 0 /\ last = r.ids[Len(r.ids)]
    /\ \A j \in DOMAIN r.ids :
         /\ r.ids[j] \in DOMAIN dir
         /\ dir[r.ids[j]].pin = dir[r.ids[1]].pin
         /\ r.pin # Floor => dir[r.ids[j]].pin = r.pin
    /\ Writing(r) =>
         /\ r.pin # Floor => dir[r.writing.id].pin = r.pin
         /\ r.ids # <<>> => dir[r.writing.id].pin = dir[r.ids[1]].pin

ThreadInv(t) ==
  /\ Numbered(files[t], heads[t], run[t], minted)
  /\ Chained(files[t], heads[t], run[t])
  /\ t \notin rolled =>
       /\ Whole(files[t], heads[t], run[t], latest[t], lastPut[t])
       /\ Bound(files[t], run[t], latest[t])

IInv ==
  /\ Typed
  /\ rollback # None => rollback.thread \in rolled
  /\ \A t \in Threads : ThreadInv(t)

USE FilesAssumption

-----------------------------------------------------------------------------
(***************************************************************************)
(* Numbers                                                                 *)
(***************************************************************************)

\* A set of naturals that is not empty has a least member.
LEMMA LeastOf ==
  ASSUME NEW S, S \subseteq Nat, S # {}
  PROVE  \E n \in S : \A m \in S : n <= m
<1>1. PICK n \in S : \A m \in S : ~(<<m, n>> \in OpToRel(<, Nat))
  BY NatLessThanWellFounded, WFMin
<1>2. \A m \in S : ~(m < n)
  BY <1>1 DEF OpToRel
<1> QED BY <1>2

\* A set of checkpoints that is not empty has a newest one.
LEMMA NewestOf ==
  ASSUME NEW S, S \subseteq Ids, S # {}
  PROVE  Newest(S) \in S /\ \A j \in S : j <= Newest(S)
<1> DEFINE D == {n \in Nat : \E i \in S : n = MaxPuts - i}
<1>1. D \subseteq Nat /\ D # {}
  <2>1. PICK i \in S : TRUE
    OBVIOUS
  <2>2. MaxPuts - i \in Nat
    BY DEF Ids
  <2> QED BY <2>2
<1> HIDE DEF D
<1>2. PICK n \in D : \A m \in D : n <= m
  BY <1>1, LeastOf
<1>3. PICK i \in S : n = MaxPuts - i
  BY <1>2 DEF D
<1>4. \A j \in S : MaxPuts - j \in D
  BY DEF D, Ids
<1>5. \A j \in S : j <= i
  BY <1>2, <1>3, <1>4 DEF Ids
<1> QED BY <1>5 DEF Newest

-----------------------------------------------------------------------------
(***************************************************************************)
(* A directory whose deltas have older bases, and the three functions      *)
(* defined along its chains.  Each is the least number of checkpoints at   *)
(* which no function up to it could exist: there is none.                  *)
(***************************************************************************)

FoldStep(dir, F, i) ==
  IF i \notin DOMAIN dir THEN None
  ELSE IF dir[i].base = None THEN dir[i].state
  ELSE IF F[dir[i].base] = None THEN None
  ELSE Overlay(dir[i].state, F[dir[i].base])

\* The fold of a founded directory exists, up to every checkpoint.
LEMMA FoldExists ==
  ASSUME NEW dir, Founded(dir), NEW n \in 0..MaxPuts
  PROVE  \E F : F = [i \in 1..n |-> FoldStep(dir, F, i)]
<1> DEFINE Exists(m) == \E F : F = [i \in 1..m |-> FoldStep(dir, F, i)]
           bad == {m \in 0..MaxPuts : ~Exists(m)}
<1> SUFFICES ASSUME bad # {} PROVE FALSE
  OBVIOUS
<1>1. PICK m \in bad : \A k \in bad : m <= k
  <2>1. bad \subseteq Nat
    OBVIOUS
  <2> HIDE DEF bad
  <2> QED BY <2>1, LeastOf
<1>2. Exists(0)
  <2> DEFINE F == [i \in {} |-> None]
  <2>1. F = [i \in 1..0 |-> FoldStep(dir, F, i)]
    OBVIOUS
  <2> QED BY <2>1
<1>3. m \in 1..MaxPuts /\ m - 1 \in 0..MaxPuts
  <2>1. m # 0
    BY <1>1, <1>2
  <2> QED BY <1>1, <2>1
<1>4. Exists(m - 1)
  BY <1>1, <1>3
<1>5. PICK F : F = [i \in 1..(m - 1) |-> FoldStep(dir, F, i)]
  BY <1>4
<1> DEFINE G == [i \in 1..m |-> IF i < m THEN F[i] ELSE FoldStep(dir, F, m)]
<1>6. ASSUME NEW i \in 1..m PROVE G[i] = FoldStep(dir, G, i)
  <2>1. G[i] = FoldStep(dir, F, i)
    BY <1>3, <1>5
  <2>2. i \in DOMAIN dir /\ dir[i].base # None => G[dir[i].base] = F[dir[i].base]
    BY <1>3 DEF Founded, Ids
  <2> HIDE DEF G
  <2> QED BY <2>1, <2>2 DEF FoldStep
<1>7. G = [i \in 1..m |-> FoldStep(dir, G, i)]
  BY <1>6
<1>8. Exists(m)
  <2> HIDE DEF G
  <2> QED BY <1>7
<1> QED BY <1>1, <1>8

\* So it is what its definition says.
LEMMA FoldDef ==
  ASSUME NEW dir, Founded(dir)
  PROVE  Fold(dir) = [i \in Ids |-> FoldStep(dir, Fold(dir), i)]
<1>1. \E F : F = [i \in Ids |-> FoldStep(dir, F, i)]
  BY FoldExists DEF Ids
<1>2. Fold(dir) = CHOOSE F : F = [i \in Ids |-> FoldStep(dir, F, i)]
  BY DEF Fold, FoldStep
<1> QED BY <1>1, <1>2

CountStep(dir, L, i) ==
  IF i \notin DOMAIN dir THEN 0
  ELSE IF dir[i].base = None THEN 0 ELSE L[dir[i].base] + 1

\* The same for the count of links.
LEMMA CountExists ==
  ASSUME NEW dir, Founded(dir), NEW n \in 0..MaxPuts
  PROVE  \E F : F = [i \in 1..n |-> CountStep(dir, F, i)]
<1> DEFINE Exists(m) == \E F : F = [i \in 1..m |-> CountStep(dir, F, i)]
           bad == {m \in 0..MaxPuts : ~Exists(m)}
<1> SUFFICES ASSUME bad # {} PROVE FALSE
  OBVIOUS
<1>1. PICK m \in bad : \A k \in bad : m <= k
  <2>1. bad \subseteq Nat
    OBVIOUS
  <2> HIDE DEF bad
  <2> QED BY <2>1, LeastOf
<1>2. Exists(0)
  <2> DEFINE F == [i \in {} |-> 0]
  <2>1. F = [i \in 1..0 |-> CountStep(dir, F, i)]
    OBVIOUS
  <2> QED BY <2>1
<1>3. m \in 1..MaxPuts /\ m - 1 \in 0..MaxPuts
  <2>1. m # 0
    BY <1>1, <1>2
  <2> QED BY <1>1, <2>1
<1>4. Exists(m - 1)
  BY <1>1, <1>3
<1>5. PICK F : F = [i \in 1..(m - 1) |-> CountStep(dir, F, i)]
  BY <1>4
<1> DEFINE G == [i \in 1..m |-> IF i < m THEN F[i] ELSE CountStep(dir, F, m)]
<1>6. ASSUME NEW i \in 1..m PROVE G[i] = CountStep(dir, G, i)
  <2>1. G[i] = CountStep(dir, F, i)
    BY <1>3, <1>5
  <2>2. i \in DOMAIN dir /\ dir[i].base # None => G[dir[i].base] = F[dir[i].base]
    BY <1>3 DEF Founded, Ids
  <2> HIDE DEF G
  <2> QED BY <2>1, <2>2 DEF CountStep
<1>7. G = [i \in 1..m |-> CountStep(dir, G, i)]
  BY <1>6
<1>8. Exists(m)
  <2> HIDE DEF G
  <2> QED BY <1>7
<1> QED BY <1>1, <1>8

LEMMA CountDef ==
  ASSUME NEW dir, Founded(dir)
  PROVE  Count(dir) = [i \in Ids |-> CountStep(dir, Count(dir), i)]
<1>1. \E F : F = [i \in Ids |-> CountStep(dir, F, i)]
  BY CountExists DEF Ids
<1>2. Count(dir) = CHOOSE F : F = [i \in Ids |-> CountStep(dir, F, i)]
  BY DEF Count, CountStep
<1> QED BY <1>1, <1>2

UnshrunkStep(dir, K, i) ==
  IF i \notin DOMAIN dir THEN FALSE
  ELSE IF dir[i].base = None THEN TRUE
  ELSE /\ K[dir[i].base]
       /\ DOMAIN dir[dir[i].base].full \subseteq DOMAIN dir[i].full

\* The same for whether a chain ever shrank.
LEMMA UnshrunkExists ==
  ASSUME NEW dir, Founded(dir), NEW n \in 0..MaxPuts
  PROVE  \E F : F = [i \in 1..n |-> UnshrunkStep(dir, F, i)]
<1> DEFINE Exists(m) == \E F : F = [i \in 1..m |-> UnshrunkStep(dir, F, i)]
           bad == {m \in 0..MaxPuts : ~Exists(m)}
<1> SUFFICES ASSUME bad # {} PROVE FALSE
  OBVIOUS
<1>1. PICK m \in bad : \A k \in bad : m <= k
  <2>1. bad \subseteq Nat
    OBVIOUS
  <2> HIDE DEF bad
  <2> QED BY <2>1, LeastOf
<1>2. Exists(0)
  <2> DEFINE F == [i \in {} |-> FALSE]
  <2>1. F = [i \in 1..0 |-> UnshrunkStep(dir, F, i)]
    OBVIOUS
  <2> QED BY <2>1
<1>3. m \in 1..MaxPuts /\ m - 1 \in 0..MaxPuts
  <2>1. m # 0
    BY <1>1, <1>2
  <2> QED BY <1>1, <2>1
<1>4. Exists(m - 1)
  BY <1>1, <1>3
<1>5. PICK F : F = [i \in 1..(m - 1) |-> UnshrunkStep(dir, F, i)]
  BY <1>4
<1> DEFINE G == [i \in 1..m |-> IF i < m THEN F[i] ELSE UnshrunkStep(dir, F, m)]
<1>6. ASSUME NEW i \in 1..m PROVE G[i] = UnshrunkStep(dir, G, i)
  <2>1. G[i] = UnshrunkStep(dir, F, i)
    BY <1>3, <1>5
  <2>2. i \in DOMAIN dir /\ dir[i].base # None => G[dir[i].base] = F[dir[i].base]
    BY <1>3 DEF Founded, Ids
  <2> HIDE DEF G
  <2> QED BY <2>1, <2>2 DEF UnshrunkStep
<1>7. G = [i \in 1..m |-> UnshrunkStep(dir, G, i)]
  BY <1>6
<1>8. Exists(m)
  <2> HIDE DEF G
  <2> QED BY <1>7
<1> QED BY <1>1, <1>8

LEMMA UnshrunkDef ==
  ASSUME NEW dir, Founded(dir)
  PROVE  Unshrunk(dir) = [i \in Ids |-> UnshrunkStep(dir, Unshrunk(dir), i)]
<1>1. \E F : F = [i \in Ids |-> UnshrunkStep(dir, F, i)]
  BY UnshrunkExists DEF Ids
<1>2. Unshrunk(dir) = CHOOSE F : F = [i \in Ids |-> UnshrunkStep(dir, F, i)]
  BY DEF Unshrunk, UnshrunkStep
<1> QED BY <1>1, <1>2

-----------------------------------------------------------------------------
(***************************************************************************)
(* What the chains are made of                                             *)
(***************************************************************************)

LEMMA StateFacts ==
  ASSUME NEW s \in States
  PROVE  /\ DOMAIN s \subseteq Channels
         /\ \A c \in DOMAIN s : s[c] \in Ids
         /\ s = [c \in DOMAIN s |-> s[c]]
         /\ s # None
BY DEF States

LEMMA StateIntro ==
  ASSUME NEW D \in SUBSET Channels, NEW s \in [D -> Ids]
  PROVE  s \in States
BY DEF States

LEMMA OverlayTyped ==
  ASSUME NEW s \in States, NEW r \in States
  PROVE  Overlay(s, r) \in States
<1>1. Overlay(s, r) \in [DOMAIN s \cup DOMAIN r -> Ids]
  BY StateFacts DEF Overlay
<1>2. DOMAIN s \cup DOMAIN r \in SUBSET Channels
  BY StateFacts
<1> QED BY <1>1, <1>2, StateIntro

LEMMA WithTyped ==
  ASSUME NEW s \in States, NEW c \in Channels, NEW i \in Ids
  PROVE  With(s, c, i) \in States
<1>1. With(s, c, i) \in [DOMAIN s \cup {c} -> Ids]
  BY StateFacts DEF With
<1>2. DOMAIN s \cup {c} \in SUBSET Channels
  BY StateFacts
<1> QED BY <1>1, <1>2, StateIntro

LEMMA DirFacts ==
  ASSUME NEW dir \in Dirs
  PROVE  /\ DOMAIN dir \subseteq Ids
         /\ dir = [i \in DOMAIN dir |-> dir[i]]
         /\ \A i \in DOMAIN dir : dir[i] \in File
BY DEF Dirs

LEMMA DirIntro ==
  ASSUME NEW D \in SUBSET Ids, NEW dir \in [D -> File]
  PROVE  dir \in Dirs
BY DEF Dirs

\* Along every chain there are numbers and states.
LEMMA ChainsTyped ==
  ASSUME NEW dir \in Dirs, Founded(dir)
  PROVE  \A i \in Ids : /\ Count(dir)[i] \in Nat
                        /\ Fold(dir)[i] \in States \cup {None}
                        /\ Unshrunk(dir)[i] \in BOOLEAN
<1> DEFINE Right(i) == /\ Count(dir)[i] \in Nat
                       /\ Fold(dir)[i] \in States \cup {None}
                       /\ Unshrunk(dir)[i] \in BOOLEAN
           bad == {i \in Ids : ~Right(i)}
<1> SUFFICES ASSUME bad # {} PROVE FALSE
  OBVIOUS
<1>1. PICK i \in bad : \A k \in bad : i <= k
  <2>1. bad \subseteq Nat
    BY DEF Ids
  <2> HIDE DEF bad
  <2> QED BY <2>1, LeastOf
<1>2. i \in Ids /\ \A k \in Ids : k < i => Right(k)
  BY <1>1 DEF Ids
<1>3. i \in DOMAIN dir => dir[i] \in File
  BY DirFacts
<1>4. i \in DOMAIN dir /\ dir[i].base # None => Right(dir[i].base)
  BY <1>2 DEF Founded
<1>5. Count(dir)[i] \in Nat
  <2>1. Count(dir)[i] = CountStep(dir, Count(dir), i)
    BY <1>2, CountDef
  <2> QED BY <1>4, <2>1 DEF CountStep
<1>6. Fold(dir)[i] \in States \cup {None}
  <2>1. Fold(dir)[i] = FoldStep(dir, Fold(dir), i)
    BY <1>2, FoldDef
  <2> QED BY <1>3, <1>4, <2>1, OverlayTyped DEF FoldStep, File
<1>7. Unshrunk(dir)[i] \in BOOLEAN
  <2>1. Unshrunk(dir)[i] = UnshrunkStep(dir, Unshrunk(dir), i)
    BY <1>2, UnshrunkDef
  <2> QED BY <1>4, <2>1 DEF UnshrunkStep
<1> QED BY <1>1, <1>5, <1>6, <1>7

Alike(dir, new, i) ==
  /\ i \in DOMAIN dir <=> i \in DOMAIN new
  /\ i \in DOMAIN dir => new[i] = dir[i]

\* What lies below a checkpoint decides its chain.
LEMMA ChainsBelow ==
  ASSUME NEW dir, Founded(dir), NEW new, Founded(new), NEW n \in Nat,
         \A i \in Ids : i <= n => Alike(dir, new, i)
  PROVE  \A i \in Ids : i <= n => /\ Count(new)[i] = Count(dir)[i]
                                  /\ Fold(new)[i] = Fold(dir)[i]
                                  /\ Unshrunk(new)[i] = Unshrunk(dir)[i]
<1> DEFINE Right(i) == i <= n => /\ Count(new)[i] = Count(dir)[i]
                                 /\ Fold(new)[i] = Fold(dir)[i]
                                 /\ Unshrunk(new)[i] = Unshrunk(dir)[i]
           bad == {i \in Ids : ~Right(i)}
<1> SUFFICES ASSUME bad # {} PROVE FALSE
  OBVIOUS
<1>1. PICK i \in bad : \A k \in bad : i <= k
  <2>1. bad \subseteq Nat
    BY DEF Ids
  <2> HIDE DEF bad
  <2> QED BY <2>1, LeastOf
<1>2. i \in Ids /\ i <= n /\ \A k \in Ids : k < i => Right(k)
  BY <1>1 DEF Ids
<1>3. Alike(dir, new, i)
  BY <1>2
<1>4. ASSUME i \in DOMAIN dir, dir[i].base # None
      PROVE  LET b == dir[i].base
             IN /\ Count(new)[b] = Count(dir)[b]
                /\ Fold(new)[b] = Fold(dir)[b]
                /\ Unshrunk(new)[b] = Unshrunk(dir)[b]
                /\ Alike(dir, new, b)
  <2>1. dir[i].base \in Ids /\ dir[i].base < i
    BY <1>4 DEF Founded
  <2>2. dir[i].base <= n
    BY <1>2, <2>1 DEF Ids
  <2>3. Right(dir[i].base) /\ Alike(dir, new, dir[i].base)
    BY <1>2, <2>1, <2>2
  <2> QED BY <2>2, <2>3
<1>5. Count(new)[i] = Count(dir)[i]
  <2>1. /\ Count(dir)[i] = CountStep(dir, Count(dir), i)
        /\ Count(new)[i] = CountStep(new, Count(new), i)
    BY <1>2, CountDef
  <2> QED BY <1>3, <1>4, <2>1 DEF CountStep, Alike
<1>6. Fold(new)[i] = Fold(dir)[i]
  <2>1. /\ Fold(dir)[i] = FoldStep(dir, Fold(dir), i)
        /\ Fold(new)[i] = FoldStep(new, Fold(new), i)
    BY <1>2, FoldDef
  <2> QED BY <1>3, <1>4, <2>1 DEF FoldStep, Alike
<1>7. Unshrunk(new)[i] = Unshrunk(dir)[i]
  <2>1. /\ Unshrunk(dir)[i] = UnshrunkStep(dir, Unshrunk(dir), i)
        /\ Unshrunk(new)[i] = UnshrunkStep(new, Unshrunk(new), i)
    BY <1>2, UnshrunkDef
  <2>2. CASE i \in DOMAIN dir /\ dir[i].base # None
    <3>1. new[i] = dir[i] /\ i \in DOMAIN new
      BY <1>3, <2>2 DEF Alike
    <3> DEFINE b == dir[i].base
    <3>2. Unshrunk(new)[b] = Unshrunk(dir)[b] /\ Alike(dir, new, b)
      BY <1>4, <2>2
    <3>3. /\ Unshrunk(dir)[i] = (Unshrunk(dir)[b] /\ DOMAIN dir[b].full \subseteq DOMAIN dir[i].full)
          /\ Unshrunk(new)[i] = (Unshrunk(new)[b] /\ DOMAIN new[b].full \subseteq DOMAIN dir[i].full)
      BY <2>1, <2>2, <3>1 DEF UnshrunkStep
    <3>4. CASE b \in DOMAIN dir
      BY <3>2, <3>3, <3>4 DEF Alike
    <3>5. CASE b \notin DOMAIN dir
      <4>1. b \in Ids
        BY <2>2 DEF Founded
      <4>2. Unshrunk(dir)[b] = UnshrunkStep(dir, Unshrunk(dir), b)
        BY <4>1, UnshrunkDef
      <4>3. Unshrunk(dir)[b] = FALSE
        BY <3>5, <4>2 DEF UnshrunkStep
      <4> QED BY <3>2, <3>3, <4>3
    <3> QED BY <3>4, <3>5
  <2> QED BY <1>3, <2>1, <2>2 DEF UnshrunkStep, Alike
<1> QED BY <1>1, <1>5, <1>6, <1>7

\* The chains of a directory after files left it: shorter, and as they were or broken.
LEMMA ChainsCut ==
  ASSUME NEW dir \in Dirs, Founded(dir), NEW new \in Dirs, Founded(new),
         DOMAIN new \subseteq DOMAIN dir,
         \A i \in DOMAIN new : new[i] = dir[i]
  PROVE  \A i \in Ids : /\ Count(new)[i] <= Count(dir)[i]
                        /\ Fold(new)[i] # None => Fold(new)[i] = Fold(dir)[i]
                        /\ Unshrunk(new)[i] => Unshrunk(dir)[i]
<1> DEFINE Right(i) == /\ Count(new)[i] <= Count(dir)[i]
                       /\ Fold(new)[i] # None => Fold(new)[i] = Fold(dir)[i]
                       /\ Unshrunk(new)[i] => Unshrunk(dir)[i]
           bad == {i \in Ids : ~Right(i)}
<1> SUFFICES ASSUME bad # {} PROVE FALSE
  OBVIOUS
<1>1. PICK i \in bad : \A k \in bad : i <= k
  <2>1. bad \subseteq Nat
    BY DEF Ids
  <2> HIDE DEF bad
  <2> QED BY <2>1, LeastOf
<1>2. i \in Ids /\ \A k \in Ids : k < i => Right(k)
  BY <1>1 DEF Ids
<1>3. i \in DOMAIN new => i \in DOMAIN dir /\ new[i] = dir[i]
  OBVIOUS
<1>4. ASSUME i \in DOMAIN new, dir[i].base # None
      PROVE  dir[i].base \in Ids /\ Right(dir[i].base)
  BY <1>2, <1>3, <1>4 DEF Founded
<1>5. Count(new)[i] <= Count(dir)[i]
  <2>1. /\ Count(dir)[i] = CountStep(dir, Count(dir), i)
        /\ Count(new)[i] = CountStep(new, Count(new), i)
    BY <1>2, CountDef
  <2>2. Count(dir)[i] \in Nat
    BY <1>2, ChainsTyped
  <2>3. CASE i \in DOMAIN new /\ dir[i].base # None
    <3>1. Count(new)[dir[i].base] \in Nat /\ Count(dir)[dir[i].base] \in Nat
      BY <1>4, <2>3, ChainsTyped
    <3> QED BY <1>3, <1>4, <2>1, <2>3, <3>1 DEF CountStep
  <2> QED BY <1>3, <2>1, <2>2, <2>3 DEF CountStep
<1>6. Fold(new)[i] # None => Fold(new)[i] = Fold(dir)[i]
  <2>1. /\ Fold(dir)[i] = FoldStep(dir, Fold(dir), i)
        /\ Fold(new)[i] = FoldStep(new, Fold(new), i)
    BY <1>2, FoldDef
  <2> QED BY <1>3, <1>4, <2>1 DEF FoldStep
<1>7. Unshrunk(new)[i] => Unshrunk(dir)[i]
  <2>1. /\ Unshrunk(dir)[i] = UnshrunkStep(dir, Unshrunk(dir), i)
        /\ Unshrunk(new)[i] = UnshrunkStep(new, Unshrunk(new), i)
    BY <1>2, UnshrunkDef
  <2>2. Unshrunk(new)[i] /\ dir[i].base # None =>
          i \in DOMAIN new /\ Unshrunk(new)[dir[i].base]
    BY <1>3, <2>1 DEF UnshrunkStep
  <2>3. Unshrunk(new)[i] /\ dir[i].base # None =>
          dir[i].base \in DOMAIN new
    <3> SUFFICES ASSUME Unshrunk(new)[i], dir[i].base # None
                 PROVE  dir[i].base \in DOMAIN new
      OBVIOUS
    <3>1. dir[i].base \in Ids
      BY <1>4, <2>2
    <3>2. Unshrunk(new)[dir[i].base] = UnshrunkStep(new, Unshrunk(new), dir[i].base)
      BY <3>1, UnshrunkDef
    <3> QED BY <2>2, <3>2 DEF UnshrunkStep
  <2> QED BY <1>3, <1>4, <2>1, <2>2, <2>3 DEF UnshrunkStep
<1> QED BY <1>1, <1>5, <1>6, <1>7

\* Where no base is missing, every chain folds.
LEMMA ChainsWhole ==
  ASSUME NEW dir \in Dirs, Founded(dir),
         \A i \in DOMAIN dir : dir[i].base # None => dir[i].base \in DOMAIN dir
  PROVE  \A i \in DOMAIN dir : Fold(dir)[i] \in States
<1> DEFINE bad == {i \in DOMAIN dir : Fold(dir)[i] \notin States}
<1> SUFFICES ASSUME bad # {} PROVE FALSE
  OBVIOUS
<1>1. PICK i \in bad : \A k \in bad : i <= k
  <2>1. bad \subseteq Nat
    BY DirFacts DEF Ids
  <2> HIDE DEF bad
  <2> QED BY <2>1, LeastOf
<1>2. i \in Ids /\ \A k \in DOMAIN dir : k < i => Fold(dir)[k] \in States
  BY <1>1, DirFacts DEF Ids
<1>3. dir[i] \in File
  BY DirFacts
<1>4. dir[i].base # None => Fold(dir)[dir[i].base] \in States
  BY <1>2 DEF Founded
<1>5. Fold(dir)[i] = FoldStep(dir, Fold(dir), i)
  BY <1>2, FoldDef
<1> QED BY <1>1, <1>3, <1>4, <1>5, OverlayTyped, StateFacts DEF FoldStep, File

-----------------------------------------------------------------------------
(***************************************************************************)
(* What the writes do to a directory                                       *)
(***************************************************************************)

LEMMA DeltaFacts ==
  ASSUME NEW state \in States, NEW head \in DeltaHead
  PROVE  /\ Delta(state, head) \in States
         /\ DOMAIN Delta(state, head) \subseteq DOMAIN state
         /\ \A c \in DOMAIN Delta(state, head) : Delta(state, head)[c] = state[c]
         /\ \A c \in DOMAIN state : c \notin DOMAIN Delta(state, head) =>
              c \in DOMAIN head.state /\ state[c] = head.state[c]
<1>1. Changed(state, head) \subseteq DOMAIN state
  BY DEF Changed
<1>2. Delta(state, head) \in [Changed(state, head) -> Ids]
  BY <1>1, StateFacts DEF Delta
<1>3. Changed(state, head) \in SUBSET Channels
  BY <1>1, StateFacts
<1>4. Delta(state, head) \in States
  BY <1>2, <1>3, StateIntro
<1> QED BY <1>1, <1>4 DEF Delta, Changed

\* The file a put writes, full or a delta over its head.
Written(state, head, base, step, pin) ==
  [step |-> step, pin |-> pin, full |-> state, base |-> base,
   state |-> IF base = None THEN state ELSE Delta(state, head)]

\* new is what dir becomes by a put over a sound head, numbered after all of dir.
PutOver(dir, m, state, head, base, step, pin, new) ==
  /\ dir \in Dirs /\ Founded(dir) /\ ChainsSound(dir)
  /\ m \in Nat /\ m + 1 \in Ids /\ DOMAIN dir \subseteq 1..m
  /\ state \in States /\ step \in Nat /\ pin \in {Floor, Promoted}
  /\ base # None => /\ head \in DeltaHead /\ head.id = base /\ base <= m
                    /\ head.links < MaxChain /\ HeadSound(dir, head)
  /\ new = With(dir, m + 1, Written(state, head, base, step, pin))

\* It keeps every chain, and the new one is sound.
Kept(dir, m, state, head, base, step, pin, new) ==
  /\ new \in Dirs /\ Founded(new) /\ ChainsSound(new)
  /\ DOMAIN new = DOMAIN dir \cup {m + 1}
  /\ \A i \in DOMAIN dir : new[i] = dir[i]
  /\ new[m + 1] = Written(state, head, base, step, pin)
  /\ HeadSound(new, [id |-> m + 1, state |-> state,
                     links |-> IF base = None THEN 0 ELSE head.links + 1])
  /\ \A h \in DeltaHead : h.id <= m /\ HeadSound(dir, h) => HeadSound(new, h)

LEMMA PutSound ==
  ASSUME NEW dir, NEW m, NEW state, NEW head, NEW base, NEW step, NEW pin, NEW new,
         PutOver(dir, m, state, head, base, step, pin, new)
  PROVE  Kept(dir, m, state, head, base, step, pin, new)
<1> USE DEF PutOver
<1> DEFINE file == Written(state, head, base, step, pin)
           id == m + 1
<1>1. file \in File
  BY DeltaFacts DEF Written, File, DeltaHead
<1>2. /\ DOMAIN new = DOMAIN dir \cup {id}
      /\ \A i \in DOMAIN dir : new[i] = dir[i]
      /\ new[id] = file
      /\ new = [i \in DOMAIN new |-> new[i]]
  BY DEF With
<1>3. new \in Dirs
  <2>1. DOMAIN new \in SUBSET Ids
    BY <1>2, DirFacts
  <2>2. \A i \in DOMAIN new : new[i] \in File
    BY <1>1, <1>2, DirFacts
  <2>3. new \in [DOMAIN new -> File]
    BY <1>2, <2>2
  <2> QED BY <2>1, <2>3, DirIntro
<1>4. Founded(new)
  <2>1. new[id].base # None => new[id].base \in Ids /\ new[id].base < id
    BY <1>2 DEF Written, DeltaHead, Ids
  <2> QED BY <1>2, <2>1, DirFacts DEF Founded
<1>5. \A i \in Ids : i <= m => /\ Count(new)[i] = Count(dir)[i]
                               /\ Fold(new)[i] = Fold(dir)[i]
                               /\ Unshrunk(new)[i] = Unshrunk(dir)[i]
  <2>1. \A i \in Ids : i <= m => Alike(dir, new, i)
    BY <1>2 DEF Alike, Ids
  <2> QED BY <1>4, <2>1, ChainsBelow
<1>6. /\ Count(new)[id] = CountStep(new, Count(new), id)
      /\ Fold(new)[id] = FoldStep(new, Fold(new), id)
      /\ Unshrunk(new)[id] = UnshrunkStep(new, Unshrunk(new), id)
  BY <1>4, CountDef, FoldDef, UnshrunkDef
<1> HIDE DEF file
<1>7. /\ Count(new)[id] <= IF base = None THEN 0 ELSE head.links + 1
      /\ Count(new)[id] <= MaxChain
  <2>1. CASE base = None
    BY <1>2, <1>6, <2>1 DEF CountStep, file, Written
  <2>2. CASE base # None
    <3>1. new[id].base = head.id /\ head.id \in Ids /\ head.id # None
      BY <1>2, <2>2 DEF file, Written, DeltaHead, Ids
    <3>2. Count(new)[head.id] = Count(dir)[head.id]
      BY <1>5, <2>2, <3>1
    <3>3. Count(dir)[head.id] <= head.links /\ head.links < MaxChain /\ head.links \in Nat
      BY <2>2 DEF HeadSound, DeltaHead
    <3>4. Count(new)[id] = Count(dir)[head.id] + 1 /\ Count(dir)[head.id] \in Nat
      BY <1>2, <1>6, <3>1, <3>2, ChainsTyped DEF CountStep
    <3> QED BY <2>2, <3>3, <3>4
  <2> QED BY <2>1, <2>2
<1>8. Fold(new)[id] # None =>
        /\ Covers(Fold(new)[id], state)
        /\ Unshrunk(new)[id] => Fold(new)[id] = state
  <2>1. CASE base = None
    BY <1>2, <1>6, <2>1 DEF FoldStep, file, Written, Covers
  <2>2. CASE base # None
    <3> SUFFICES ASSUME Fold(new)[id] # None
                 PROVE  /\ Covers(Fold(new)[id], state)
                        /\ Unshrunk(new)[id] => Fold(new)[id] = state
      OBVIOUS
    <3> DEFINE b == head.id
               below == Fold(dir)[b]
               delta == Delta(state, head)
    <3>1. new[id].base = b /\ b \in Ids /\ b # None /\ new[id].state = delta /\ new[id].full = state
      BY <1>2, <2>2 DEF file, Written, DeltaHead, Ids
    <3>2. Fold(new)[b] = below /\ Unshrunk(new)[b] = Unshrunk(dir)[b]
      BY <1>5, <2>2, <3>1
    <3>3. Fold(new)[id] = Overlay(delta, below) /\ below # None
      BY <1>2, <1>6, <3>1, <3>2 DEF FoldStep
    <3>4. below \in States
      BY <3>1, <3>3, ChainsTyped
    <3>5. Covers(below, head.state)
      BY <2>2, <3>3 DEF HeadSound
    <3>6. Covers(Overlay(delta, below), state)
      BY <2>2, <3>5, DeltaFacts DEF Covers, Overlay
    <3>7. ASSUME Unshrunk(new)[id] PROVE Overlay(delta, below) = state
      <4>1. Unshrunk(new)[b] /\ DOMAIN new[b].full \subseteq DOMAIN state
        BY <1>2, <1>6, <3>1, <3>7 DEF UnshrunkStep
      <4>2. b \in DOMAIN dir
        <5>1. Unshrunk(dir)[b] = UnshrunkStep(dir, Unshrunk(dir), b)
          BY <3>1, UnshrunkDef
        <5> QED BY <3>2, <4>1, <5>1 DEF UnshrunkStep
      <4>3. below = dir[b].full
        BY <3>2, <3>3, <4>1, <4>2 DEF ChainsSound
      <4>4. DOMAIN below \subseteq DOMAIN state
        BY <1>2, <4>1, <4>2, <4>3
      <4>5. DOMAIN Overlay(delta, below) = DOMAIN state
        BY <2>2, <3>6, <4>4, DeltaFacts DEF Covers, Overlay
      <4>6. Overlay(delta, below) \in States
        BY <2>2, <3>4, DeltaFacts, OverlayTyped
      <4> HIDE DEF delta, below
      <4> QED BY <3>6, <4>5, <4>6, StateFacts DEF Covers
    <3> QED BY <3>3, <3>6, <3>7
  <2> QED BY <2>1, <2>2
<1>9. ChainsSound(new)
  <2>1. \A i \in DOMAIN dir : i \in Ids /\ i <= m
    BY DirFacts
  <2>2. new[id].full = state
    BY <1>2 DEF file, Written
  <2> QED BY <1>2, <1>5, <1>7, <1>8, <2>1, <2>2 DEF ChainsSound
<1>10. HeadSound(new, [id |-> id, state |-> state, links |-> IF base = None THEN 0 ELSE head.links + 1])
  BY <1>7, <1>8 DEF HeadSound
<1>11. \A h \in DeltaHead : h.id <= m /\ HeadSound(dir, h) => HeadSound(new, h)
  BY <1>5 DEF HeadSound, DeltaHead
<1> QED BY <1>2, <1>3, <1>4, <1>9, <1>10, <1>11 DEF file, Kept

\* Files that leave a directory leave what remains sound.
LEMMA CutSound ==
  ASSUME NEW dir \in Dirs, Founded(dir), ChainsSound(dir), NEW gone,
         NEW new, new = [i \in DOMAIN dir \ {gone} |-> dir[i]]
  PROVE  /\ new \in Dirs /\ Founded(new) /\ ChainsSound(new)
         /\ \A h \in DeltaHead : HeadSound(dir, h) => HeadSound(new, h)
<1>1. DOMAIN new \subseteq DOMAIN dir /\ \A i \in DOMAIN new : new[i] = dir[i]
  OBVIOUS
<1>2. new \in Dirs
  <2>1. DOMAIN new \in SUBSET Ids /\ new \in [DOMAIN new -> File]
    BY DirFacts
  <2> QED BY <2>1, DirIntro
<1>3. Founded(new)
  BY <1>1 DEF Founded
<1>4. \A i \in Ids : /\ Count(new)[i] <= Count(dir)[i]
                     /\ Fold(new)[i] # None => Fold(new)[i] = Fold(dir)[i]
                     /\ Unshrunk(new)[i] => Unshrunk(dir)[i]
  BY <1>1, <1>2, <1>3, ChainsCut
<1>5. \A i \in Ids : Count(new)[i] \in Nat /\ Count(dir)[i] \in Nat
  BY <1>2, <1>3, ChainsTyped
<1>6. ChainsSound(new)
  <2> SUFFICES ASSUME NEW i \in DOMAIN new
               PROVE  /\ Count(new)[i] <= MaxChain
                      /\ Fold(new)[i] # None =>
                           /\ Covers(Fold(new)[i], new[i].full)
                           /\ Unshrunk(new)[i] => Fold(new)[i] = new[i].full
    BY DEF ChainsSound
  <2>1. i \in Ids /\ i \in DOMAIN dir /\ new[i] = dir[i]
    BY <1>1, DirFacts
  <2>2. /\ Count(dir)[i] <= MaxChain
        /\ Fold(dir)[i] # None =>
             /\ Covers(Fold(dir)[i], dir[i].full)
             /\ Unshrunk(dir)[i] => Fold(dir)[i] = dir[i].full
    BY <2>1 DEF ChainsSound
  <2> QED BY <1>4, <1>5, <2>1, <2>2
<1>7. ASSUME NEW h \in DeltaHead, HeadSound(dir, h) PROVE HeadSound(new, h)
  <2>1. h.id \in Ids /\ h.links \in Nat
    BY DEF DeltaHead
  <2> QED BY <1>4, <1>5, <1>7, <2>1 DEF HeadSound
<1> QED BY <1>2, <1>3, <1>6, <1>7

\* A directory of full snapshots is sound, and so is a head at one of them.
LEMMA SnapshotsSound ==
  ASSUME NEW dir \in Dirs,
         \A i \in DOMAIN dir : dir[i].base = None /\ dir[i].full = dir[i].state
  PROVE  /\ Founded(dir) /\ ChainsSound(dir)
         /\ \A i \in DOMAIN dir : HeadSound(dir, [id |-> i, state |-> dir[i].state, links |-> 0])
<1>1. Founded(dir)
  BY DirFacts DEF Founded
<1>2. ASSUME NEW i \in DOMAIN dir PROVE Count(dir)[i] = 0 /\ Fold(dir)[i] = dir[i].state
  <2>1. /\ Count(dir)[i] = CountStep(dir, Count(dir), i)
        /\ Fold(dir)[i] = FoldStep(dir, Fold(dir), i)
    BY <1>1, DirFacts, CountDef, FoldDef
  <2> QED BY <2>1 DEF CountStep, FoldStep
<1> QED BY <1>1, <1>2 DEF ChainsSound, HeadSound, Covers

-----------------------------------------------------------------------------
(***************************************************************************)
(* Reading                                                                 *)
(***************************************************************************)

\* What is older comes first: the listing is a sequence of readable checkpoints.
LEMMA ListedReadable ==
  ASSUME NEW t \in Threads, files[t] \in Dirs, Founded(files[t])
  PROVE  /\ Listed(t) \in Seq(Ids)
         /\ \A k \in DOMAIN Listed(t) :
              Listed(t)[k] \in Stored(t) /\ Readable(t, Listed(t)[k])
<1> DEFINE shown == {i \in Stored(t) : Readable(t, i)}
           before(i) == {j \in shown : Older(t, j, i)}
           n == Cardinality(shown)
<1>1. shown \subseteq Ids /\ \A i \in shown : files[t][i].step \in Nat
  BY DirFacts DEF Stored, File
<1>2. IsFiniteSet(shown) /\ n \in Nat
  <2>1. IsFiniteSet(Ids)
    BY FS_Interval DEF Ids
  <2>2. IsFiniteSet(shown)
    BY <1>1, <2>1, FS_Subset
  <2> QED BY <2>2, FS_CardinalityType
<1>3. ASSUME NEW i \in shown, NEW j \in shown, i # j
      PROVE  Older(t, i, j) \/ Older(t, j, i)
  BY <1>1, <1>3 DEF Older, Ids
<1>4. ASSUME NEW i \in shown, NEW j \in shown, Older(t, i, j)
      PROVE  before(i) \in SUBSET before(j) /\ before(i) # before(j)
  BY <1>1, <1>4 DEF Older, Ids
<1>5. ASSUME NEW i \in shown PROVE before(i) \in SUBSET shown /\ before(i) # shown
  BY <1>1 DEF Older, Ids
<1>6. Listed(t) = [k \in 1..n |-> CHOOSE i \in shown : Cardinality(before(i)) = k - 1]
  BY DEF Listed
<1> HIDE DEF shown, before, n
<1>7. ASSUME NEW i \in shown
      PROVE  IsFiniteSet(before(i)) /\ Cardinality(before(i)) \in 0..(n - 1)
  BY <1>2, <1>5, FS_Subset, FS_CardinalityType DEF n
<1>8. ASSUME NEW i \in shown, NEW j \in shown, Cardinality(before(i)) = Cardinality(before(j))
      PROVE  i = j
  <2>1. ASSUME NEW a \in shown, NEW b \in shown, Older(t, a, b)
        PROVE  Cardinality(before(a)) # Cardinality(before(b))
    <3>1. Cardinality(before(a)) < Cardinality(before(b))
      BY <1>4, <1>7, <2>1, FS_Subset
    <3> QED BY <1>2, <1>7, <3>1
  <2> QED BY <1>3, <1>8, <2>1
<1> DEFINE rank == [i \in shown |-> Cardinality(before(i))]
<1>9. IsFiniteSet(0..(n - 1)) /\ Cardinality(0..(n - 1)) = n
  <2>1. n - 1 \in Int
    BY <1>2
  <2>2. IsFiniteSet(0..(n - 1)) /\ Cardinality(0..(n - 1)) = IF 0 > n - 1 THEN 0 ELSE n - 1 - 0 + 1
    BY <2>1, FS_Interval
  <2> QED BY <1>2, <2>2
<1>10. rank \in Injection(shown, 0..(n - 1))
  BY <1>7, <1>8 DEF Injection, IsInjective
<1>11. rank \in Surjection(shown, 0..(n - 1))
  BY <1>2, <1>9, <1>10, FS_Injection DEF n
<1>12. \A k \in 1..n : \E i \in shown : Cardinality(before(i)) = k - 1
  <2>1. \A k \in 1..n : k - 1 \in 0..(n - 1)
    BY <1>2
  <2> QED BY <1>11, <2>1 DEF Surjection
<1>13. \A k \in 1..n : Listed(t)[k] \in shown
  BY <1>6, <1>12
<1>14. Listed(t) \in Seq(Ids)
  <2>1. Listed(t) \in [1..n -> Ids]
    BY <1>1, <1>6, <1>13
  <2> QED BY <1>2, <2>1
<1> QED BY <1>6, <1>13, <1>14 DEF shown

\* Which checkpoint the latest is.
LEMMA LatestFacts ==
  ASSUME NEW t \in Threads, files[t] \in Dirs
  PROVE  LatestId(t) = None \/ (LatestId(t) \in Stored(t) /\ LatestId(t) \in Ids)
<1>1. Stored(t) \subseteq Ids
  BY DirFacts DEF Stored
<1>2. Stored(t) # {} => Newest(Stored(t)) \in Stored(t)
  BY <1>1, NewestOf
<1> QED BY <1>1, <1>2 DEF LatestId

-----------------------------------------------------------------------------
(***************************************************************************)
(* The inductive invariant                                                 *)
(***************************************************************************)

LEMMA InitIInv == Init => IInv
<1> SUFFICES ASSUME Init PROVE IInv
  OBVIOUS
<1> DEFINE none == [i \in {} |-> None]
<1>1. << >> \in Dirs /\ DOMAIN << >> = {}
  <2>1. << >> \in [{} -> File]
    OBVIOUS
  <2> QED BY <2>1 DEF Dirs
<1>2. Typed
  BY <1>1 DEF Init, Typed
<1>3. Founded(<< >>) /\ ChainsSound(<< >>)
  BY <1>1, SnapshotsSound
<1>4. ASSUME NEW t \in Threads PROVE ThreadInv(t)
  BY <1>1, <1>3 DEF Init, ThreadInv, Numbered, Chained, Whole, Bound, Writing
<1> QED BY <1>2, <1>4 DEF Init, IInv

\* What has to be shown of a thread after a step, in the values it has there.
LEMMA ThreadBecomes ==
  ASSUME NEW t, NEW dir, NEW head, NEW r, NEW last, NEW done,
         files'[t] = dir, heads'[t] = head, run'[t] = r, latest'[t] = last, lastPut'[t] = done,
         Numbered(dir, head, r, minted'), Chained(dir, head, r),
         t \notin rolled' => Whole(dir, head, r, last, done) /\ Bound(dir, r, last)
  PROVE  ThreadInv(t)'
BY DEF ThreadInv

\* A thread nothing happened to.
LEMMA ThreadStays ==
  ASSUME IInv, NEW t \in Threads, minted' >= minted, minted' \in Nat, rolled \subseteq rolled',
         files'[t] = files[t], heads'[t] = heads[t], run'[t] = run[t],
         latest'[t] = latest[t], lastPut'[t] = lastPut[t]
  PROVE  ThreadInv(t)'
<1>1. ThreadInv(t) /\ minted \in Nat /\ heads[t] \in DeltaHead \cup {None} /\ run[t] \in Locals \cup {None}
  BY DEF IInv, Typed
<1>2. Numbered(files[t], heads[t], run[t], minted)'
  <2>1. Numbered(files[t], heads[t], run[t], minted)
    BY <1>1 DEF ThreadInv
  <2>2. /\ heads[t] # None => heads[t].id \in Nat
        /\ Writing(run[t]) => run[t].writing.id \in Nat
    BY <1>1 DEF DeltaHead, Locals, Writing, Ids
  <2>3. 1..minted \subseteq 1..(minted')
    BY <1>1
  <2> QED BY <1>1, <2>1, <2>2, <2>3 DEF Numbered, Writing, Founded
<1>3. Chained(files[t], heads[t], run[t])'
  BY <1>1 DEF ThreadInv, Chained, Writing, ChainsSound, HeadSound, Covers
<1>4. t \notin rolled' => /\ Whole(files[t], heads[t], run[t], latest[t], lastPut[t])'
                          /\ Bound(files[t], run[t], latest[t])'
  BY <1>1 DEF ThreadInv, Whole, Bound, Writing
<1> QED BY <1>2, <1>3, <1>4 DEF ThreadInv

LEMMA BeginIInv ==
  ASSUME IInv, NEW t \in Threads, NEW state \in States, NEW step \in Nat,
         NEW pin \in {Floor, Promoted}, Begin(t, state, step, pin)
  PROVE  IInv'
<1> DEFINE r == [state |-> state, step |-> step, pin |-> pin, ids |-> <<>>, writing |-> None]
<1>1. r \in Locals /\ ~Writing(r) /\ r.ids = <<>>
  BY DEF Locals, Writing
<1>2. /\ run' = [run EXCEPT ![t] = r]
      /\ UNCHANGED <<files, latest, heads, finished, rollback, active, lastPut, rolled, minted>>
  BY DEF Begin
<1> HIDE DEF r
<1>3. Typed'
  BY <1>1, <1>2 DEF IInv, Typed
<1>4. ASSUME NEW u \in Threads PROVE ThreadInv(u)'
  <2>1. CASE u # t
    BY <1>2, <2>1, ThreadStays DEF IInv, Typed
  <2>2. CASE u = t
    <3>1. ThreadInv(t) /\ run'[t] = r
      BY <1>2 DEF IInv, Typed
    <3> QED BY <1>1, <1>2, <2>2, <3>1
            DEF ThreadInv, Numbered, Chained, Whole, Bound, Writing, Founded, ChainsSound,
                HeadSound, Covers
  <2> QED BY <2>1, <2>2
<1> QED BY <1>2, <1>3, <1>4 DEF IInv

LEMMA StartRunIInv ==
  ASSUME IInv, NEW t \in Threads, StartRun(t)
  PROVE  IInv'
<1> DEFINE state == IF LatestId(t) = None THEN << >> ELSE Folded(t)[LatestId(t)]
<1>1. files[t] \in Dirs /\ Founded(files[t])
  BY DEF IInv, Typed, ThreadInv, Numbered
<1>2. << >> \in States
  <2>1. << >> \in [{} -> Ids]
    OBVIOUS
  <2> QED BY <2>1 DEF States
<1>3. state \in States
  BY <1>1, <1>2, LatestFacts, ChainsTyped DEF StartRun, LatestFails, Readable, Folded
<1>4. Begin(t, state, 0, Floor)
  BY DEF StartRun
<1> HIDE DEF state
<1> QED BY <1>3, <1>4, BeginIInv

LEMMA ResumeRunIInv ==
  ASSUME IInv, NEW t \in Threads, NEW i \in Ids, ResumeRun(t, i)
  PROVE  IInv'
<1>1. files[t] \in Dirs /\ Founded(files[t]) /\ i \in DOMAIN files[t] /\ Folded(t)[i] # None
  BY DEF IInv, Typed, ThreadInv, Numbered, ResumeRun, Readable, Stored
<1>2. Folded(t)[i] \in States
  BY <1>1, ChainsTyped DEF Folded
<1>3. files[t][i] \in File
  BY <1>1, DirFacts
<1>4. Begin(t, Folded(t)[i], files[t][i].step, files[t][i].pin)
  BY DEF ResumeRun
<1> QED BY <1>2, <1>3, <1>4, BeginIInv DEF File

\* The head a put builds on, cached or folded from the disk, is sound.
LEMMA HeadOfSound ==
  ASSUME IInv, NEW t \in Threads, ~HeadFails(t)
  PROVE  \/ HeadOf(t) = None
         \/ /\ HeadOf(t) \in DeltaHead
            /\ HeadOf(t).id <= minted
            /\ HeadSound(files[t], HeadOf(t))
            /\ t \notin rolled => HeadOf(t).id \in DOMAIN files[t]
<1>1. files[t] \in Dirs /\ Founded(files[t]) /\ DOMAIN files[t] \subseteq 1..minted
  BY DEF IInv, Typed, ThreadInv, Numbered
<1>2. CASE heads[t] # None
  <2>1. HeadOf(t) = heads[t] /\ heads[t] \in DeltaHead
    BY <1>2 DEF HeadOf, IInv, Typed
  <2> QED BY <1>2, <2>1 DEF IInv, ThreadInv, Numbered, Chained, Whole
<1>3. CASE heads[t] = None /\ LatestId(t) # None
  <2> DEFINE i == LatestId(t)
  <2>1. i \in DOMAIN files[t] /\ i \in Ids
    BY <1>1, <1>3, LatestFacts DEF Stored
  <2>2. Folded(t)[i] \in States
    BY <1>1, <1>3, <2>1, ChainsTyped DEF HeadFails, LatestFails, Readable, Folded
  <2>3. Links(t)[i] \in Nat
    BY <1>1, <2>1, ChainsTyped DEF Links
  <2>4. HeadOf(t) = [id |-> i, state |-> Folded(t)[i], links |-> Links(t)[i]]
    BY <1>3 DEF HeadOf
  <2>5. i <= minted
    BY <1>1, <2>1
  <2> HIDE DEF i
  <2> QED BY <2>1, <2>2, <2>3, <2>4, <2>5 DEF DeltaHead, HeadSound, Folded, Links, Covers
<1>4. CASE heads[t] = None /\ LatestId(t) = None
  BY <1>4 DEF HeadOf
<1> QED BY <1>2, <1>3, <1>4

\* The pin of a put: the run's own, or that of the put before it.
LEMMA PinFacts ==
  ASSUME IInv, NEW t \in Threads, run[t] # None
  PROVE  /\ Pin(t) \in {Floor, Promoted}
         /\ run[t].pin # Floor => Pin(t) = run[t].pin
         /\ t \notin rolled /\ run[t].ids # <<>> => Pin(t) = files[t][run[t].ids[1]].pin
<1>1. files[t] \in Dirs /\ run[t] \in Locals /\ active \in {Floor, Promoted}
  BY DEF IInv, Typed
<1>2. LatestId(t) # None => files[t][LatestId(t)] \in File
  BY <1>1, LatestFacts, DirFacts DEF Stored
<1>3. Pin(t) \in {Floor, Promoted}
  BY <1>1, <1>2 DEF Pin, Locals, File
<1>4. run[t].pin # Floor => Pin(t) = run[t].pin
  BY DEF Pin
<1>5. ASSUME t \notin rolled, run[t].ids # <<>>
      PROVE  Pin(t) = files[t][run[t].ids[1]].pin
  <2> DEFINE ids == run[t].ids
  <2>1. Bound(files[t], run[t], latest[t])
    BY <1>5 DEF IInv, ThreadInv
  <2>2. ids \in Seq(Ids) /\ 1 \in DOMAIN ids /\ Len(ids) \in DOMAIN ids
    BY <1>1, <1>5 DEF Locals
  <2>3. /\ run[t].step > 0 /\ latest[t] = ids[Len(ids)]
        /\ ids[Len(ids)] \in DOMAIN files[t]
        /\ files[t][ids[Len(ids)]].pin = files[t][ids[1]].pin
        /\ run[t].pin # Floor => files[t][ids[1]].pin = run[t].pin
    BY <1>5, <2>1, <2>2 DEF Bound
  <2>4. ids[Len(ids)] \in Ids /\ run[t].step \in Nat
    BY <1>1, <2>2 DEF Locals
  <2>5. LatestId(t) = ids[Len(ids)]
    BY <2>3, <2>4 DEF LatestId, Stored, Ids
  <2>6. LatestId(t) # None
    BY <2>4, <2>5 DEF Ids
  <2> HIDE DEF ids
  <2>7. run[t].step # 0
    BY <2>3, <2>4
  <2> QED BY <1>4, <2>3, <2>5, <2>6, <2>7 DEF Pin, ids
<1> QED BY <1>3, <1>4, <1>5

LEMMA PutFileIInv ==
  ASSUME IInv, NEW t \in Threads, NEW c \in Channels, NEW pays \in BOOLEAN, PutFile(t, c, pays)
  PROVE  IInv'
<1> DEFINE id == minted + 1
           state == With(run[t].state, c, id)
           head == HeadOf(t)
           full == Full(state, head, pays)
           base == IF full THEN None ELSE head.id
           file == [step |-> run[t].step, pin |-> Pin(t), full |-> state,
                    base |-> IF full THEN None ELSE head.id,
                    state |-> IF full THEN state ELSE Delta(state, head)]
           put == [id |-> id, state |-> state, links |-> IF full THEN 0 ELSE head.links + 1]
           new == With(files[t], id, file)
<1>1. /\ run[t] \in Locals /\ run[t] # None /\ ~HeadFails(t)
      /\ minted \in Nat /\ id \in Ids /\ minted' = id
  BY DEF PutFile, PutRefused, IInv, Typed, Ids
<1>2. state \in States /\ run[t].step \in Nat /\ run[t].state \in States
  BY <1>1, WithTyped DEF Locals
<1>3. /\ files' = [files EXCEPT ![t] = new]
      /\ run' = [run EXCEPT ![t].state = state, ![t].writing = put]
      /\ heads' = [heads EXCEPT ![t] = head]
      /\ UNCHANGED <<latest, finished, rollback, active, lastPut, rolled>>
  BY DEF PutFile
<1>4. full \in BOOLEAN
  BY DEF Full
<1>5. \/ head = None
      \/ /\ head \in DeltaHead /\ head.id <= minted /\ HeadSound(files[t], head)
         /\ t \notin rolled => head.id \in DOMAIN files[t]
  BY <1>1, HeadOfSound
<1> HIDE DEF head
<1>6. ~full => head \in DeltaHead /\ head.links < MaxChain
  BY <1>5 DEF Full, DeltaHead
<1>7. Pin(t) \in {Floor, Promoted}
  BY <1>1, PinFacts
<1>8. files[t] \in Dirs /\ ThreadInv(t)
  BY DEF IInv, Typed
<1> HIDE DEF full, state
<1>9. /\ new \in Dirs /\ Founded(new) /\ ChainsSound(new)
      /\ DOMAIN new = DOMAIN files[t] \cup {id}
      /\ \A i \in DOMAIN files[t] : new[i] = files[t][i]
      /\ new[id] = file
      /\ HeadSound(new, put)
      /\ \A h \in DeltaHead : h.id <= minted /\ HeadSound(files[t], h) => HeadSound(new, h)
  <2>1. Founded(files[t]) /\ ChainsSound(files[t]) /\ DOMAIN files[t] \subseteq 1..minted
    BY <1>8 DEF ThreadInv, Numbered, Chained
  <2>2. base # None => /\ head \in DeltaHead /\ head.id = base /\ base <= minted
                       /\ head.links < MaxChain /\ HeadSound(files[t], head)
    BY <1>5, <1>6 DEF Full, full
  <2>6. full <=> base = None
    BY <1>6 DEF DeltaHead, Ids
  <2>3. file = Written(state, head, base, run[t].step, Pin(t))
    BY <1>6, <2>6 DEF Written
  <2> DEFINE dir == files[t]
             m == minted
             step == run[t].step
             pin == Pin(t)
  <2>4. /\ dir \in Dirs /\ Founded(dir) /\ ChainsSound(dir)
        /\ m \in Nat /\ m + 1 \in Ids /\ DOMAIN dir \subseteq 1..m
        /\ step \in Nat /\ pin \in {Floor, Promoted}
        /\ new = With(dir, m + 1, Written(state, head, base, step, pin))
    BY <1>1, <1>2, <1>7, <1>8, <2>1, <2>3
  <2>5. base # None => /\ head \in DeltaHead /\ head.id = base /\ base <= m
                       /\ head.links < MaxChain /\ HeadSound(dir, head)
    BY <2>2
  <2>7. put = [id |-> m + 1, state |-> state, links |-> IF base = None THEN 0 ELSE head.links + 1]
    BY <2>6
  <2> HIDE DEF new, base, dir, m, step, pin
  <2>8. Kept(dir, m, state, head, base, step, pin, new)
    <3>1. PutOver(dir, m, state, head, base, step, pin, new)
      BY <1>2, <2>4, <2>5 DEF PutOver
    <3> QED BY <3>1, PutSound
  <2>9. id = m + 1 /\ dir = files[t] /\ m = minted /\ file = Written(state, head, base, step, pin)
    BY <2>3 DEF dir, m, step, pin
  <2> HIDE DEF id, file, put
  <2> QED BY <2>7, <2>8, <2>9 DEF Kept
<1>10. put \in DeltaHead /\ put.id = id /\ put.links <= MaxChain
  BY <1>1, <1>2, <1>4, <1>6 DEF DeltaHead
<1>11. file.pin = Pin(t) /\ file.base = IF full THEN None ELSE head.id
  OBVIOUS
<1> HIDE DEF file, put, new
<1>12. /\ run'[t] \in Locals /\ run'[t].ids = run[t].ids /\ run'[t].step = run[t].step
       /\ run'[t].pin = run[t].pin /\ run'[t].writing = put
       /\ files'[t] = new /\ heads'[t] = head
  BY <1>1, <1>2, <1>3, <1>10 DEF Locals, IInv, Typed
<1>13. Typed'
  <2>1. run' \in [Threads -> Locals \cup {None}]
    BY <1>3, <1>12 DEF IInv, Typed
  <2>2. minted' \in 0..MaxPuts
    BY <1>1 DEF Ids
  <2> QED BY <1>3, <1>5, <1>9, <2>1, <2>2 DEF IInv, Typed
<1>14. ThreadInv(t)'
  <2>1. Numbered(new, head, run'[t], minted')
    <3>1. DOMAIN new \subseteq 1..id
      BY <1>1, <1>8, <1>9 DEF ThreadInv, Numbered
    <3>2. head # None => head.id <= id
      BY <1>1, <1>5 DEF DeltaHead, Ids
    <3> QED BY <1>1, <1>9, <1>10, <1>12, <3>1, <3>2 DEF Numbered, Writing, Founded
  <2>2. Chained(new, head, run'[t])
    BY <1>5, <1>9, <1>10, <1>12 DEF Chained, Writing
  <2>3. ASSUME t \notin rolled
        PROVE  Whole(new, head, run'[t], latest[t], lastPut[t])
    <3>1. Whole(files[t], heads[t], run[t], latest[t], lastPut[t])
      BY <1>8, <2>3 DEF ThreadInv
    <3>2. head # None => head.id \in DOMAIN files[t]
      BY <1>5, <2>3
    <3>3. new[id].base # None => new[id].base \in DOMAIN files[t]
      BY <1>4, <1>6, <1>9, <1>11, <3>2 DEF Full, full
    <3> QED BY <1>9, <1>10, <1>12, <3>1, <3>2, <3>3 DEF Whole, Writing
  <2>4. ASSUME t \notin rolled
        PROVE  Bound(new, run'[t], latest[t])
    <3> DEFINE ids == run[t].ids
    <3>1. Bound(files[t], run[t], latest[t])
      BY <1>8, <2>4 DEF ThreadInv
    <3>2. ids \in Seq(Ids) /\ (ids # <<>> => 1 \in DOMAIN ids)
      BY <1>1 DEF Locals
    <3>3. \A j \in DOMAIN ids : ids[j] \in DOMAIN files[t] /\ new[ids[j]] = files[t][ids[j]]
      BY <1>1, <1>9, <3>1 DEF Bound
    <3>4. /\ run[t].pin # Floor => new[id].pin = run[t].pin
          /\ ids # <<>> => new[id].pin = files[t][ids[1]].pin
      BY <1>1, <1>9, <1>11, <2>4, PinFacts
    <3>5. ids # <<>> => new[ids[1]] = files[t][ids[1]]
      BY <3>2, <3>3
    <3>6. ASSUME NEW j \in DOMAIN ids
          PROVE  /\ ids[j] \in DOMAIN new
                 /\ new[ids[j]].pin = new[ids[1]].pin
                 /\ run[t].pin # Floor => new[ids[j]].pin = run[t].pin
      <4>1. ids # <<>>
        BY <3>2, <3>6
      <4> QED BY <1>1, <1>9, <3>1, <3>3, <3>5, <3>6, <4>1 DEF Bound
    <3>7. ids # <<>> => run[t].step > 0 /\ latest[t] = ids[Len(ids)]
      BY <1>1, <3>1 DEF Bound
    <3> HIDE DEF ids
    <3>8. run'[t].ids = ids
      BY <1>12 DEF ids
    <3> QED BY <1>10, <1>12, <3>4, <3>5, <3>6, <3>7, <3>8 DEF Bound, Writing
  <2>5. latest'[t] = latest[t] /\ lastPut'[t] = lastPut[t] /\ rolled' = rolled
    BY <1>3
  <2> QED BY <1>12, <2>1, <2>2, <2>3, <2>4, <2>5, ThreadBecomes
<1>15. ASSUME NEW u \in Threads, u # t PROVE ThreadInv(u)'
  BY <1>1, <1>3, <1>15, ThreadStays DEF IInv, Typed
<1> QED BY <1>3, <1>13, <1>14, <1>15 DEF IInv

LEMMA PutPointerIInv ==
  ASSUME IInv, NEW t \in Threads, PutPointer(t)
  PROVE  IInv'
<1> DEFINE r == run[t]
           w == run[t].writing
           ids == Append(r.ids, w.id)
<1>1. r \in Locals /\ r # None /\ w # None /\ w \in DeltaHead /\ Writing(r)
  BY DEF PutPointer, IInv, Typed, Locals, Writing
<1>2. w.id \in Ids /\ r.ids \in Seq(Ids) /\ r.step \in Nat
  BY <1>1 DEF Locals, DeltaHead
<1>3. ids \in Seq(Ids)
  BY <1>2
<1>4. /\ latest' = [latest EXCEPT ![t] = w.id]
      /\ heads' = [heads EXCEPT ![t] = w]
      /\ lastPut' = [lastPut EXCEPT ![t] = w.id]
      /\ run' = [run EXCEPT ![t].writing = None, ![t].step = @ + 1, ![t].ids = ids]
      /\ UNCHANGED <<files, finished, rollback, active, rolled, minted>>
  BY DEF PutPointer, bounds
<1>5. /\ run'[t] \in Locals /\ run'[t].ids = ids /\ run'[t].step = r.step + 1
      /\ run'[t].pin = r.pin /\ run'[t].writing = None
      /\ latest'[t] = w.id /\ heads'[t] = w /\ lastPut'[t] = w.id
  BY <1>1, <1>2, <1>3, <1>4 DEF IInv, Typed, Locals
<1>6. Typed'
  <2>1. run' \in [Threads -> Locals \cup {None}]
    BY <1>4, <1>5 DEF IInv, Typed
  <2> QED BY <1>1, <1>2, <1>4, <2>1 DEF IInv, Typed
<1>7. ThreadInv(t) /\ minted' = minted
  BY <1>4 DEF IInv
<1>8. ~Writing(run'[t])
  BY <1>5 DEF Writing
<1>9. Numbered(files[t], w, run'[t], minted') /\ Chained(files[t], w, run'[t])
  BY <1>1, <1>7, <1>8 DEF ThreadInv, Numbered, Chained, Writing
<1>10. ASSUME t \notin rolled
       PROVE  Whole(files[t], w, run'[t], w.id, w.id) /\ Bound(files[t], run'[t], w.id)
  <2>1. Whole(files[t], heads[t], r, latest[t], lastPut[t]) /\ Bound(files[t], r, latest[t])
    BY <1>7, <1>10 DEF ThreadInv
  <2>2. w.id \in DOMAIN files[t]
    BY <1>1, <2>1 DEF Whole, Writing
  <2>3. Whole(files[t], w, run'[t], w.id, w.id)
    BY <1>8, <2>1, <2>2 DEF Whole
  <2>4. /\ \A j \in DOMAIN r.ids : /\ r.ids[j] \in DOMAIN files[t]
                                   /\ files[t][r.ids[j]].pin = files[t][r.ids[1]].pin
                                   /\ r.pin # Floor => files[t][r.ids[j]].pin = r.pin
        /\ r.pin # Floor => files[t][w.id].pin = r.pin
        /\ r.ids # <<>> => files[t][w.id].pin = files[t][r.ids[1]].pin
    BY <1>1, <2>1 DEF Bound, Writing
  <2>5. /\ Len(ids) = Len(r.ids) + 1 /\ ids[Len(ids)] = w.id
        /\ DOMAIN ids = 1..Len(ids) /\ DOMAIN r.ids = 1..Len(r.ids) /\ Len(r.ids) \in Nat
        /\ \A j \in DOMAIN ids : j = Len(ids) \/ (j \in DOMAIN r.ids /\ ids[j] = r.ids[j])
        /\ r.ids # <<>> => ids[1] = r.ids[1]
        /\ r.ids = <<>> => ids[1] = w.id /\ Len(ids) = 1
    BY <1>2
  <2> HIDE DEF r, w, ids
  <2>6. ASSUME NEW j \in DOMAIN ids
        PROVE  /\ ids[j] \in DOMAIN files[t]
               /\ files[t][ids[j]].pin = files[t][ids[1]].pin
               /\ r.pin # Floor => files[t][ids[j]].pin = r.pin
    <3>1. CASE j \in DOMAIN r.ids
      <4>1. r.ids # <<>> /\ j # Len(ids)
        BY <2>5, <3>1
      <4> QED BY <2>4, <2>5, <2>6, <3>1, <4>1
    <3>2. CASE j = Len(ids)
      BY <2>2, <2>4, <2>5, <3>2
    <3> QED BY <2>5, <3>1, <3>2
  <2>7. r.step + 1 > 0
    BY <1>2 DEF r
  <2>8. run'[t].ids = ids /\ run'[t].step = r.step + 1 /\ run'[t].pin = r.pin
    BY <1>5 DEF r, ids
  <2>9. Bound(files[t], run'[t], w.id)
    BY <1>8, <2>5, <2>6, <2>7, <2>8 DEF Bound
  <2> QED BY <2>3, <2>9 DEF w
<1>11. ThreadInv(t)'
  BY <1>4, <1>5, <1>9, <1>10, ThreadBecomes
<1>12. ASSUME NEW u \in Threads, u # t PROVE ThreadInv(u)'
  BY <1>4, <1>12, ThreadStays DEF IInv, Typed
<1> QED BY <1>4, <1>6, <1>11, <1>12 DEF IInv

\* A run ends, with or without a head read for a put that failed.
LEMMA RunEndsIInv ==
  ASSUME IInv, NEW t \in Threads, run[t] # None, Ended(t), NEW head,
         heads' = [heads EXCEPT ![t] = head],
         \/ head = None
         \/ /\ head \in DeltaHead
            /\ head.id <= minted
            /\ HeadSound(files[t], head)
            /\ t \notin rolled => head.id \in DOMAIN files[t],
         UNCHANGED <<files, latest, rollback, active, lastPut, rolled, minted>>
  PROVE  IInv'
<1>1. run' = [run EXCEPT ![t] = None]
  BY DEF Ended
<1>2. finished' \subseteq EndedRun
  <2>1. run[t] \in Locals
    BY DEF IInv, Typed
  <2>2. [thread |-> t, ids |-> run[t].ids] \in EndedRun
    BY <2>1 DEF Locals, EndedRun
  <2> QED BY <2>2 DEF Ended, IInv, Typed
<1>3. Typed'
  BY <1>1, <1>2 DEF IInv, Typed
<1>4. ThreadInv(t)'
  <2>1. ThreadInv(t) /\ heads'[t] = head /\ run'[t] = None
    BY <1>1 DEF IInv, Typed
  <2>2. Numbered(files[t], head, None, minted') /\ Chained(files[t], head, None)
    BY <2>1 DEF ThreadInv, Numbered, Chained, Writing
  <2>3. t \notin rolled => /\ Whole(files[t], head, None, latest[t], lastPut[t])
                          /\ Bound(files[t], None, latest[t])
    BY <2>1 DEF ThreadInv, Whole, Bound, Writing
  <2> QED BY <2>1, <2>2, <2>3, ThreadBecomes
<1>5. ASSUME NEW u \in Threads, u # t PROVE ThreadInv(u)'
  BY <1>1, <1>5, ThreadStays DEF IInv, Typed
<1> QED BY <1>3, <1>4, <1>5 DEF IInv

\* The head a thread has already.
LEMMA HeadAsItIs ==
  ASSUME IInv, NEW t \in Threads
  PROVE  /\ heads = [heads EXCEPT ![t] = heads[t]]
         /\ \/ heads[t] = None
            \/ /\ heads[t] \in DeltaHead
               /\ heads[t].id <= minted
               /\ HeadSound(files[t], heads[t])
               /\ t \notin rolled => heads[t].id \in DOMAIN files[t]
<1>1. heads \in [Threads -> DeltaHead \cup {None}] /\ ThreadInv(t)
  BY DEF IInv, Typed
<1>2. heads = [heads EXCEPT ![t] = heads[t]]
  BY <1>1
<1> QED BY <1>1, <1>2 DEF ThreadInv, Numbered, Chained, Whole

LEMMA FinishRunIInv ==
  ASSUME IInv, NEW t \in Threads, FinishRun(t)
  PROVE  IInv'
<1>1. /\ run[t] # None /\ Ended(t)
      /\ UNCHANGED <<files, latest, heads, rollback, active, lastPut, rolled, minted>>
  BY DEF FinishRun, bounds
<1>2. heads' = [heads EXCEPT ![t] = heads[t]]
  BY <1>1, HeadAsItIs
<1> QED BY <1>1, <1>2, HeadAsItIs, RunEndsIInv

LEMMA PutFailsIInv ==
  ASSUME IInv, NEW t \in Threads, PutFails(t)
  PROVE  IInv'
<1>1. /\ run[t] # None /\ Ended(t)
      /\ UNCHANGED <<files, latest, rollback, active, lastPut, rolled, minted>>
  BY DEF PutFails
<1>2. CASE heads' = heads
  <2>1. heads' = [heads EXCEPT ![t] = heads[t]]
    BY <1>2, HeadAsItIs
  <2> QED BY <1>1, <2>1, HeadAsItIs, RunEndsIInv
<1>3. CASE ~PutRefused(t) /\ heads' = [heads EXCEPT ![t] = HeadOf(t)]
  <2>1. ~HeadFails(t)
    BY <1>3 DEF PutRefused
  <2> QED BY <1>1, <1>3, <2>1, HeadOfSound, RunEndsIInv
<1> QED BY <1>2, <1>3 DEF PutFails

LEMMA PromoteIInv ==
  ASSUME IInv, Promote
  PROVE  IInv'
<1>1. /\ UNCHANGED <<files, latest, heads, run, finished, rollback, lastPut, rolled, minted>>
      /\ active' \in {Floor, Promoted}
  BY DEF Promote, bounds
<1>2. Typed'
  BY <1>1 DEF IInv, Typed
<1>3. ASSUME NEW t \in Threads PROVE ThreadInv(t)'
  BY <1>1, ThreadStays DEF IInv, Typed
<1> QED BY <1>1, <1>2, <1>3 DEF IInv

LEMMA CrashIInv ==
  ASSUME IInv, Crash
  PROVE  IInv'
<1>1. /\ heads' = [t \in Threads |-> None]
      /\ run' = [t \in Threads |-> None]
      /\ rollback' = None
      /\ UNCHANGED <<files, latest, active, lastPut, rolled, minted>>
  BY DEF Crash
<1>2. finished' \subseteq EndedRun
  <2>1. \A t \in Threads : run[t] # None => [thread |-> t, ids |-> run[t].ids] \in EndedRun
    BY DEF IInv, Typed, Locals, EndedRun
  <2> QED BY <2>1 DEF Crash, IInv, Typed
<1>3. Typed'
  BY <1>1, <1>2 DEF IInv, Typed
<1>4. ASSUME NEW t \in Threads PROVE ThreadInv(t)'
  <2>1. ThreadInv(t) /\ heads'[t] = None /\ run'[t] = None
    BY <1>1 DEF IInv
  <2>2. Numbered(files[t], None, None, minted') /\ Chained(files[t], None, None)
    BY <1>1, <2>1 DEF ThreadInv, Numbered, Chained, Writing
  <2>3. t \notin rolled => /\ Whole(files[t], None, None, latest[t], lastPut[t])
                          /\ Bound(files[t], None, latest[t])
    BY <2>1 DEF ThreadInv, Whole, Bound, Writing
  <2> QED BY <1>1, <2>1, <2>2, <2>3, ThreadBecomes
<1> QED BY <1>1, <1>3, <1>4 DEF IInv

LEMMA ForkIInv ==
  ASSUME IInv, NEW src \in Threads, NEW dst \in Threads, NEW at \in Ids, NEW n \in Ids,
         Fork(src, dst, at, n)
  PROVE  IInv'
<1> DEFINE ids == SubSeq(Listed(src), 1, n)
           tip == ids[n]
           dir == [i \in ToSet(ids) |-> Copy(src, i)]
           head == [id |-> tip, state |-> Folded(src)[tip], links |-> 0]
<1>1. /\ run[dst] = None /\ at \in 1..Len(Listed(src)) /\ n \in 1..at
      /\ files' = [files EXCEPT ![dst] = dir]
      /\ latest' = [latest EXCEPT ![dst] = tip]
      /\ heads' = [heads EXCEPT ![dst] = head]
      /\ lastPut' = [lastPut EXCEPT ![dst] = tip]
      /\ UNCHANGED <<run, finished, rollback, active, rolled, minted>>
  BY DEF Fork
<1>2. /\ files[src] \in Dirs /\ Founded(files[src]) /\ minted \in Nat
      /\ DOMAIN files[src] \subseteq 1..minted
  BY DEF IInv, Typed, ThreadInv, Numbered
<1>3. /\ Listed(src) \in Seq(Ids)
      /\ \A k \in DOMAIN Listed(src) :
           Listed(src)[k] \in Stored(src) /\ Readable(src, Listed(src)[k])
  BY <1>2, ListedReadable
<1>4. DOMAIN ids = 1..n /\ \A k \in 1..n : k \in DOMAIN Listed(src) /\ ids[k] = Listed(src)[k]
  BY <1>1, <1>3 DEF Ids
<1>5. \A i \in ToSet(ids) : i \in DOMAIN files[src] /\ i \in Ids /\ Folded(src)[i] \in States
  <2> SUFFICES ASSUME NEW i \in ToSet(ids)
               PROVE  i \in DOMAIN files[src] /\ i \in Ids /\ Folded(src)[i] \in States
    OBVIOUS
  <2>1. PICK k \in 1..n : i = Listed(src)[k] /\ k \in DOMAIN Listed(src)
    BY <1>4 DEF ToSet
  <2>2. i \in DOMAIN files[src] /\ i \in Ids /\ Folded(src)[i] # None
    BY <1>2, <1>3, <2>1, DirFacts DEF Stored, Readable
  <2> QED BY <1>2, <2>2, ChainsTyped DEF Folded
<1>6. tip \in ToSet(ids)
  <2>1. n \in DOMAIN ids
    BY <1>1, <1>4
  <2> QED BY <2>1 DEF ToSet
<1> HIDE DEF ids, tip
<1>7. ASSUME NEW i \in ToSet(ids)
      PROVE  /\ Copy(src, i) \in File /\ Copy(src, i).base = None
             /\ Copy(src, i).state = Folded(src)[i] /\ Copy(src, i).full = Folded(src)[i]
  <2>1. files[src][i] \in File /\ Folded(src)[i] \in States
    BY <1>2, <1>5, DirFacts
  <2> QED BY <2>1 DEF Copy, File
<1>8. dir \in Dirs /\ DOMAIN dir = ToSet(ids)
  <2>1. ToSet(ids) \in SUBSET Ids /\ dir \in [ToSet(ids) -> File]
    BY <1>5, <1>7
  <2> QED BY <2>1, DirIntro
<1>9. \A i \in DOMAIN dir : dir[i].base = None /\ dir[i].full = dir[i].state
                          /\ dir[i].state = Folded(src)[i]
  BY <1>7, <1>8
<1> HIDE DEF dir
<1>10. Founded(dir) /\ ChainsSound(dir) /\ HeadSound(dir, head)
  <2>1. /\ Founded(dir) /\ ChainsSound(dir)
        /\ HeadSound(dir, [id |-> tip, state |-> dir[tip].state, links |-> 0])
    BY <1>6, <1>8, <1>9, SnapshotsSound
  <2> QED BY <1>6, <1>8, <1>9, <2>1
<1>11. tip \in Ids /\ tip <= minted /\ DOMAIN dir \subseteq 1..minted
  BY <1>2, <1>5, <1>6, <1>8
<1>12. head \in DeltaHead /\ head.id = tip
  BY <1>5, <1>6, <1>11 DEF DeltaHead
<1> HIDE DEF head
<1>13. Typed'
  BY <1>1, <1>8, <1>11, <1>12 DEF IInv, Typed
<1>14. ThreadInv(dst)'
  <2>1. /\ files'[dst] = dir /\ heads'[dst] = head /\ run'[dst] = None
        /\ latest'[dst] = tip /\ lastPut'[dst] = tip /\ minted' = minted
    BY <1>1 DEF IInv, Typed
  <2>2. Numbered(dir, head, None, minted') /\ Chained(dir, head, None)
    BY <1>10, <1>11, <1>12, <2>1 DEF Numbered, Chained, Writing
  <2>3. Whole(dir, head, None, tip, tip) /\ Bound(dir, None, tip)
    BY <1>6, <1>8, <1>9, <1>12 DEF Whole, Bound, Writing
  <2> QED BY <2>1, <2>2, <2>3, ThreadBecomes
<1>15. ASSUME NEW u \in Threads, u # dst PROVE ThreadInv(u)'
  BY <1>1, <1>15, ThreadStays DEF IInv, Typed
<1> QED BY <1>1, <1>13, <1>14, <1>15 DEF IInv

LEMMA RollbackBeginIInv ==
  ASSUME IInv, NEW r \in finished, RollbackBegin(r)
  PROVE  IInv'
<1>1. r \in EndedRun /\ r.thread \in Threads
  BY DEF IInv, Typed, EndedRun
<1>2. /\ rollback' = r
      /\ rolled' = rolled \cup {r.thread}
      /\ lastPut' = [lastPut EXCEPT ![r.thread] = None]
      /\ UNCHANGED <<files, latest, heads, run, finished, active, minted>>
  BY DEF RollbackBegin
<1>3. Typed'
  BY <1>1, <1>2 DEF IInv, Typed
<1>4. ThreadInv(r.thread)'
  <2> DEFINE t == r.thread
  <2>1. ThreadInv(t) /\ t \in rolled'
    BY <1>1, <1>2 DEF IInv
  <2>2. Numbered(files[t], heads[t], run[t], minted') /\ Chained(files[t], heads[t], run[t])
    BY <1>2, <2>1 DEF ThreadInv
  <2>3. files'[t] = files[t] /\ heads'[t] = heads[t] /\ run'[t] = run[t]
    BY <1>2
  <2> HIDE DEF t
  <2>4. ThreadInv(t)'
    BY <2>1, <2>2, <2>3, ThreadBecomes
  <2> QED BY <2>4 DEF t
<1>5. ASSUME NEW u \in Threads, u # r.thread PROVE ThreadInv(u)'
  BY <1>1, <1>2, <1>5, ThreadStays DEF IInv, Typed
<1> QED BY <1>2, <1>3, <1>4, <1>5 DEF IInv

LEMMA RollbackDeleteIInv ==
  ASSUME IInv, RollbackDelete
  PROVE  IInv'
<1>0. PICK t \in Threads : t = rollback.thread
  BY DEF IInv, Typed, EndedRun, RollbackDelete
<1> DEFINE gone == rollback.ids[1]
           dir == [i \in DOMAIN files[t] \ {gone} |-> files[t][i]]
<1>1. /\ rollback \in EndedRun /\ t \in rolled
      /\ rollback.ids \in Seq(Ids) /\ rollback.ids # <<>>
  BY <1>0 DEF IInv, Typed, EndedRun, RollbackDelete
<1>2. /\ files' = [files EXCEPT ![t] = dir]
      /\ rollback' = [rollback EXCEPT !.ids = Tail(@)]
      /\ UNCHANGED <<latest, heads, run, finished, active, lastPut, rolled, minted>>
  BY <1>0 DEF RollbackDelete, bounds
<1>3. rollback' \in EndedRun /\ rollback'.thread = t
  <2>1. Tail(rollback.ids) \in Seq(Ids)
    BY <1>1
  <2> QED BY <1>0, <1>1, <1>2, <2>1 DEF EndedRun
<1>4. files[t] \in Dirs /\ ThreadInv(t)
  BY <1>1 DEF IInv, Typed
<1>5. /\ dir \in Dirs /\ Founded(dir) /\ ChainsSound(dir)
      /\ \A h \in DeltaHead : HeadSound(files[t], h) => HeadSound(dir, h)
  <2>1. dir = [i \in DOMAIN files[t] \ {gone} |-> files[t][i]]
    OBVIOUS
  <2>2. Founded(files[t]) /\ ChainsSound(files[t])
    BY <1>4 DEF ThreadInv, Numbered, Chained
  <2> HIDE DEF dir, gone
  <2> QED BY <1>4, <2>1, <2>2, CutSound
<1>6. DOMAIN dir \subseteq DOMAIN files[t]
  OBVIOUS
<1> HIDE DEF dir
<1>7. Typed'
  BY <1>1, <1>2, <1>3, <1>5 DEF IInv, Typed
<1>8. ThreadInv(t)'
  <2>1. /\ files'[t] = dir /\ heads'[t] = heads[t] /\ run'[t] = run[t]
        /\ latest'[t] = latest[t] /\ lastPut'[t] = lastPut[t] /\ minted' = minted
        /\ t \in rolled'
    BY <1>1, <1>2 DEF IInv, Typed
  <2>2. heads[t] \in DeltaHead \cup {None} /\ run[t] \in Locals \cup {None}
    BY <1>1 DEF IInv, Typed
  <2>3. Numbered(dir, heads[t], run[t], minted')
    BY <1>4, <1>5, <1>6, <2>1 DEF ThreadInv, Numbered
  <2>4. Chained(dir, heads[t], run[t])
    <3>1. Chained(files[t], heads[t], run[t])
      BY <1>4 DEF ThreadInv
    <3>2. Writing(run[t]) => run[t].writing \in DeltaHead
      BY <2>2 DEF Writing, Locals
    <3> QED BY <1>5, <2>2, <3>1, <3>2 DEF Chained
  <2> QED BY <2>1, <2>3, <2>4, ThreadBecomes
<1>9. ASSUME NEW u \in Threads, u # t PROVE ThreadInv(u)'
  BY <1>1, <1>2, <1>9, ThreadStays DEF IInv, Typed
<1> QED BY <1>1, <1>2, <1>3, <1>7, <1>8, <1>9 DEF IInv

LEMMA RollbackAnchorIInv ==
  ASSUME IInv, RollbackAnchor
  PROVE  IInv'
<1>0. PICK t \in Threads : t = rollback.thread
  BY DEF IInv, Typed, EndedRun, RollbackAnchor
<1> DEFINE last == IF Listed(t) = <<>> THEN None ELSE Last(Listed(t))
<1>1. t \in rolled
  BY <1>0 DEF IInv, RollbackAnchor
<1>2. /\ latest' = [latest EXCEPT ![t] = last]
      /\ rollback' = None
      /\ UNCHANGED <<files, heads, run, finished, active, lastPut, rolled, minted>>
  BY <1>0 DEF RollbackAnchor, bounds
<1>3. last \in Ids \cup {None}
  <2>1. Listed(t) \in Seq(Ids)
    BY <1>1, ListedReadable DEF IInv, Typed, ThreadInv, Numbered
  <2> QED BY <2>1 DEF Last
<1> HIDE DEF last
<1>4. Typed'
  BY <1>1, <1>2, <1>3 DEF IInv, Typed
<1>5. ThreadInv(t)'
  <2>1. ThreadInv(t) /\ t \in rolled'
    BY <1>1, <1>2 DEF IInv
  <2>2. Numbered(files[t], heads[t], run[t], minted') /\ Chained(files[t], heads[t], run[t])
    BY <1>2, <2>1 DEF ThreadInv
  <2> QED BY <1>2, <2>1, <2>2, ThreadBecomes
<1>6. ASSUME NEW u \in Threads, u # t PROVE ThreadInv(u)'
  BY <1>1, <1>2, <1>6, ThreadStays DEF IInv, Typed
<1> QED BY <1>2, <1>4, <1>5, <1>6 DEF IInv

LEMMA NextIInv == IInv /\ [Next]_vars => IInv'
<1> SUFFICES ASSUME IInv, [Next]_vars PROVE IInv'
  OBVIOUS
<1>1. CASE UNCHANGED vars
  <2>1. Typed'
    BY <1>1 DEF vars, IInv, Typed
  <2>2. ASSUME NEW t \in Threads PROVE ThreadInv(t)'
    BY <1>1, ThreadStays DEF vars, IInv, Typed
  <2> QED BY <1>1, <2>1, <2>2 DEF vars, IInv
<1>2. ASSUME NEW t \in Threads,
             \/ StartRun(t)
             \/ \E i \in Ids : ResumeRun(t, i)
             \/ \E c \in Channels, pays \in BOOLEAN : PutFile(t, c, pays)
             \/ PutPointer(t)
             \/ FinishRun(t)
             \/ PutFails(t)
      PROVE  IInv'
  BY <1>2, StartRunIInv, ResumeRunIInv, PutFileIInv, PutPointerIInv, FinishRunIInv, PutFailsIInv
<1>3. CASE \E src, dst \in Threads : \E at, n \in Ids : Fork(src, dst, at, n)
  BY <1>3, ForkIInv
<1>4. CASE \E r \in finished : RollbackBegin(r)
  BY <1>4, RollbackBeginIInv
<1>5. CASE Promote \/ Crash \/ RollbackDelete \/ RollbackAnchor
  BY <1>5, PromoteIInv, CrashIInv, RollbackDeleteIInv, RollbackAnchorIInv
<1> QED BY <1>1, <1>2, <1>3, <1>4, <1>5 DEF Next

LEMMA Inductive == Spec => []IInv
<1>1. IInv /\ [Next]_vars => IInv'
  BY NextIInv
<1> QED BY <1>1, InitIInv, PTL DEF Spec

-----------------------------------------------------------------------------
(***************************************************************************)
(* The theorems                                                            *)
(***************************************************************************)

\* No chain is ever longer than DeltaPolicy::max_chain_len, and files, pointers and puts
\* in flight are well-formed: heads from the cache, from the disk after a restart and
\* from interrupted puts, forks and rollbacks included (encode_delta, head_of).
THEOREM ChainsBounded == Spec => []ChainBounded
<1>1. IInv => ChainBounded
  <2> SUFFICES ASSUME IInv PROVE ChainBounded
    OBVIOUS
  <2> SUFFICES ASSUME NEW t \in Threads
               PROVE  /\ Stored(t) \subseteq 1..minted
                      /\ \A i \in Stored(t) :
                           /\ DOMAIN files[t][i].state \subseteq Channels
                           /\ files[t][i].base \in Ids \cup {None}
                           /\ files[t][i].base # None => files[t][i].base < i
                      /\ latest[t] \in Ids \cup {None}
                      /\ run[t] # None /\ run[t].writing # None => run[t].writing.links \in 0..MaxChain
                      /\ \A i \in Stored(t) : Links(t)[i] <= MaxChain
    BY DEF ChainBounded, FilesTypeOK
  <2>1. ThreadInv(t) /\ files[t] \in Dirs
    BY DEF IInv, Typed
  <2>2. \A i \in DOMAIN files[t] : files[t][i] \in File
    BY <2>1, DirFacts
  <2>3. \A i \in Stored(t) : /\ DOMAIN files[t][i].state \subseteq Channels
                             /\ files[t][i].base \in Ids \cup {None}
    BY <2>2, StateFacts DEF Stored, File
  <2>4. \A i \in Stored(t) : files[t][i].base # None => files[t][i].base < i
    BY <2>1 DEF ThreadInv, Numbered, Founded, Stored
  <2>5. run[t] # None /\ run[t].writing # None => run[t].writing.links \in 0..MaxChain
    BY <2>1 DEF IInv, Typed, Locals, DeltaHead, ThreadInv, Chained, Writing
  <2>6. \A i \in Stored(t) : Links(t)[i] <= MaxChain
    BY <2>1 DEF ThreadInv, Chained, ChainsSound, Stored, Links
  <2>7. Stored(t) \subseteq 1..minted /\ latest[t] \in Ids \cup {None}
    BY <2>1 DEF IInv, Typed, ThreadInv, Numbered, Stored
  <2> QED BY <2>3, <2>4, <2>5, <2>6, <2>7
<1> QED BY <1>1, Inductive, PTL

\* Whatever chain of deltas a checkpoint sits on, a read of it answers every channel
\* with the value it was put with, and nothing besides as long as no link of the chain
\* was put over a head with more channels (encode_delta, fold_delta, fold_chain).
THEOREM ReadsBack == Spec => []ReadBack
<1>1. IInv => ReadBack
  BY DEF IInv, ThreadInv, Chained, ChainsSound, Covers, ReadBack, Stored, Folded, NeverShrank
<1> QED BY <1>1, Inductive, PTL

\* On a thread no rollback touched, no crash, failed write or fork cut short makes a
\* checkpoint unreadable, and get_latest answers the last put that completed.
THEOREM LatestIsDurable == Spec => []LatestDurable
<1>1. IInv => LatestDurable
  <2> SUFFICES ASSUME IInv, NEW t \in Threads \ rolled
               PROVE  /\ \A i \in Stored(t) : Readable(t, i)
                      /\ lastPut[t] # None => LatestId(t) = lastPut[t]
    BY DEF LatestDurable
  <2>1. /\ files[t] \in Dirs /\ Founded(files[t])
        /\ Whole(files[t], heads[t], run[t], latest[t], lastPut[t])
    BY DEF IInv, Typed, ThreadInv, Numbered
  <2>2. \A i \in DOMAIN files[t] : Fold(files[t])[i] \in States
    BY <2>1, ChainsWhole DEF Whole
  <2> QED BY <2>1, <2>2, StateFacts DEF Whole, Stored, Readable, Folded, LatestId
<1> QED BY <1>1, Inductive, PTL

\* The checkpoints one run put on a thread without a rollback carry one policy version,
\* whenever a promotion falls between its puts (PolicyBindingCheckpointer::put).
THEOREM PinsStable == Spec => []PinStable
<1>1. IInv => PinStable
  BY DEF IInv, ThreadInv, Bound, PinStable
<1> QED BY <1>1, Inductive, PTL

=============================================================================
