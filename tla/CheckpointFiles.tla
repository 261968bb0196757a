--------------------------- MODULE CheckpointFiles ---------------------------
(***************************************************************************)
(* The file checkpointer of rusty-core (checkpoint.rs) under its users in  *)
(* rusty-server: runs that write a checkpoint at every super-step, the     *)
(* policy-binding decorator (policy.rs), forks, and the rollback route     *)
(* that deletes a run's files beside the checkpointer (routes.rs).         *)
(*                                                                         *)
(* A checkpoint's state maps the channels written so far to the put that   *)
(* last wrote each.  A put is two file writes, the checkpoint and then the *)
(* pointer; the process may die or a write fail between them.  Whether a   *)
(* delta is small enough to pay for itself is an input.  Checkpoints are   *)
(* numbered as they are minted, so a number is also its created_at.        *)
(***************************************************************************)
EXTENDS Naturals, Sequences, SequencesExt, FiniteSets

CONSTANTS
  Threads,      \* thread directories
  Channels,     \* state channels
  MaxChain,     \* DeltaPolicy::max_chain_len
  MaxPuts,      \* bound: checkpoints minted
  MaxRuns,      \* bound: runs started
  MaxFaults,    \* bound: crashes and failed writes
  MaxRollbacks, \* bound: rollback requests
  None

Ids == 1..MaxPuts

\* A state: the channels written so far, each with the put that last wrote it.
States == UNION {[written -> Ids] : written \in SUBSET Channels}

ASSUME FilesAssumption ==
  /\ MaxChain \in Nat
  /\ MaxPuts \in Nat
  /\ MaxRuns \in Nat
  /\ MaxFaults \in Nat
  /\ MaxRollbacks \in Nat
  /\ None \notin Nat
  /\ None \notin States

Floor == 0      \* PolicyVersion::STATIC_V0
Promoted == 1   \* the version a promotion activates

VARIABLES
  files,     \* durable: the checkpoint files of each thread directory
  latest,    \* durable: the latest pointer of each, or None
  heads,     \* JsonFileCheckpointer::heads, the cached head of each, or None
  run,       \* the run executing on each thread, or None
  finished,  \* the runs that ended: their thread and checkpoint_ids
  rollback,  \* the rollback request being served, or None
  active,    \* the registry's active policy version
  lastPut,   \* history: the last put completed on each thread since its last rollback
  rolled,    \* history: the threads a rollback has touched
  minted,    \* counted against MaxPuts
  started,   \* counted against MaxRuns
  faults,    \* counted against MaxFaults
  rollbacks  \* counted against MaxRollbacks

vars == <<files, latest, heads, run, finished, rollback, active, lastPut, rolled,
          minted, started, faults, rollbacks>>
bounds == <<minted, started, faults, rollbacks>>

Fault == faults < MaxFaults /\ faults' = faults + 1

-----------------------------------------------------------------------------
(* Reading.                                                                *)

Stored(t) == DOMAIN files[t]

\* f with k mapped to v.
With(f, k, v) == [x \in DOMAIN f \cup {k} |-> IF x = k THEN v ELSE f[x]]

\* fold_delta: the delta's channels over those of the materialized base.
Overlay(delta, state) ==
  [c \in DOMAIN delta \cup DOMAIN state |-> IF c \in DOMAIN delta THEN delta[c] ELSE state[c]]

\* fold_chain over load_chain: the state of each checkpoint of a directory, None for
\* one with a link missing.  A base is older than its delta.
Fold(dir) ==
  LET F[i \in Ids] ==
        IF i \notin DOMAIN dir THEN None
        ELSE IF dir[i].base = None THEN dir[i].state
        ELSE IF F[dir[i].base] = None THEN None
        ELSE Overlay(dir[i].state, F[dir[i].base])
  IN F

Folded(t) == Fold(files[t])

\* The delta links below each checkpoint.
Count(dir) ==
  LET L[i \in Ids] ==
        IF i \notin DOMAIN dir THEN 0
        ELSE IF dir[i].base = None THEN 0 ELSE L[dir[i].base] + 1
  IN L

Links(t) == Count(files[t])

Readable(t, i) == i \in Stored(t) /\ Folded(t)[i] # None

Newest(S) == CHOOSE i \in S : \A j \in S : j <= i

LatestId_ByStep(t) ==
  IF Stored(t) = {} THEN None
  ELSE CHOOSE i \in Stored(t) : \A j \in Stored(t) : files[t][j].step <= files[t][i].step

\* read_latest_raw: the pointer, or the newest file when it is missing or dangling.
LatestId(t) ==
  IF latest[t] # None /\ latest[t] \in Stored(t) THEN latest[t]
  ELSE IF Stored(t) = {} THEN None ELSE Newest(Stored(t))

\* get_latest fails on a chain it cannot load.
LatestFails(t) == LatestId(t) # None /\ ~Readable(t, LatestId(t))

\* list: the readable checkpoints by step, then by age.
Older(t, i, j) ==
  \/ files[t][i].step < files[t][j].step
  \/ files[t][i].step = files[t][j].step /\ i < j

Listed(t) ==
  LET shown == {i \in Stored(t) : Readable(t, i)}
      Before(i) == {j \in shown : Older(t, j, i)}
  IN [k \in 1..Cardinality(shown) |->
        CHOOSE i \in shown : Cardinality(Before(i)) = k - 1]

-----------------------------------------------------------------------------
(* Runs.                                                                   *)

Begin(t, state, step, pin) ==
  /\ run[t] = None
  /\ started < MaxRuns
  /\ started' = started + 1
  /\ run' = [run EXCEPT ![t] = [state |-> state, step |-> step, pin |-> pin,
                                ids |-> <<>>, writing |-> None]]
  /\ UNCHANGED <<files, latest, heads, finished, rollback, active, lastPut, rolled,
                 minted, faults, rollbacks>>

\* A fresh run: the latest state, step 0 and the static floor.
StartRun(t) ==
  /\ ~LatestFails(t)
  /\ Begin(t, IF LatestId(t) = None THEN << >> ELSE Folded(t)[LatestId(t)], 0, Floor)

\* A resume (of the latest checkpoint) or time travel (to any): its step and pin go on.
ResumeRun(t, i) ==
  /\ Readable(t, i)
  /\ Begin(t, Folded(t)[i], files[t][i].step, files[t][i].pin)

HeadOf_Rooted(t) ==
  IF heads[t] # None THEN heads[t]
  ELSE IF LatestId(t) = None THEN None
  ELSE [id |-> LatestId(t), state |-> Folded(t)[LatestId(t)], links |-> 0]

\* head_of: the cached head, or the one the chain on disk folds to.
HeadOf(t) ==
  IF heads[t] # None THEN heads[t]
  ELSE IF LatestId(t) = None THEN None
  ELSE [id |-> LatestId(t), state |-> Folded(t)[LatestId(t)], links |-> Links(t)[LatestId(t)]]

HeadFails(t) == heads[t] = None /\ LatestFails(t)

\* channels_changed_since: what the delta holds.
Changed(state, head) ==
  {c \in DOMAIN state : c \notin DOMAIN head.state \/ state[c] # head.state[c]}

\* encode_delta stores a full snapshot: no head, a full chain, or no saving.
Full(state, head, pays) ==
  \/ head = None
  \/ head.links >= MaxChain
  \/ Changed(state, head) = DOMAIN state
  \/ ~pays

Delta_Unchanged(state, head) ==
  [c \in {c \in DOMAIN state : c \notin DOMAIN head.state} |-> state[c]]

Delta(state, head) == [c \in Changed(state, head) |-> state[c]]

Pin_Active(t) == active

\* PolicyBindingCheckpointer::put: a floor header binds the active version at
\* admission and inherits the pin of the latest checkpoint otherwise.
Pin(t) ==
  IF run[t].pin # Floor THEN run[t].pin
  ELSE IF \/ LatestId(t) = None
          \/ run[t].step = 0 /\ files[t][LatestId(t)].step > 0
       THEN active
       ELSE files[t][LatestId(t)].pin

\* The decorator reads the latest checkpoint when the header is at the floor.
PutRefused(t) == (run[t].pin = Floor /\ LatestFails(t)) \/ HeadFails(t)

\* A super-step merges a write to channel c; put_internal writes its checkpoint file.
PutFile(t, c, pays) ==
  /\ run[t] # None
  /\ run[t].writing = None
  /\ ~PutRefused(t)
  /\ minted < MaxPuts
  /\ LET id == minted + 1
         state == With(run[t].state, c, id)
         head == HeadOf(t)
         full == Full(state, head, pays)
         file == [step |-> run[t].step, pin |-> Pin(t), full |-> state,
                  base |-> IF full THEN None ELSE head.id,
                  state |-> IF full THEN state ELSE Delta(state, head)]
     IN /\ files' = [files EXCEPT ![t] = With(@, id, file)]
        /\ run' = [run EXCEPT ![t].state = state,
                     ![t].writing = [id |-> id, state |-> state,
                                     links |-> IF full THEN 0 ELSE head.links + 1]]
        /\ heads' = [heads EXCEPT ![t] = head]
  /\ minted' = minted + 1
  /\ UNCHANGED <<latest, finished, rollback, active, lastPut, rolled,
                 started, faults, rollbacks>>

\* Then the pointer, the cached head and the run's checkpoint_ids.
PutPointer(t) ==
  /\ run[t] # None
  /\ run[t].writing # None
  /\ latest' = [latest EXCEPT ![t] = run[t].writing.id]
  /\ heads' = [heads EXCEPT ![t] = run[t].writing]
  /\ run' = [run EXCEPT ![t].writing = None, ![t].step = @ + 1,
                        ![t].ids = Append(@, run[t].writing.id)]
  /\ lastPut' = [lastPut EXCEPT ![t] = run[t].writing.id]
  /\ UNCHANGED <<files, finished, rollback, active, rolled, bounds>>

Ended(t) ==
  /\ run' = [run EXCEPT ![t] = None]
  /\ finished' = IF run[t].ids = <<>> THEN finished
                 ELSE finished \cup {[thread |-> t, ids |-> run[t].ids]}

FinishRun(t) ==
  /\ run[t] # None
  /\ run[t].writing = None
  /\ Ended(t)
  /\ UNCHANGED <<files, latest, heads, rollback, active, lastPut, rolled, bounds>>

\* The put errors, reading its thread or writing either file, and the run with it;
\* the head it read by then is cached.
PutFails(t) ==
  /\ run[t] # None
  /\ \/ PutRefused(t) /\ run[t].writing = None /\ UNCHANGED <<faults, heads>>
     \/ Fault /\ UNCHANGED heads
     \/ /\ ~PutRefused(t)
        /\ run[t].writing = None
        /\ Fault
        /\ heads' = [heads EXCEPT ![t] = HeadOf(t)]
  /\ Ended(t)
  /\ UNCHANGED <<files, latest, rollback, active, lastPut, rolled,
                 minted, started, rollbacks>>

Promote ==
  /\ active = Floor
  /\ active' = Promoted
  /\ UNCHANGED <<files, latest, heads, run, finished, rollback, lastPut, rolled, bounds>>

\* The process dies: caches, runs and the request being served are gone.
Crash ==
  /\ Fault
  /\ heads' = [t \in Threads |-> None]
  /\ run' = [t \in Threads |-> None]
  /\ finished' = finished \cup
       {[thread |-> t, ids |-> run[t].ids] : t \in {u \in Threads : run[u] # None /\ run[u].ids # <<>>}}
  /\ rollback' = None
  /\ UNCHANGED <<files, latest, active, lastPut, rolled, minted, started, rollbacks>>

-----------------------------------------------------------------------------
(* Fork and rollback.                                                      *)

\* A forked checkpoint is a full snapshot of what it materializes to.
Copy(t, i) ==
  [files[t][i] EXCEPT !.base = None, !.state = Folded(t)[i], !.full = Folded(t)[i]]

\* fork_thread into a new thread: the listing up to `at`, oldest first; a failed
\* write leaves the first n of them.
Fork(src, dst, at, n) ==
  /\ Stored(dst) = {}
  /\ run[dst] = None
  /\ at \in 1..Len(Listed(src))
  /\ n \in 1..at
  /\ n < at => faults < MaxFaults
  /\ faults' = IF n < at THEN faults + 1 ELSE faults
  /\ LET ids == SubSeq(Listed(src), 1, n)
         tip == ids[n]
     IN /\ files' = [files EXCEPT ![dst] = [i \in ToSet(ids) |-> Copy(src, i)]]
        /\ latest' = [latest EXCEPT ![dst] = tip]
        /\ heads' = [heads EXCEPT ![dst] =
                       [id |-> tip, state |-> Folded(src)[tip], links |-> 0]]
        /\ lastPut' = [lastPut EXCEPT ![dst] = tip]
  /\ UNCHANGED <<run, finished, rollback, active, rolled, minted, started, rollbacks>>

\* delete_run_checkpoints looks once: the thread is idle and the run's checkpoints
\* are the tail of the listing.
RollbackBegin(r) ==
  /\ rollback = None
  /\ rollbacks < MaxRollbacks
  /\ rollbacks' = rollbacks + 1
  /\ run[r.thread] = None
  /\ IsSuffix(r.ids, Listed(r.thread))
  /\ rollback' = r
  /\ rolled' = rolled \cup {r.thread}
  /\ lastPut' = [lastPut EXCEPT ![r.thread] = None]
  /\ UNCHANGED <<files, latest, heads, run, finished, active, minted, started, faults>>

RollbackDelete ==
  /\ rollback # None
  /\ rollback.ids # <<>>
  /\ LET t == rollback.thread
         gone == rollback.ids[1]
     IN files' = [files EXCEPT ![t] = [i \in DOMAIN @ \ {gone} |-> @[i]]]
  /\ rollback' = [rollback EXCEPT !.ids = Tail(@)]
  /\ UNCHANGED <<latest, heads, run, finished, active, lastPut, rolled, bounds>>

\* The pointer moves to the last of the listing; the cached head stays.
RollbackAnchor ==
  /\ rollback # None
  /\ rollback.ids = <<>>
  /\ LET t == rollback.thread
     IN latest' = [latest EXCEPT ![t] =
                     IF Listed(t) = <<>> THEN None ELSE Last(Listed(t))]
  /\ rollback' = None
  /\ UNCHANGED <<files, heads, run, finished, active, lastPut, rolled, bounds>>

-----------------------------------------------------------------------------
Init ==
  /\ files = [t \in Threads |-> << >>]
  /\ latest = [t \in Threads |-> None]
  /\ heads = [t \in Threads |-> None]
  /\ run = [t \in Threads |-> None]
  /\ finished = {}
  /\ rollback = None
  /\ active = Floor
  /\ lastPut = [t \in Threads |-> None]
  /\ rolled = {}
  /\ minted = 0
  /\ started = 0
  /\ faults = 0
  /\ rollbacks = 0

Next ==
  \/ \E t \in Threads :
       \/ StartRun(t)
       \/ \E i \in Ids : ResumeRun(t, i)
       \/ \E c \in Channels, pays \in BOOLEAN : PutFile(t, c, pays)
       \/ PutPointer(t)
       \/ FinishRun(t)
       \/ PutFails(t)
  \/ Promote
  \/ Crash
  \/ \E src, dst \in Threads : \E at, n \in Ids : Fork(src, dst, at, n)
  \/ \E r \in finished : RollbackBegin(r)
  \/ RollbackDelete
  \/ RollbackAnchor

Spec == Init /\ [][Next]_vars

-----------------------------------------------------------------------------
(* Properties.                                                             *)

FilesTypeOK ==
  \A t \in Threads :
    /\ Stored(t) \subseteq 1..minted
    /\ \A i \in Stored(t) :
         /\ DOMAIN files[t][i].state \subseteq Channels
         /\ files[t][i].base \in Ids \cup {None}
         /\ files[t][i].base # None => files[t][i].base < i
    /\ latest[t] \in Ids \cup {None}
    /\ run[t] # None /\ run[t].writing # None => run[t].writing.links \in 0..MaxChain

\* Every chain is no longer than the policy allows, whoever wrote its links and
\* whether the head came from the cache, from the disk after a restart, or from a
\* put that was interrupted: "resume folds stay bounded by construction".
ChainBounded ==
  FilesTypeOK /\ \A t \in Threads : \A i \in Stored(t) : Links(t)[i] <= MaxChain

\* No link of the chain under a checkpoint was put over a head with channels the
\* link lacks.
Unshrunk(dir) ==
  LET K[i \in Ids] ==
        IF i \notin DOMAIN dir THEN FALSE
        ELSE IF dir[i].base = None THEN TRUE
        ELSE /\ K[dir[i].base]
             /\ DOMAIN dir[dir[i].base].full \subseteq DOMAIN dir[i].full
  IN K

NeverShrank(t) == Unshrunk(files[t])

\* A read folds back what was put: a readable checkpoint has every channel with the
\* value it was put with, and nothing besides unless a link of its chain was put
\* after time travel to a state with fewer channels (encode_delta, fold_delta).
ReadBack ==
  \A t \in Threads : \A i \in Stored(t) :
    LET put == files[t][i].full
        got == Folded(t)[i]
    IN got # None =>
         /\ DOMAIN put \subseteq DOMAIN got
         /\ \A c \in DOMAIN put : got[c] = put[c]
         /\ NeverShrank(t)[i] => got = put

\* On a thread no rollback touched, every checkpoint stays readable and get_latest
\* answers the last put that completed: a crash or failure between the two file
\* writes, a fork cut short and a rollback of the thread it was forked from included.
LatestDurable ==
  \A t \in Threads \ rolled :
    /\ \A i \in Stored(t) : Readable(t, i)
    /\ lastPut[t] # None => LatestId(t) = lastPut[t]

\* All checkpoints one run put on a thread carry one policy version, though the
\* decorator decides it put by put and a promotion may fall between any two: "a
\* mid-run promotion never changes behavior under an execution already bound".
PinStable ==
  \A t \in Threads \ rolled :
    run[t] # None =>
      \A j, k \in DOMAIN run[t].ids :
        files[t][run[t].ids[j]].pin = files[t][run[t].ids[k]].pin

\* "Channels are never deleted from a state, so overlaying the delta onto the
\* materialized base restores the full state": a readable checkpoint is exactly what
\* was put.
OverlayRestores ==
  \A t \in Threads : \A i \in Stored(t) :
    Readable(t, i) => Folded(t)[i] = files[t][i].full

\* "the last successfully stored checkpoint wins": get_latest answers the last put
\* that completed, exactly as it was put.
LastPutWins ==
  \A t \in Threads :
    lastPut[t] # None /\ rollback = None =>
      /\ LatestId(t) = lastPut[t]
      /\ Readable(t, lastPut[t])
      /\ Folded(t)[lastPut[t]] = files[t][lastPut[t]].full

=============================================================================
