----------------------------- MODULE AgentMailbox -----------------------------
(***************************************************************************)
(* Agents of rusty-server: activation leases with fencing ordinals and the *)
(* turn-serialized mailbox claim, on top of the task queue.  A mailbox     *)
(* message is a task with a recipient; a turn is its attempt, and settles  *)
(* through the queue's own heartbeat, complete and fail.                   *)
(*                                                                         *)
(* Hosts are the queue's workers.  A request may be late or a duplicate,   *)
(* so a host may send any activation it was ever granted; which grant a    *)
(* request belongs to is the model's knowledge, the server only sees the   *)
(* owner and the ordinal.  Leases-then-tasks is the lock order and both    *)
(* are held for a whole claim, so each operation is one step.              *)
(***************************************************************************)
EXTENDS TaskQueue, Sequences

CONSTANTS
    Agents,          \* registered agents
    MailboxOf,       \* per agent: its mailbox address
    MaxGrants        \* bound on the activations granted per agent

ASSUME MailboxAssumption ==
    /\ MailboxOf \in [Agents -> Recipients]
    /\ \A a, b \in Agents : MailboxOf[a] = MailboxOf[b] => a = b
    /\ MaxGrants \in Nat
    /\ None \notin Recipients
    /\ None \notin [owner : Workers, fencing : Nat \ {0}, expires_in : Nat]

VARIABLES
    activation,      \* the lease index: per agent a lease, or None
    lease_file,      \* the lease files a restart would load
    granted,         \* history: per agent the [owner, fencing] pairs granted
    released         \* history: how many had been granted at the last release

mailbox_vars == <<activation, lease_file, granted, released>>
agent_vars   == <<vars, mailbox_vars>>

Grant == [owner : Workers, fencing : Nat \ {0}]
ActivationLease == [owner : Workers, fencing : Nat \ {0}, expires_in : Nat]

AgentTypeOK ==
    /\ TypeOK
    /\ activation \in [Agents -> ActivationLease \cup {None}]
    /\ lease_file \in [Agents -> ActivationLease \cup {None}]
    /\ granted \in [Agents -> Seq(Grant)]
    /\ released \in [Agents -> 0 .. MaxGrants]
    /\ \A a \in Agents :
          /\ Len(granted[a]) <= MaxGrants
          /\ activation[a] # None =>
                /\ lease_file[a] = activation[a]
                /\ granted[a] # << >>
                /\ granted[a][Len(granted[a])]
                      = [owner |-> activation[a].owner, fencing |-> activation[a].fencing]

AgentInit ==
    /\ Init
    /\ activation = [a \in Agents |-> None]
    /\ lease_file = [a \in Agents |-> None]
    /\ granted = [a \in Agents |-> << >>]
    /\ released = [a \in Agents |-> 0]

-----------------------------------------------------------------------------
(***************************************************************************)
(* Activation leases                                                       *)
(***************************************************************************)

held_by(lease, grant) ==
    /\ lease.owner = grant.owner
    /\ lease.fencing = grant.fencing
    /\ lease.expires_in > 0

\* persist_lease, then the index.
StoreLease(a, lease) ==
    /\ activation' = [activation EXCEPT ![a] = lease]
    /\ lease_file' = [lease_file EXCEPT ![a] = lease]

\* Fault: a steal keeps the ordinal of the lease it replaces.
next_fencing_Kept(a) == IF activation[a] = None THEN 1 ELSE activation[a].fencing

next_fencing(a) == IF activation[a] = None THEN 1 ELSE activation[a].fencing + 1

\* Fault: whoever asks gets the activation.
activation_free_Always(a) == a \in Agents

\* A live lease holds against everyone, its owner included.
activation_free(a) == activation[a] # None => activation[a].expires_in = 0

ClaimActivation(h, a, lease_ms) ==
    /\ h \in up
    /\ Len(granted[a]) < MaxGrants
    /\ activation_free(a)
    /\ StoreLease(a, [owner |-> h, fencing |-> next_fencing(a), expires_in |-> lease_ms])
    /\ granted' = [granted EXCEPT ![a] = Append(@, [owner |-> h, fencing |-> next_fencing(a)])]
    /\ UNCHANGED <<vars, released>>

\* The guard of renewal, release and mailbox claim: the i-th grant's owner
\* sends, and the pair it names holds the lease now.
HoldsActivation(a, i) ==
    /\ i \in 1 .. Len(granted[a])
    /\ granted[a][i].owner \in up
    /\ activation[a] # None
    /\ held_by(activation[a], granted[a][i])

RenewActivation(a, i, lease_ms) ==
    /\ HoldsActivation(a, i)
    /\ StoreLease(a, [activation[a] EXCEPT !.expires_in = lease_ms])
    /\ UNCHANGED <<vars, granted, released>>

\* The index entry goes first; the file may survive a failed removal or a
\* crash, and then comes back with the next start.
ReleaseActivation(a, i) ==
    /\ HoldsActivation(a, i)
    /\ activation' = [activation EXCEPT ![a] = None]
    /\ \/ lease_file' = [lease_file EXCEPT ![a] = None]
       \/ UNCHANGED lease_file
    /\ released' = [released EXCEPT ![a] = Len(granted[a])]
    /\ UNCHANGED <<vars, granted>>

\* The server restarts: the indexes are loaded from the files.
Restart ==
    /\ activation # lease_file
    /\ activation' = lease_file
    /\ UNCHANGED <<vars, lease_file, granted, released>>

-----------------------------------------------------------------------------
(***************************************************************************)
(* The mailbox                                                             *)
(***************************************************************************)

Mailbox(index, a) == {id \in TaskIds : index[id] # NoTask /\ index[id].new.recipient = MailboxOf[a]}

turn_in_flight(index, a) == \E id \in Mailbox(index, a) : lease_live(index[id])

mailbox_candidates(index, a) == {id \in Mailbox(index, a) : claimable_at_now(index[id])}

\* claim_agent_task: sweep, then lease the oldest claimable message unless a
\* turn is in flight.
ClaimAgentTask(a, i, lease_ms) ==
    LET swept == finalize_due(tasks)
    IN  /\ HoldsActivation(a, i)
        /\ ~turn_in_flight(swept, a)
        /\ \E id \in mailbox_candidates(swept, a) :
              /\ \A other \in mailbox_candidates(swept, a) : id <= other
              /\ tasks' = [swept EXCEPT ![id] = claim(@, granted[a][i].owner, lease_ms)]
        /\ UNCHANGED <<up, mailbox_vars>>

\* The same claim answered empty: the sweep has still been persisted.
ClaimAgentNothing(a, i) ==
    LET swept == finalize_due(tasks)
    IN  /\ HoldsActivation(a, i)
        /\ turn_in_flight(swept, a) \/ mailbox_candidates(swept, a) = {}
        /\ tasks' = swept
        /\ UNCHANGED <<up, mailbox_vars>>

\* cancel_agent_tasks: every message to the agent that is not terminal.
CancelAgentTasks(a) ==
    LET targets == {id \in Mailbox(tasks, a) : ~is_terminal(tasks[id])}
    IN  /\ targets # {}
        /\ tasks' = [id \in TaskIds |-> IF id \in targets THEN cancel(tasks[id]) ELSE tasks[id]]
        /\ UNCHANGED <<up, mailbox_vars>>

-----------------------------------------------------------------------------
ElapseActivation(lease) ==
    IF lease = None THEN None ELSE [lease EXCEPT !.expires_in = Down(@)]

AgentTick ==
    /\ Tick
    /\ activation' = [a \in Agents |-> ElapseActivation(activation[a])]
    /\ lease_file' = [a \in Agents |-> ElapseActivation(lease_file[a])]
    /\ UNCHANGED <<granted, released>>

\* The queue's own operations, on messages and pool work alike.
QueueStep == Operation /\ UNCHANGED mailbox_vars

ActivationStep ==
    \E a \in Agents :
        \/ \E h \in Workers, lease_ms \in LeaseMs : ClaimActivation(h, a, lease_ms)
        \/ \E i \in 1 .. MaxGrants :
              \/ ReleaseActivation(a, i)
              \/ \E lease_ms \in LeaseMs : RenewActivation(a, i, lease_ms)

MailboxStep ==
    \E a \in Agents :
        \/ \E i \in 1 .. MaxGrants :
              \/ ClaimAgentNothing(a, i)
              \/ \E lease_ms \in LeaseMs : ClaimAgentTask(a, i, lease_ms)
        \/ CancelAgentTasks(a)

AgentNext == QueueStep \/ ActivationStep \/ MailboxStep \/ AgentTick \/ Restart

AgentSpec == AgentInit /\ [][AgentNext]_agent_vars

-----------------------------------------------------------------------------
(***************************************************************************)
(* Properties                                                              *)
(***************************************************************************)

\* While an activation runs nobody else gets the agent: the lease stays with its owner
\* and ordinal until it is released or has expired, a restart does not bring back one
\* that was replaced, and one that has lapsed comes back to life only as a new grant.
ActivationExclusive ==
    [][\A a \in Agents :
          (activation[a] # None /\ activation'[a] # None) =>
             /\ activation[a].expires_in > 0 =>
                   /\ activation'[a].owner = activation[a].owner
                   /\ activation'[a].fencing = activation[a].fencing
             /\ (activation[a].expires_in = 0 /\ activation'[a].expires_in > 0) =>
                   Len(granted'[a]) > Len(granted[a])]_agent_vars

\* A host whose activation was stolen is rejected from then on, though it may
\* be the same host that stole it: of the activations granted since the last
\* release only the latest holds the lease, whatever was late or repeated.
StolenGrantRejected ==
    AgentTypeOK /\ \A a \in Agents : \A i \in 1 .. Len(granted[a]) :
        HoldsActivation(a, i) => i = Len(granted[a]) \/ i <= released[a]

\* A message is attempted only as a turn: by the host whose activation of the
\* recipient is live, with no other live turn of that agent, and never through
\* a pool claim.
TurnsFenced ==
    [][\A a \in Agents : \A id \in Mailbox(tasks, a) :
          tasks'[id].attempt > tasks[id].attempt =>
             /\ activation[a] # None
             /\ activation[a].expires_in > 0
             /\ tasks'[id].lease.owner = activation[a].owner
             /\ \A other \in Mailbox(tasks', a) : lease_live(tasks'[other]) => other = id]_agent_vars

(***************************************************************************)
(* What the documentation says and the code does not do                    *)
(***************************************************************************)

\* server_store.rs: "one message at a time per agent is server-enforced, not
\* host discipline"; agents.rs: "No two concurrent turns".
OneTurn ==
    \A a \in Agents : \A id, other \in Mailbox(tasks, a) :
        lease_live(tasks[id]) /\ lease_live(tasks[other]) => id = other

\* agents.rs: the ordinal is "incremented by every successful claim, so a host
\* holding a stale ordinal [...] is rejected by the lease-guarded operations
\* even when its owner string happens to match": what a superseded activation
\* sends never holds the lease.
StaleGrantRejected ==
    \A a \in Agents : \A i \in 1 .. Len(granted[a]) :
        HoldsActivation(a, i) => i = Len(granted[a])
=============================================================================
