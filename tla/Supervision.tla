---------------------------- MODULE Supervision ----------------------------
(***************************************************************************)
(* Agent supervision of rusty-server (supervision.rs and its routes): what *)
(* follows a failed turn, a breached whole-activity deadline and an        *)
(* operator's restart, and the cancellation of an agent beside them.       *)
(*                                                                         *)
(* There is one agent.  A request that reaches supervision is a call; it   *)
(* reads the agent's record, decides, and writes the whole record back     *)
(* later, with nothing held in between.  A store call is one step and what *)
(* is computed between two awaits belongs to the step before it.  The      *)
(* mailbox is reduced to what the triggers need: one turn at a time, a     *)
(* failed turn settled before its supervision begins.  AgentMailbox has    *)
(* the rest of it.  Where a notice lands (a supervisor's mailbox or the    *)
(* dead letters) changes nothing here: one key guards both.                *)
(***************************************************************************)
EXTENDS Integers, Sequences, SequencesExt, FiniteSets

CONSTANTS
  Calls,      \* requests that reach supervision
  Messages,   \* mailbox messages
  Policies,   \* declared policies: [restart, intensity, period]
  Deadline,   \* budget.deadline, in ticks
  MaxNow,     \* bound: the clock
  MaxFaults,  \* bound: failed writes, dropped requests and crashes
  MaxOpen,    \* bound: requests served at once
  None        \* no policy, no deadline, no call

ASSUME SupervisionAssumption ==
  /\ Policies \subseteq
       [restart : {"permanent", "transient", "temporary"}, intensity : Nat, period : Nat]
         \cup {None}
  /\ Deadline \in Nat \cup {None}
  /\ MaxNow \in Nat /\ MaxFaults \in Nat /\ MaxOpen \in Nat
  /\ None \notin Calls

VARIABLES
  policy,   \* manifest.supervision, pinned at registration
  agent,    \* durable: AgentSupervision
  journal,  \* durable: the calls with an event in the supervision journal
  notices,  \* durable: the escalation tasks, with their key and evidence
  mailbox,  \* durable: the messages
  call,     \* the requests
  now,      \* the clock
  faults,   \* faults so far
  episode,  \* history: manual restarts written so far
  serial,   \* history: no request read the record while another held it
  ledger,   \* history: what each written decision was
  due,      \* history: messages outstanding when a breach was latched
  dropped   \* history: calls whose notice was taken for a repetition

vars == <<policy, agent, journal, notices, mailbox, call, now, faults,
          episode, serial, ledger, due, dropped>>
history == <<episode, serial, ledger, due, dropped>>

\* Triggers, and an entry of the ledger.
Triggers == {"turn_failed", "deadline_breached", "manual_restart"}
Entry == [decision : {"restart", "escalate", "suppressed"}, trigger : Triggers,
          at : Nat, episode : Nat]

ASSUME NoneAssumption == None \notin Entry

Pristine == [attempts |-> <<>>, escalated |-> FALSE, deadline_breached |-> FALSE,
             suppressed |-> FALSE]
Idle == [pc |-> "idle"]
Ended == [pc |-> "ended"]
At(c, pc) == call[c].pc = pc
InFlight == {c \in Calls : call[c].pc \notin {"idle", "ended"}}
Arrives(c) == At(c, "idle") /\ Cardinality(InFlight) < MaxOpen
\* The request has read the record and will write it back.
Holding(c) == call[c].pc \in {"latch", "cancel", "update"}

-----------------------------------------------------------------------------
(* The decision. *)

allows_restart_after(trigger) ==
  \/ policy.restart = "permanent"
  \/ policy.restart = "transient" /\ trigger = "turn_failed"

InWindow_Open(a, at) == a.at + policy.period > at

\* An attempt inside the sliding window; the window is closed at both ends.
InWindow(a, at) == a.at + policy.period >= at

recent_failures(attempts, at) ==
  Cardinality({i \in DOMAIN attempts :
                 attempts[i].trigger # "manual_restart" /\ InWindow(attempts[i], at)})

decide(record, trigger, at) ==
  IF trigger = "manual_restart" THEN "restart"
  ELSE IF policy = None THEN "unsupervised"
  ELSE IF record.escalated THEN "suppressed"
  ELSE IF /\ allows_restart_after(trigger)
          /\ recent_failures(record.attempts, at) < policy.intensity
       THEN "restart"
       ELSE "escalate"

Updated_Forgets(c) ==
  LET k == call[c]
      own == [by |-> c, trigger |-> k.trigger, at |-> k.at]
  IN CASE k.decision = "suppressed" -> [k.agent EXCEPT !.suppressed = TRUE]
       [] k.trigger = "manual_restart" -> [Pristine EXCEPT !.attempts = <<own>>]
       [] OTHER -> [k.agent EXCEPT !.attempts = Append(@, own),
                                   !.escalated = (k.decision = "escalate")]

\* The record a call writes: its own copy, changed as the decision says.
Updated(c) ==
  LET k == call[c]
      grown == Append(k.agent.attempts, [by |-> c, trigger |-> k.trigger, at |-> k.at])
  IN CASE k.decision = "suppressed" -> [k.agent EXCEPT !.suppressed = TRUE]
       [] k.trigger = "manual_restart" ->
            [attempts |-> grown, escalated |-> FALSE, deadline_breached |-> FALSE,
             suppressed |-> FALSE]
       [] k.decision = "escalate" -> [k.agent EXCEPT !.attempts = grown, !.escalated = TRUE]
       [] OTHER -> [k.agent EXCEPT !.attempts = grown]

\* A call that has read the record and decided.
Held(trigger, pc) ==
  [pc |-> pc, trigger |-> trigger, agent |-> agent, at |-> now,
   decision |-> decide(agent, trigger, now)]

Noted == serial' = (serial /\ \A d \in Calls : ~Holding(d))

-----------------------------------------------------------------------------
(* The mailbox. *)

SendMessage(m) ==
  /\ mailbox[m].status = "none"
  /\ mailbox' = [mailbox EXCEPT ![m].status = "queued"]
  /\ UNCHANGED <<policy, agent, journal, notices, call, now, faults, history>>

Breaching == ~agent.deadline_breached /\ Deadline # None /\ Deadline <= now

\* The claim's sweep of cancelled messages.
Finalized ==
  [m \in Messages |->
     IF mailbox[m].status = "queued" /\ mailbox[m].signalled
     THEN [mailbox[m] EXCEPT !.status = "over"] ELSE mailbox[m]]

\* claim_agent_message without a breach: after the sweep one of the waiting messages
\* (the oldest) is handed out, unless there is none or a turn is in flight.
ClaimTurn ==
  /\ ~Breaching
  /\ LET waiting == {m \in Messages : Finalized[m].status = "queued"}
     IN mailbox' \in
          IF waiting = {} \/ \E m \in Messages : mailbox[m].status = "leased"
          THEN {Finalized}
          ELSE {[Finalized EXCEPT ![m].status = "leased"] : m \in waiting}
  /\ UNCHANGED <<policy, agent, journal, notices, call, now, faults, history>>

\* The turn completes, or is reported cancelled, which supervision ignores.
SettleTurn(m) ==
  /\ mailbox[m].status = "leased"
  /\ mailbox' = [mailbox EXCEPT ![m].status = "over"]
  /\ UNCHANGED <<policy, agent, journal, notices, call, now, faults, history>>

Cancelled_WaitingOnly ==
  [m \in Messages |->
     IF mailbox[m].status = "queued" THEN [mailbox[m] EXCEPT !.status = "over"] ELSE mailbox[m]]

\* cancel_agent_tasks: waiting messages end, a leased turn is told.
Cancelled ==
  [m \in Messages |->
     CASE mailbox[m].status = "queued" -> [mailbox[m] EXCEPT !.status = "over"]
       [] mailbox[m].status = "leased" -> [mailbox[m] EXCEPT !.signalled = TRUE]
       [] OTHER -> mailbox[m]]

-----------------------------------------------------------------------------
(* The requests. *)

\* fail_task up to the settlement: the failed turn is retried or over, and another
\* turn may be claimed before its supervision has begun.
FailTurn(c, m) ==
  /\ Arrives(c)
  /\ mailbox[m].status = "leased"
  /\ \E status \in {"queued", "over"} : mailbox' = [mailbox EXCEPT ![m].status = status]
  /\ call' = [call EXCEPT ![c] = [pc |-> "get_agent"]]
  /\ UNCHANGED <<policy, agent, journal, notices, now, faults, history>>

\* The rest of fail_task reads the record and decides.
SuperviseTurn(c) ==
  /\ At(c, "get_agent")
  /\ call' = [call EXCEPT ![c] =
       IF decide(agent, "turn_failed", now) = "unsupervised" THEN Ended
       ELSE Held("turn_failed", "update")]
  /\ Noted
  /\ UNCHANGED <<policy, agent, journal, notices, mailbox, now, faults,
                 episode, ledger, due, dropped>>

restart_agent(c) ==
  /\ Arrives(c)
  /\ call' = [call EXCEPT ![c] = Held("manual_restart", "update")]
  /\ Noted
  /\ UNCHANGED <<policy, agent, journal, notices, mailbox, now, faults,
                 episode, ledger, due, dropped>>

\* claim_agent_message past the deadline, before it looks at the activation: any
\* host's claim will do.
BreachSeen(c) ==
  /\ Arrives(c)
  /\ Breaching
  /\ call' = [call EXCEPT ![c] = Held("deadline_breached", "latch")]
  /\ Noted
  /\ UNCHANGED <<policy, agent, journal, notices, mailbox, now, faults,
                 episode, ledger, due, dropped>>

\* on_deadline_breach: latch, cancel, and only then supervise.
BreachLatch(c) ==
  /\ At(c, "latch")
  /\ LET latched == [call[c].agent EXCEPT !.deadline_breached = TRUE]
     IN /\ agent' = latched
        /\ call' = [call EXCEPT ![c].pc = "cancel", ![c].agent = latched]
  /\ due' = due \cup {m \in Messages : mailbox[m].status \in {"queued", "leased"}}
  /\ UNCHANGED <<policy, journal, notices, mailbox, now, faults, episode, serial,
                 ledger, dropped>>

BreachCancel(c) ==
  /\ At(c, "cancel")
  /\ mailbox' = Cancelled
  /\ call' = [call EXCEPT ![c] =
       IF @.decision = "unsupervised" THEN Ended ELSE [@ EXCEPT !.pc = "update"]]
  /\ UNCHANGED <<policy, agent, journal, notices, now, faults, history>>

\* supervise: the record is written first, whoever wrote it meanwhile.
UpdateAgent(c) ==
  /\ At(c, "update")
  /\ agent' = Updated(c)
  /\ call' = [call EXCEPT ![c] =
       IF @.decision = "suppressed" THEN Ended
       ELSE [pc |-> "get_journal", decision |-> @.decision,
        evidence |-> IF @.decision = "escalate" THEN Updated(c).attempts ELSE <<>>]]
  /\ episode' = IF call[c].trigger = "manual_restart" THEN episode + 1 ELSE episode
  /\ ledger' = [ledger EXCEPT ![c] =
       [decision |-> call[c].decision, trigger |-> call[c].trigger, at |-> call[c].at,
        episode |-> episode]]
  /\ UNCHANGED <<policy, journal, notices, mailbox, now, faults, serial, due, dropped>>

\* cancel_agent: the mailbox, and an AgentExit in the journal if anything was touched.
\* Its cancellation of the thread's runs is RunManager's.
cancel_agent(c) ==
  /\ Arrives(c)
  /\ mailbox' = Cancelled
  /\ \E touched \in BOOLEAN :
       /\ Cancelled # mailbox => touched
       /\ call' = [call EXCEPT ![c] =
            IF touched THEN [pc |-> "get_journal", decision |-> "exit", evidence |-> <<>>]
            ELSE Ended]
  /\ UNCHANGED <<policy, agent, journal, notices, now, faults, history>>

\* journal_event: the journal is read, and written back with one event more.
JournalRead(c) ==
  /\ At(c, "get_journal")
  /\ call' = [call EXCEPT ![c] =
       [pc |-> "put_journal", decision |-> @.decision, evidence |-> @.evidence,
        journal |-> journal]]
  /\ UNCHANGED <<policy, agent, journal, notices, mailbox, now, faults, history>>

JournalWrite(c) ==
  /\ At(c, "put_journal")
  /\ journal' = call[c].journal \cup {c}
  /\ call' = [call EXCEPT ![c] =
       IF @.decision = "escalate" THEN [pc |-> "deliver", evidence |-> @.evidence] ELSE Ended]
  /\ UNCHANGED <<policy, agent, notices, mailbox, now, faults, history>>

\* The key names the ordinal of the attempt that escalated: its place in the evidence.
NoticeKey(evidence) == Len(evidence)

deliver_escalation(c) ==
  /\ At(c, "deliver")
  /\ LET key == NoticeKey(call[c].evidence)
         repeated == \E n \in notices : n.key = key
     IN /\ notices' = IF repeated THEN notices
                      ELSE notices \cup {[key |-> key, by |-> c, evidence |-> call[c].evidence]}
        /\ dropped' = IF repeated THEN dropped \cup {c} ELSE dropped
  /\ call' = [call EXCEPT ![c] = Ended]
  /\ UNCHANGED <<policy, agent, journal, mailbox, now, faults, episode, serial, ledger, due>>

-----------------------------------------------------------------------------
(* Faults and time. *)

\* A failed store call or a closed connection ends one request where it is.
CallDies(c) ==
  /\ faults < MaxFaults
  /\ c \in InFlight
  /\ call' = [call EXCEPT ![c] = Ended]
  /\ faults' = faults + 1
  /\ UNCHANGED <<policy, agent, journal, notices, mailbox, now, history>>

\* A crash ends all of them; every store call was durable when it answered.
Crash ==
  /\ faults < MaxFaults
  /\ InFlight # {}
  /\ call' = [c \in Calls |-> IF c \in InFlight THEN Ended ELSE call[c]]
  /\ faults' = faults + 1
  /\ UNCHANGED <<policy, agent, journal, notices, mailbox, now, history>>

Tick ==
  /\ now < MaxNow
  /\ now' = now + 1
  /\ UNCHANGED <<policy, agent, journal, notices, mailbox, call, faults, history>>

Init ==
  /\ policy \in Policies
  /\ agent = Pristine
  /\ journal = {} /\ notices = {}
  /\ mailbox = [m \in Messages |-> [status |-> "none", signalled |-> FALSE]]
  /\ call = [c \in Calls |-> Idle]
  /\ now = 0 /\ faults = 0
  /\ episode = 0 /\ serial = TRUE /\ due = {} /\ dropped = {}
  /\ ledger = [c \in Calls |-> None]

Next ==
  \/ \E m \in Messages : SendMessage(m) \/ SettleTurn(m)
  \/ ClaimTurn
  \/ \E c \in Calls :
       \/ \E m \in Messages : FailTurn(c, m)
       \/ SuperviseTurn(c) \/ restart_agent(c) \/ cancel_agent(c)
       \/ BreachSeen(c) \/ BreachLatch(c) \/ BreachCancel(c)
       \/ UpdateAgent(c) \/ JournalRead(c) \/ JournalWrite(c) \/ deliver_escalation(c)
       \/ CallDies(c)
  \/ Crash
  \/ Tick

Spec == Init /\ [][Next]_vars

-----------------------------------------------------------------------------
(* Properties. *)

Attempt == [by : Calls, trigger : Triggers, at : 0..MaxNow]

SupervisionTypeOK ==
  /\ policy \in Policies
  /\ agent.attempts \in Seq(Attempt)
  /\ {agent.escalated, agent.deadline_breached, agent.suppressed} \subseteq BOOLEAN
  /\ journal \subseteq Calls
  /\ mailbox \in [Messages -> [status : {"none", "queued", "leased", "over"},
                             signalled : BOOLEAN]]
  /\ \A n \in notices : n.evidence \in Seq(Attempt) /\ n.key = Len(n.evidence)

Decided(c, decision) == ledger[c] # None /\ ledger[c].decision = decision
Same(c, d) == c # d /\ ledger[c].episode = ledger[d].episode

\* "the latches make the escalation and breach handling exactly-once": as long as no
\* request reads the record while another is about to write it, an episode (from one
\* manual restart to the next) has at most one escalation and one handled breach, no
\* escalation is taken for the repetition of another, and the history holds every
\* restart and escalation that was decided, through crashes, failed writes and late
\* deliveries (supervise, on_deadline_breach, deliver_escalation).
OncePerEpisode ==
  /\ SupervisionTypeOK
  /\ serial =>
       /\ \A c, d \in Calls :
            Decided(c, "escalate") /\ Decided(d, "escalate") => ~Same(c, d)
       /\ \A c, d \in Calls :
            /\ ledger[c] # None /\ ledger[d] # None
            /\ {ledger[c].trigger, ledger[d].trigger} = {"deadline_breached"}
            => ~Same(c, d)
       /\ dropped = {}
       /\ {agent.attempts[i].by : i \in DOMAIN agent.attempts} =
            {c \in Calls : Decided(c, "restart") \/ Decided(c, "escalate")}

\* Failures and breaches in the period that ends at instant at.
Failures(s, at) ==
  {i \in DOMAIN s : s[i].trigger # "manual_restart" /\ s[i].at \in (at - policy.period)..at}

\* "The maximum restarts tolerated within period_ms": the policy never restarts more
\* often in a period (unless requests overlap), operator's restarts and the edges of
\* the period included, and never gives up earlier: the evidence of every notice,
\* overlapping requests or not, shows a failure beyond the intensity or of a kind
\* the policy does not restart (decide, SupervisionPolicy).
BudgetExact ==
  policy # None =>
    /\ serial =>
         \A c \in Calls : Decided(c, "restart") =>
           Cardinality({d \in Calls :
             /\ Decided(d, "restart") /\ ledger[d].trigger # "manual_restart"
             /\ ledger[d].at \in (ledger[c].at - policy.period)..ledger[c].at})
           <= policy.intensity
    /\ \A n \in notices :
         LET last == Last(n.evidence)
         IN \/ Cardinality(Failures(n.evidence, last.at)) > policy.intensity
            \/ policy.restart = "temporary"
            \/ policy.restart = "transient" /\ last.trigger = "deadline_breached"

Landed(m) == mailbox[m].status = "over" \/ mailbox[m].signalled

\* Without faults, whatever overlaps: once no claim is between the latch and the
\* cancellation, every message outstanding at a latched breach is over or told
\* (on_deadline_breach, cancel_agent_tasks).
BreachLands ==
  faults = 0 /\ (\A c \in Calls : ~At(c, "cancel")) => \A m \in due : Landed(m)

\* "the latches make escalation and deadline-breach handling exactly-once per
\* supervision episode", whatever overlaps.
EscalatedOnce ==
  \A x, y \in notices : ~Same(x.by, y.by)

\* A lost escalation is "retry-safe on the next trigger": once a failure was seen
\* after the escalation and nothing is in flight, the notice is there.
NoticeRetried ==
  InFlight = {} /\ agent.escalated /\ agent.suppressed =>
    \E n \in notices : n.key = Len(agent.attempts)

\* "no restart happens without a journaled decision": with no fault and nothing in
\* flight, every decision written is in the journal.
DecisionsJournaled ==
  InFlight = {} /\ faults = 0 =>
    \A c \in Calls : Decided(c, "restart") \/ Decided(c, "escalate") => c \in journal

\* deadline_breached is "latched when the agent-level deadline breach was first handled
\* (outstanding mailbox traffic cancelled [...])".
BreachHandled ==
  InFlight = {} /\ agent.deadline_breached => \A m \in due : Landed(m)

=============================================================================
