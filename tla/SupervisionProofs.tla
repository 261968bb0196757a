------------------------- MODULE SupervisionProofs -------------------------
(***************************************************************************)
(* Theorems about Supervision.                                             *)
(*                                                                         *)
(* A cancelled breach needs only the mailbox (Outstanding).  The rest has  *)
(* two layers.  Whatever overlaps, a call that holds the record holds a    *)
(* typed copy and a decision made from it, and the evidence on its way to  *)
(* a notice justifies the notice (Fine, Noticed).  While no two requests   *)
(* hold the record at once, the copy is the record, the record remembers   *)
(* every decision of the ledger in the order they were made, and its       *)
(* latches stand for those of the current episode (Alone).                 *)
(***************************************************************************)
EXTENDS Supervision, TLAPS, FiniteSetTheorems, FunctionTheorems, SequenceTheorems

-----------------------------------------------------------------------------
(* The invariant. *)

AgentRecord ==
  [attempts : Seq(Attempt), escalated : BOOLEAN, deadline_breached : BOOLEAN,
   suppressed : BOOLEAN]

HeldCall ==
  [pc : {"latch", "cancel", "update"}, trigger : Triggers, agent : AgentRecord,
   at : 0..MaxNow, decision : {"restart", "escalate", "suppressed", "unsupervised"}]

Stages == {"idle", "get_agent", "latch", "cancel", "update",
           "get_journal", "put_journal", "deliver", "ended"}

Message == [status : {"none", "queued", "leased", "over"}, signalled : BOOLEAN]

Typed ==
  /\ policy \in Policies
  /\ agent \in AgentRecord
  /\ journal \subseteq Calls
  /\ mailbox \in [Messages -> Message]
  /\ DOMAIN call = Calls /\ call = [c \in Calls |-> call[c]]
  /\ now \in 0..MaxNow
  /\ faults \in Nat
  /\ episode \in Nat
  /\ serial \in BOOLEAN
  /\ ledger \in [Calls -> Entry \cup {None}]
  /\ dropped \subseteq Calls

\* A breach latched without faults is being cancelled, or was.
Outstanding ==
  /\ due \subseteq {m \in Messages : mailbox[m].status # "none"}
  /\ faults = 0 => (\E c \in Calls : At(c, "cancel")) \/ \A m \in due : Landed(m)

Past(attempts, at) == \A i \in DOMAIN attempts : attempts[i].at <= at

\* The call carries evidence to a notice.
Escalating(c) ==
  \/ At(c, "deliver")
  \/ call[c].pc \in {"get_journal", "put_journal"} /\ call[c].decision = "escalate"

\* The evidence ends with the failure that spent the budget.
Justified(e) ==
  LET last == e[Len(e)]
  IN \/ Cardinality(Failures(e, last.at)) > policy.intensity
     \/ policy.restart = "temporary"
     \/ policy.restart = "transient" /\ last.trigger = "deadline_breached"

Evident(c, e) ==
  e \in Seq(Attempt) /\ e # <<>> /\ e[Len(e)].by = c /\ Justified(e)

\* The copy a call holds, and the decision made from it.
Sighted(c) ==
  /\ call[c] \in HeldCall
  /\ call[c].at <= now
  /\ Past(call[c].agent.attempts, call[c].at)
  /\ call[c].decision = decide(call[c].agent, call[c].trigger, call[c].at)
  /\ At(c, "update") => call[c].decision # "unsupervised"
  /\ At(c, "update") \/ call[c].trigger = "deadline_breached"
  /\ call[c].trigger = "deadline_breached" =>
       (call[c].agent.deadline_breached <=> ~At(c, "latch"))

\* What holds of a call, whatever overlaps.
Fine(c) ==
  /\ call[c].pc \in Stages
  /\ Holding(c) => Sighted(c)
  /\ At(c, "put_journal") => call[c].journal \subseteq Calls
  /\ Escalating(c) => Evident(c, call[c].evidence)
  /\ ledger[c] # None =>
       /\ call[c].pc \in {"get_journal", "put_journal", "deliver", "ended"}
       /\ ledger[c].episode <= episode

Noticed(n) ==
  n.by \in Calls /\ At(n.by, "ended") /\ n.key = Len(n.evidence) /\ Evident(n.by, n.evidence)

Overlapping ==
  /\ Past(agent.attempts, now)
  /\ \A c \in Calls : Fine(c)
  /\ \A n \in notices : Noticed(n)

Recorded(c) == Decided(c, "restart") \/ Decided(c, "escalate")

\* The breach of the current episode is in the ledger.
BreachBy(c) ==
  ledger[c] # None /\ ledger[c].trigger = "deadline_breached" /\ ledger[c].episode = episode

\* The evidence is in the record, where the key says.
Placed(c, e) == Len(e) <= Len(agent.attempts) /\ agent.attempts[Len(e)].by = c

\* The restarts of the policy in the period that ends at x.
RestartsIn(x) ==
  {d \in Calls : /\ Decided(d, "restart") /\ ledger[d].trigger # "manual_restart"
                 /\ ledger[d].at \in (x - policy.period)..x}

\* One holder, with the record itself.
Sole ==
  \A c \in Calls : Holding(c) => /\ call[c].agent = agent
                                 /\ \A d \in Calls : Holding(d) => c = d

\* The latches stand for the current episode.
Latches ==
  /\ \A c \in Calls : Decided(c, "escalate") /\ ledger[c].episode = episode => agent.escalated
  /\ \A c \in Calls : BreachBy(c) =>
       /\ agent.deadline_breached
       /\ \A d \in Calls : Holding(d) => call[d].trigger # "deadline_breached"

\* One escalation and one breach per episode.
Unique ==
  /\ \A c, d \in Calls : Decided(c, "escalate") /\ Decided(d, "escalate") => ~Same(c, d)
  /\ \A c, d \in Calls :
       /\ ledger[c] # None /\ ledger[d] # None
       /\ ledger[c].trigger = "deadline_breached" /\ ledger[d].trigger = "deadline_breached"
       => ~Same(c, d)

\* The record remembers every decision.
RemembersRightly(i) ==
  LET a == agent.attempts[i]
  IN Recorded(a.by) /\ ledger[a.by].trigger = a.trigger /\ ledger[a.by].at = a.at

Remembered ==
  /\ \A i \in DOMAIN agent.attempts : RemembersRightly(i)
  /\ \A c \in Calls : Recorded(c) => \E i \in DOMAIN agent.attempts : agent.attempts[i].by = c

\* No evidence is taken for another.
Delivered ==
  /\ dropped = {}
  /\ \A c \in Calls : Escalating(c) => Placed(c, call[c].evidence)
  /\ \A n \in notices : Placed(n.by, n.evidence)

\* No period has more restarts than the policy tolerates.
Tolerated ==
  policy # None =>
    \A x \in 0..MaxNow : IsFiniteSet(RestartsIn(x)) /\ Cardinality(RestartsIn(x)) <= policy.intensity

Alone == Sole /\ Latches /\ Unique /\ Remembered /\ Delivered /\ Tolerated

IInv == Typed /\ Outstanding /\ Overlapping /\ (serial => Alone)

-----------------------------------------------------------------------------
(* What one step leaves of the others. *)

LEMMA AttemptTyped ==
  ASSUME NEW s \in Seq(Attempt)
  PROVE  \A i \in DOMAIN s : s[i].by \in Calls /\ s[i].trigger \in Triggers /\ s[i].at \in 0..MaxNow
<1>1. \A i \in DOMAIN s : s[i] \in Attempt
  OBVIOUS
<1> QED BY <1>1 DEF Attempt

LEMMA InitHolds == Init => IInv
<1> SUFFICES ASSUME Init PROVE IInv
  OBVIOUS
<1>1. agent = Pristine /\ Pristine \in AgentRecord /\ Pristine.attempts = <<>>
  BY DEF Init, Pristine, AgentRecord
<1>2. \A c \in Calls : call[c].pc = "idle" /\ ledger[c] = None
  BY DEF Init, Idle
<1>3. Typed
  <2>1. serial \in BOOLEAN /\ episode \in Nat /\ faults \in Nat /\ now \in 0..MaxNow
    BY SupervisionAssumption DEF Init
  <2>2. call = [c \in Calls |-> call[c]] /\ DOMAIN call = Calls
    BY DEF Init
  <2>3. mailbox \in [Messages -> Message]
    BY DEF Init, Message
  <2>4. ledger \in [Calls -> Entry \cup {None}]
    BY DEF Init
  <2> QED BY <1>1, <2>1, <2>2, <2>3, <2>4 DEF Init, Typed
<1>4. Outstanding
  BY DEF Init, Outstanding
<1>5. Overlapping
  BY <1>1, <1>2 DEF Init, Overlapping, Past, Fine, Stages, Holding, Escalating, At
<1>6. Alone
  <2>1. \A x \in 0..MaxNow : RestartsIn(x) = {}
    BY <1>2 DEF RestartsIn, Decided
  <2>2. Tolerated
    BY <2>1, FS_EmptySet, SupervisionAssumption DEF Tolerated, Init
  <2>3. Sole /\ Latches /\ Unique /\ Remembered /\ Delivered
    BY <1>1, <1>2 DEF Init, Sole, Latches, Unique, Remembered, RemembersRightly, Delivered, Holding, Decided,
       Recorded, BreachBy, Escalating, At
  <2> QED BY <2>2, <2>3 DEF Alone
<1> QED BY <1>3, <1>4, <1>5, <1>6 DEF IInv

\* What is evident of a call, or of a notice, stays evident.
LEMMA EvidentKept ==
  ASSUME policy' = policy, NEW c, NEW e, Evident(c, e)
  PROVE  Evident(c, e)'
BY DEF Evident, Justified, Failures

\* A call that a step leaves alone is as fine as before.
LEMMA FineKept ==
  ASSUME Typed, NEW c \in Calls, Fine(c), call'[c] = call[c], ledger'[c] = ledger[c],
         policy' = policy, now' \in Nat, now <= now', episode' \in Nat, episode <= episode'
  PROVE  Fine(c)'
<1>1. /\ Holding(c)' <=> Holding(c)
      /\ Escalating(c)' <=> Escalating(c)
      /\ \A pc : At(c, pc)' <=> At(c, pc)
  BY DEF Holding, Escalating, At
<1>2. Holding(c) => Sighted(c)'
  <2> SUFFICES ASSUME Sighted(c) PROVE Sighted(c)'
    BY DEF Fine
  <2>1. call[c].at \in Nat /\ now \in Nat
    BY SupervisionAssumption DEF Sighted, HeldCall, Typed
  <2>2. decide(call[c].agent, call[c].trigger, call[c].at)'
          = decide(call[c].agent, call[c].trigger, call[c].at)
    BY DEF decide, allows_restart_after, recent_failures, InWindow
  <2> QED BY <1>1, <2>1, <2>2 DEF Sighted, Past
<1>3. Escalating(c) => Evident(c, call[c].evidence)'
  BY EvidentKept DEF Fine, Evident, Justified, Failures
<1>4. ledger[c] # None => ledger[c].episode \in Nat
  BY DEF Typed, Entry
<1> QED BY <1>1, <1>2, <1>3, <1>4 DEF Fine, Typed

\* A step of a call that neither holds the record nor comes to hold it.
Quiet(c) ==
  \/ call'[c] = call[c]
  \/ /\ call'[c].pc \in {"get_agent", "get_journal", "put_journal", "deliver", "ended"}
     /\ ~At(c, "ended")
     /\ call'[c].pc = "get_agent" => At(c, "idle")
     /\ call'[c].pc = "put_journal" => call'[c].journal \subseteq Calls
     /\ Escalating(c)' => Escalating(c) /\ call'[c].evidence = call[c].evidence

LEMMA QuietKept ==
  ASSUME IInv, \A c \in Calls : Quiet(c), now' \in Nat, now <= now',
         UNCHANGED <<policy, agent, notices, episode, serial, ledger, dropped>>
  PROVE  Overlapping' /\ (serial' => Alone')
<1>1. ASSUME NEW c \in Calls PROVE Fine(c)' /\ (Escalating(c)' => Escalating(c) /\ call'[c].evidence = call[c].evidence)
          /\ (Holding(c)' => Holding(c) /\ call'[c] = call[c])
          /\ (At(c, "ended") => At(c, "ended")')
  <2>1. CASE call'[c] = call[c]
    BY <2>1, FineKept DEF IInv, Overlapping, Typed, Escalating, Holding, At
  <2>2. CASE call'[c] # call[c]
    <3>1. Quiet(c) /\ Fine(c)
      BY DEF IInv, Overlapping
    <3>2. Escalating(c)' => Evident(c, call[c].evidence)'
      <4> SUFFICES ASSUME Escalating(c)' PROVE Evident(c, call[c].evidence)'
        OBVIOUS
      <4>1. Escalating(c) /\ call'[c].evidence = call[c].evidence
        BY <2>2, <3>1 DEF Quiet
      <4>2. PICK e : e = call[c].evidence
        OBVIOUS
      <4>3. Evident(c, e)'
        BY <3>1, <4>1, <4>2, EvidentKept DEF Fine
      <4> QED BY <4>1, <4>2, <4>3
    <3>3. ~Holding(c)' /\ call'[c].pc \in Stages
      BY <2>2, <3>1 DEF Quiet, Holding, Stages
    <3> QED BY <2>2, <3>1, <3>2, <3>3 DEF Quiet, Fine, At
  <2> QED BY <2>1, <2>2
<1>2. ASSUME NEW n \in notices PROVE Noticed(n)'
  <2>1. Noticed(n)
    BY DEF IInv, Overlapping
  <2>2. Evident(n.by, n.evidence)'
    BY <2>1, EvidentKept DEF Noticed
  <2> QED BY <1>1, <2>1, <2>2 DEF Noticed
<1>3. Past(agent.attempts, now)'
  <2>1. agent.attempts \in Seq(Attempt)
    BY DEF IInv, Typed, AgentRecord
  <2>2. \A i \in DOMAIN agent.attempts : agent.attempts[i].at \in Nat
    BY <2>1, AttemptTyped, SupervisionAssumption
  <2> QED BY <2>2, SupervisionAssumption DEF IInv, Typed, Overlapping, Past
<1>4. ASSUME serial PROVE Alone'
  <2>1. Sole'
    BY <1>1, <1>4 DEF IInv, Alone, Sole
  <2>2. Latches'
    BY <1>1, <1>4 DEF IInv, Alone, Latches, Decided, BreachBy
  <2>3. Unique' /\ Remembered'
    BY <1>4 DEF IInv, Alone, Unique, Remembered, RemembersRightly, Decided, Same, Recorded
  <2>4. Delivered'
    BY <1>1, <1>4 DEF IInv, Alone, Delivered, Placed
  <2>5. Tolerated'
    <3>1. \A x \in 0..MaxNow : RestartsIn(x)' = RestartsIn(x)
      BY DEF RestartsIn, Decided
    <3> QED BY <1>4, <3>1 DEF IInv, Alone, Tolerated
  <2> QED BY <2>1, <2>2, <2>3, <2>4, <2>5 DEF Alone
<1> QED BY <1>1, <1>2, <1>3, <1>4 DEF Overlapping

-----------------------------------------------------------------------------
(* The mailbox. *)

\* What is over or told stays so, and what was sent stays sent.
Onward ==
  /\ mailbox' \in [Messages -> Message]
  /\ \A m \in Messages : /\ Landed(m) => Landed(m)'
                         /\ mailbox[m].status # "none" => mailbox'[m].status # "none"

LEMMA OutstandingKept ==
  ASSUME Outstanding, Onward, due' = due, faults \in Nat, faults' \in Nat, faults <= faults',
         faults' = 0 => \A c \in Calls : At(c, "cancel") => At(c, "cancel")'
  PROVE  Outstanding'
<1>1. due' \subseteq {m \in Messages : mailbox'[m].status # "none"}
  BY DEF Outstanding, Onward
<1>2. ASSUME faults' = 0 PROVE (\E c \in Calls : At(c, "cancel")') \/ \A m \in due : Landed(m)'
  BY <1>2 DEF Outstanding, Onward
<1> QED BY <1>1, <1>2 DEF Outstanding

LEMMA SameMailbox ==
  ASSUME Typed, mailbox' = mailbox
  PROVE  Onward
BY DEF Typed, Onward, Landed

LEMMA StatusOnward ==
  ASSUME Typed, NEW m \in Messages, NEW s \in {"queued", "leased", "over"},
         mailbox' = [mailbox EXCEPT ![m].status = s], mailbox[m].status # "over"
  PROVE  Onward
<1>1. mailbox' \in [Messages -> Message]
  BY DEF Typed, Message
<1>2. /\ mailbox'[m].status = s /\ mailbox'[m].signalled = mailbox[m].signalled
      /\ \A n \in Messages : n # m => mailbox'[n] = mailbox[n]
  BY DEF Typed, Message
<1> QED BY <1>1, <1>2 DEF Onward, Landed

LEMMA ClaimOnward ==
  ASSUME Typed, ClaimTurn
  PROVE  Onward
<1>1. Finalized \in [Messages -> Message]
  BY DEF Typed, Finalized, Message
<1>2. \A m \in Messages : /\ Finalized[m].signalled = mailbox[m].signalled
                          /\ mailbox[m].status = "over" => Finalized[m].status = "over"
                          /\ mailbox[m].status # "none" => Finalized[m].status # "none"
  BY DEF Typed, Finalized, Message
<1>3. \/ mailbox' = Finalized
      \/ \E m \in Messages : Finalized[m].status = "queued" /\ mailbox' = [Finalized EXCEPT ![m].status = "leased"]
  BY DEF ClaimTurn
<1> HIDE DEF Finalized
<1>4. CASE mailbox' = Finalized
  BY <1>1, <1>2, <1>4 DEF Onward, Landed
<1>5. ASSUME NEW m \in Messages, Finalized[m].status = "queued",
             mailbox' = [Finalized EXCEPT ![m].status = "leased"]
      PROVE  Onward
  <2>1. mailbox' \in [Messages -> Message]
    BY <1>1, <1>5 DEF Message
  <2>2. /\ mailbox'[m].status = "leased" /\ mailbox'[m].signalled = Finalized[m].signalled
        /\ \A n \in Messages : n # m => mailbox'[n] = Finalized[n]
    BY <1>1, <1>5 DEF Message
  <2> QED BY <1>2, <1>5, <2>1, <2>2 DEF Onward, Landed
<1> QED BY <1>3, <1>4, <1>5

\* A cancellation reaches every message that was sent.
LEMMA CancelledOnward ==
  ASSUME Typed, mailbox' = Cancelled
  PROVE  Onward /\ \A m \in Messages : mailbox[m].status # "none" => Landed(m)'
<1>1. ASSUME NEW m \in Messages
      PROVE  /\ mailbox'[m] \in Message
             /\ Landed(m) => Landed(m)'
             /\ mailbox[m].status # "none" => mailbox'[m].status # "none" /\ Landed(m)'
  <2>0. mailbox[m] \in Message
    BY DEF Typed
  <2>1. CASE mailbox[m].status = "queued"
    <3>1. mailbox'[m] = [mailbox[m] EXCEPT !.status = "over"]
      BY <2>1 DEF Cancelled
    <3> QED BY <2>0, <2>1, <3>1 DEF Message, Landed
  <2>2. CASE mailbox[m].status = "leased"
    <3>1. mailbox'[m] = [mailbox[m] EXCEPT !.signalled = TRUE]
      BY <2>2 DEF Cancelled
    <3>2. TRUE \in BOOLEAN
      OBVIOUS
    <3>3. mailbox'[m] \in Message
      BY <2>0, <3>1, <3>2 DEF Message
    <3> QED BY <2>0, <2>2, <3>1, <3>3 DEF Message, Landed
  <2>3. CASE mailbox[m].status \in {"none", "over"}
    <3>1. mailbox'[m] = mailbox[m]
      BY <2>3 DEF Cancelled
    <3> QED BY <2>0, <2>3, <3>1 DEF Message, Landed
  <2> QED BY <2>0, <2>1, <2>2, <2>3 DEF Message
<1>2. mailbox' \in [Messages -> Message]
  BY <1>1 DEF Cancelled
<1> QED BY <1>1, <1>2 DEF Onward

-----------------------------------------------------------------------------
(* The steps that leave the record and the ledger alone. *)

\* One call moves.
LEMMA CallMoves ==
  ASSUME Typed, NEW c \in Calls, NEW k, call' = [call EXCEPT ![c] = k]
  PROVE  /\ DOMAIN call' = Calls /\ call' = [d \in Calls |-> call'[d]]
         /\ call'[c] = k
         /\ \A d \in Calls : d # c => call'[d] = call[d]
BY DEF Typed

LEMMA MailboxSteps ==
  ASSUME IInv, (\E m \in Messages : SendMessage(m) \/ SettleTurn(m)) \/ ClaimTurn \/ Tick
  PROVE  IInv'
<1>1. /\ UNCHANGED <<policy, agent, journal, notices, call, faults, episode, serial, ledger, due, dropped>>
      /\ now' \in 0..MaxNow /\ now <= now'
  BY SupervisionAssumption DEF SendMessage, SettleTurn, ClaimTurn, Tick, history, IInv, Typed
<1>2. Onward
  BY ClaimOnward, StatusOnward, SameMailbox DEF SendMessage, SettleTurn, Tick, IInv
<1>3. Typed'
  BY <1>1, <1>2 DEF IInv, Typed, Onward
<1>4. Outstanding'
  BY <1>1, <1>2, OutstandingKept DEF IInv, Typed, At
<1>5. Overlapping' /\ (serial' => Alone')
  BY <1>1, QuietKept DEF Quiet
<1> QED BY <1>3, <1>4, <1>5 DEF IInv

LEMMA RequestSteps ==
  ASSUME IInv, NEW c \in Calls,
         (\E m \in Messages : FailTurn(c, m)) \/ cancel_agent(c) \/ JournalRead(c) \/ JournalWrite(c)
  PROVE  IInv'
<1>1. /\ UNCHANGED <<policy, agent, notices, now, faults, episode, serial, ledger, due, dropped>>
      /\ ~At(c, "cancel") /\ ~At(c, "ended") /\ ~Holding(c)
  BY DEF FailTurn, cancel_agent, JournalRead, JournalWrite, history, Arrives, At, Holding
<1>2. Onward
  BY StatusOnward, CancelledOnward, SameMailbox DEF FailTurn, cancel_agent, JournalRead, JournalWrite, IInv
<1>3. PICK k : call' = [call EXCEPT ![c] = k]
  BY DEF FailTurn, cancel_agent, JournalRead, JournalWrite
<1>4. /\ DOMAIN call' = Calls /\ call' = [d \in Calls |-> call'[d]]
      /\ call'[c] = k /\ \A d \in Calls : d # c => call'[d] = call[d]
  BY <1>3, CallMoves DEF IInv
<1>5. journal' \subseteq Calls /\ Quiet(c)
  <2>1. CASE \E m \in Messages : FailTurn(c, m)
    <3>1. call'[c] = [pc |-> "get_agent"] /\ At(c, "idle") /\ journal' = journal
      BY <2>1, <1>4 DEF FailTurn, Arrives, IInv, Typed
    <3>2. ~Escalating(c)'
      BY <3>1 DEF Escalating, At
    <3> QED BY <3>1, <3>2 DEF Quiet, At, IInv, Typed
  <2>2. CASE cancel_agent(c)
    <3>1. call'[c] \in {[pc |-> "get_journal", decision |-> "exit", evidence |-> <<>>], Ended} /\ journal' = journal
      BY <2>2, CallMoves DEF cancel_agent, IInv
    <3>2. ~Escalating(c)' /\ call'[c].pc \in {"get_journal", "ended"}
      BY <3>1 DEF Escalating, At, Ended
    <3> QED BY <1>1, <3>1, <3>2 DEF Quiet, IInv, Typed
  <2>3. CASE JournalRead(c)
    <3>1. /\ call'[c] = [pc |-> "put_journal", decision |-> call[c].decision,
                         evidence |-> call[c].evidence, journal |-> journal]
          /\ At(c, "get_journal") /\ journal' = journal
      BY <2>3, CallMoves DEF JournalRead, IInv, Typed
    <3>2. Escalating(c)' => Escalating(c) /\ call'[c].evidence = call[c].evidence
      BY <3>1 DEF Escalating, At
    <3> QED BY <1>1, <3>1, <3>2 DEF Quiet, IInv, Typed
  <2>4. CASE JournalWrite(c)
    <3>1. /\ call'[c] = IF call[c].decision = "escalate"
                        THEN [pc |-> "deliver", evidence |-> call[c].evidence] ELSE Ended
          /\ At(c, "put_journal") /\ journal' = call[c].journal \cup {c}
      BY <2>4, CallMoves DEF JournalWrite, IInv, Typed
    <3>2. Escalating(c)' => Escalating(c) /\ call'[c].evidence = call[c].evidence
      BY <3>1 DEF Escalating, At, Ended
    <3>3. call[c].journal \subseteq Calls
      BY <3>1 DEF IInv, Overlapping, Fine
    <3> QED BY <1>1, <3>1, <3>2, <3>3 DEF Quiet, Ended
  <2> QED BY <2>1, <2>2, <2>3, <2>4
<1>6. Typed'
  BY <1>1, <1>2, <1>4, <1>5 DEF IInv, Typed, Onward
<1>7. Outstanding'
  BY <1>1, <1>2, <1>4, OutstandingKept DEF IInv, Typed, At
<1>8. Overlapping' /\ (serial' => Alone')
  <2>1. \A d \in Calls : Quiet(d)
    BY <1>4, <1>5 DEF Quiet
  <2> QED BY <1>1, <2>1, SupervisionAssumption, QuietKept DEF IInv, Typed
<1> QED BY <1>6, <1>7, <1>8 DEF IInv

\* A request that dies drops its copy.
LEMMA FaultSteps ==
  ASSUME IInv, (\E c \in Calls : CallDies(c)) \/ Crash
  PROVE  IInv'
<1>1. /\ UNCHANGED <<policy, agent, journal, notices, mailbox, now, episode, serial, ledger, due, dropped>>
      /\ faults' \in Nat /\ faults' > faults /\ faults' # 0
  BY DEF CallDies, Crash, history, IInv, Typed
<1>2. /\ DOMAIN call' = Calls /\ call' = [d \in Calls |-> call'[d]]
      /\ \A d \in Calls : call'[d] = call[d] \/ (call'[d] = Ended /\ d \in InFlight)
  BY DEF CallDies, Crash, IInv, Typed
<1>3. \A d \in Calls : Quiet(d)
  BY <1>2 DEF Quiet, Ended, InFlight, Escalating, At
<1>4. Onward
  BY <1>1, SameMailbox DEF IInv
<1>5. Typed'
  BY <1>1, <1>2 DEF IInv, Typed
<1>6. Outstanding'
  BY <1>1, <1>4, OutstandingKept DEF IInv, Typed
<1>7. Overlapping' /\ (serial' => Alone')
  BY <1>1, <1>3, SupervisionAssumption, QuietKept DEF IInv, Typed
<1> QED BY <1>5, <1>6, <1>7 DEF IInv

-----------------------------------------------------------------------------
(* The steps of a call that holds the record. *)

\* The ledger, and what the record remembers of it.
LEMMA LedgerKept ==
  ASSUME Alone, UNCHANGED <<policy, notices, episode, ledger, dropped>>,
         agent'.attempts = agent.attempts, agent'.escalated = agent.escalated,
         \A c \in Calls : Escalating(c)' => Escalating(c) /\ call'[c].evidence = call[c].evidence
  PROVE  /\ Unique' /\ Remembered' /\ Delivered' /\ Tolerated'
         /\ \A c \in Calls : Decided(c, "escalate")' /\ ledger'[c].episode = episode' => agent'.escalated
<1>1. Unique' /\ Remembered'
  BY DEF Alone, Unique, Remembered, RemembersRightly, Decided, Same, Recorded
<1>2. Delivered'
  BY DEF Alone, Delivered, Placed
<1>3. Tolerated'
  <2>1. \A x \in 0..MaxNow : RestartsIn(x)' = RestartsIn(x)
    BY DEF RestartsIn, Decided
  <2> QED BY <2>1 DEF Alone, Tolerated
<1> QED BY <1>1, <1>2, <1>3 DEF Alone, Latches, Decided

\* A call reads the record and decides.
LEMMA ReadSteps ==
  ASSUME IInv, NEW c \in Calls, SuperviseTurn(c) \/ restart_agent(c) \/ BreachSeen(c)
  PROVE  IInv'
<1>1. /\ UNCHANGED <<policy, agent, journal, notices, mailbox, now, faults, episode, ledger, due, dropped>>
      /\ call[c].pc \in {"idle", "get_agent"}
      /\ serial' = (serial /\ \A d \in Calls : ~Holding(d))
  BY DEF SuperviseTurn, restart_agent, BreachSeen, Arrives, At, Noted
<1>2. \/ call' = [call EXCEPT ![c] = Ended]
      \/ /\ call' = [call EXCEPT ![c] = Held("turn_failed", "update")]
         /\ decide(agent, "turn_failed", now) # "unsupervised"
      \/ call' = [call EXCEPT ![c] = Held("manual_restart", "update")]
      \/ call' = [call EXCEPT ![c] = Held("deadline_breached", "latch")] /\ ~agent.deadline_breached
  BY DEF SuperviseTurn, restart_agent, BreachSeen, Breaching
<1>3. /\ DOMAIN call' = Calls /\ call' = [d \in Calls |-> call'[d]]
      /\ \A d \in Calls : d # c => call'[d] = call[d]
      /\ \/ call'[c] = Ended
         \/ \E trigger \in Triggers, pc \in {"latch", "update"} :
              /\ call'[c] = Held(trigger, pc)
              /\ pc = "update" => decide(agent, trigger, now) # "unsupervised" /\ trigger # "deadline_breached"
              /\ pc = "latch" => trigger = "deadline_breached" /\ ~agent.deadline_breached
  <2>1. decide(agent, "manual_restart", now) # "unsupervised"
    BY DEF decide
  <2>2. {"turn_failed", "manual_restart", "deadline_breached"} \subseteq Triggers
    BY DEF Triggers
  <2> HIDE DEF Held
  <2>3. PICK k : call' = [call EXCEPT ![c] = k]
    BY <1>2
  <2>4. /\ DOMAIN call' = Calls /\ call' = [d \in Calls |-> call'[d]]
        /\ \A d \in Calls : d # c => call'[d] = call[d]
    BY <2>3, CallMoves DEF IInv
  <2>5. \/ call'[c] = Ended
        \/ /\ call'[c] = Held("turn_failed", "update")
           /\ decide(agent, "turn_failed", now) # "unsupervised"
        \/ call'[c] = Held("manual_restart", "update")
        \/ call'[c] = Held("deadline_breached", "latch") /\ ~agent.deadline_breached
    BY <1>2 DEF IInv, Typed
  <2> QED BY <2>1, <2>2, <2>4, <2>5
<1>4. ledger[c] = None
  BY <1>1 DEF IInv, Overlapping, Fine
<1>5. /\ call'[c].pc \in {"latch", "update", "ended"}
      /\ call'[c].pc # "ended" => call'[c].agent = agent /\ (call'[c].trigger = "deadline_breached" => ~agent.deadline_breached)
  BY <1>3 DEF Held, Ended
<1>6. ~Escalating(c)' /\ ~At(c, "cancel")
  BY <1>1, <1>5 DEF Escalating, At
<1>7. Fine(c)'
  <2>1. ASSUME NEW trigger \in Triggers, NEW pc \in {"latch", "update"},
               call'[c] = Held(trigger, pc),
               pc = "update" => decide(agent, trigger, now) # "unsupervised" /\ trigger # "deadline_breached",
               pc = "latch" => trigger = "deadline_breached" /\ ~agent.deadline_breached
        PROVE  Sighted(c)'
    <3>1. decide(agent, trigger, now) \in {"restart", "escalate", "suppressed", "unsupervised"}
      BY DEF decide
    <3>2. /\ call'[c].pc = pc /\ call'[c].trigger = trigger /\ call'[c].agent = agent
          /\ call'[c].at = now /\ call'[c].decision = decide(agent, trigger, now)
      BY <2>1 DEF Held
    <3>3. call'[c] \in HeldCall
      BY <2>1, <3>1 DEF Held, HeldCall, IInv, Typed
    <3>4. now' = now /\ now <= now /\ Past(agent.attempts, now)
      BY <1>1, SupervisionAssumption DEF IInv, Typed, Overlapping
    <3>5. decide(call[c].agent, call[c].trigger, call[c].at)' = decide(agent, trigger, now)
      BY <1>1, <3>2 DEF decide, allows_restart_after, recent_failures, InWindow
    <3> QED BY <2>1, <3>2, <3>3, <3>4, <3>5 DEF Sighted, At, Past
  <2>2. Holding(c)' => Sighted(c)'
    BY <1>3, <2>1 DEF Holding, Ended
  <2> QED BY <1>1, <1>4, <1>5, <1>6, <2>2 DEF Fine, Stages, At
<1>8. Overlapping'
  <2>1. ASSUME NEW d \in Calls, d # c PROVE Fine(d)'
    BY <1>1, <1>3, <2>1, SupervisionAssumption, FineKept DEF IInv, Overlapping, Typed
  <2>2. ASSUME NEW n \in notices PROVE Noticed(n)'
    <3>1. Noticed(n) /\ n.by # c
      BY <1>1 DEF IInv, Overlapping, Noticed, At
    <3>2. Evident(n.by, n.evidence)'
      BY <1>1, <3>1, EvidentKept DEF Noticed
    <3> QED BY <1>3, <3>1, <3>2 DEF Noticed, At
  <2>3. Past(agent.attempts, now)'
    BY <1>1 DEF IInv, Overlapping, Past
  <2> QED BY <1>1, <1>7, <2>1, <2>2, <2>3 DEF Overlapping
<1>9. ASSUME serial' PROVE Alone'
  <2>1. serial /\ (\A d \in Calls : ~Holding(d)) /\ Alone
    BY <1>1, <1>9 DEF IInv
  <2>2. \A d \in Calls : d # c => ~Holding(d)'
    BY <1>3, <2>1 DEF Holding
  <2>3. Sole'
    BY <1>1, <1>5, <2>2 DEF Sole, Holding
  <2>4. \A d \in Calls : Escalating(d)' => Escalating(d) /\ call'[d].evidence = call[d].evidence
    BY <1>3, <1>6 DEF Escalating, At
  <2>5. /\ Unique' /\ Remembered' /\ Delivered' /\ Tolerated'
        /\ \A d \in Calls : Decided(d, "escalate")' /\ ledger'[d].episode = episode' => agent'.escalated
    BY <1>1, <2>1, <2>4, LedgerKept
  <2>6. \A d \in Calls : BreachBy(d)' =>
           agent'.deadline_breached /\ \A e \in Calls : Holding(e)' => call'[e].trigger # "deadline_breached"
    BY <1>1, <1>5, <2>1, <2>2 DEF Alone, Latches, BreachBy, Holding
  <2> QED BY <2>3, <2>5, <2>6 DEF Alone, Latches
<1>10. Typed'
  <2>1. serial' \in BOOLEAN
    BY <1>1, Zenon
  <2> QED BY <1>1, <1>3, <2>1 DEF IInv, Typed
<1>11. Outstanding'
  BY <1>1, <1>3, <1>6, SameMailbox, OutstandingKept DEF IInv, Typed, At
<1> QED BY <1>8, <1>9, <1>10, <1>11 DEF IInv

\* The latch is written, into the record and into the copy.
LEMMA LatchSteps ==
  ASSUME IInv, NEW c \in Calls, BreachLatch(c)
  PROVE  IInv'
<1> DEFINE latched == [call[c].agent EXCEPT !.deadline_breached = TRUE]
<1>1. /\ UNCHANGED <<policy, journal, notices, mailbox, now, faults, episode, serial, ledger, dropped>>
      /\ At(c, "latch") /\ agent' = latched
      /\ call' = [call EXCEPT ![c].pc = "cancel", ![c].agent = latched]
      /\ due' = due \cup {m \in Messages : mailbox[m].status \in {"queued", "leased"}}
  BY DEF BreachLatch
<1>2. Holding(c) /\ Fine(c) /\ Sighted(c) /\ call[c] \in HeldCall
  BY <1>1 DEF IInv, Overlapping, Fine, Sighted, Holding, At
<1>3. /\ latched \in AgentRecord /\ latched.attempts = call[c].agent.attempts
      /\ latched.escalated = call[c].agent.escalated /\ latched.deadline_breached
  <2>1. call[c].agent \in AgentRecord
    BY <1>2 DEF HeldCall
  <2>2. TRUE \in BOOLEAN
    OBVIOUS
  <2> QED BY <2>1, <2>2 DEF AgentRecord
<1> HIDE DEF latched
<1>4. /\ DOMAIN call' = Calls /\ call' = [d \in Calls |-> call'[d]]
      /\ \A d \in Calls : d # c => call'[d] = call[d]
      /\ call'[c] = [[call[c] EXCEPT !.pc = "cancel"] EXCEPT !.agent = latched]
  BY <1>1 DEF IInv, Typed
<1>5. /\ call'[c].pc = "cancel" /\ call'[c].agent = latched /\ call'[c].trigger = call[c].trigger
      /\ call'[c].at = call[c].at /\ call'[c].decision = call[c].decision
      /\ call'[c] \in HeldCall
  BY <1>2, <1>3, <1>4 DEF HeldCall
<1>6. call[c].trigger = "deadline_breached" /\ ~call[c].agent.deadline_breached
  BY <1>1, <1>2 DEF Sighted, At
<1>7. Fine(c)'
  <2>1. decide(call[c].agent, call[c].trigger, call[c].at)' = decide(call[c].agent, call[c].trigger, call[c].at)
    BY <1>1, <1>3, <1>5 DEF decide, allows_restart_after, recent_failures, InWindow
  <2>2. Sighted(c)'
    BY <1>1, <1>2, <1>3, <1>5, <1>6, <2>1 DEF Sighted, Past, At
  <2>3. ledger[c] = None
    BY <1>1, <1>2 DEF Fine, At
  <2> QED BY <1>1, <1>5, <2>2, <2>3 DEF Fine, Stages, Escalating, At
<1>8. Overlapping'
  <2>1. ASSUME NEW d \in Calls, d # c PROVE Fine(d)'
    BY <1>1, <1>4, <2>1, SupervisionAssumption, FineKept DEF IInv, Overlapping, Typed
  <2>2. ASSUME NEW n \in notices PROVE Noticed(n)'
    <3>1. Noticed(n) /\ n.by # c
      BY <1>1 DEF IInv, Overlapping, Noticed, At
    <3>2. Evident(n.by, n.evidence)'
      BY <1>1, <3>1, EvidentKept DEF Noticed
    <3> QED BY <1>4, <3>1, <3>2 DEF Noticed, At
  <2>3. Past(agent.attempts, now)'
    <3>1. call[c].agent.attempts \in Seq(Attempt) /\ call[c].at \in Nat /\ now \in Nat
      BY <1>2, SupervisionAssumption DEF HeldCall, AgentRecord, IInv, Typed
    <3>2. \A i \in DOMAIN call[c].agent.attempts : call[c].agent.attempts[i].at \in Nat
      BY <3>1, AttemptTyped, SupervisionAssumption
    <3> QED BY <1>1, <1>2, <1>3, <3>1, <3>2 DEF Sighted, Past
  <2> QED BY <1>1, <1>7, <2>1, <2>2, <2>3 DEF Overlapping
<1>9. ASSUME serial' PROVE Alone'
  <2>1. Alone /\ call[c].agent = agent /\ \A d \in Calls : Holding(d) => d = c
    BY <1>1, <1>2, <1>9 DEF IInv, Alone, Sole
  <2>2. \A d \in Calls : d # c => ~Holding(d)'
    BY <1>4, <2>1 DEF Holding
  <2>3. Sole'
    BY <1>1, <1>5, <2>2 DEF Sole
  <2>4. \A d \in Calls : Escalating(d)' => Escalating(d) /\ call'[d].evidence = call[d].evidence
    BY <1>4, <1>5 DEF Escalating, At
  <2>5. /\ Unique' /\ Remembered' /\ Delivered' /\ Tolerated'
        /\ \A d \in Calls : Decided(d, "escalate")' /\ ledger'[d].episode = episode' => agent'.escalated
    BY <1>1, <1>3, <2>1, <2>4, LedgerKept
  <2>6. \A d \in Calls : ~BreachBy(d)'
    BY <1>1, <1>2, <1>6, <2>1 DEF Alone, Latches, BreachBy
  <2> QED BY <2>3, <2>5, <2>6 DEF Alone, Latches
<1>10. Typed'
  BY <1>1, <1>3, <1>4 DEF IInv, Typed
<1>11. Outstanding'
  BY <1>1, <1>5 DEF Outstanding, IInv, At
<1> QED BY <1>8, <1>9, <1>10, <1>11 DEF IInv

\* The mailbox is cancelled.
LEMMA BreachCancelSteps ==
  ASSUME IInv, NEW c \in Calls, BreachCancel(c)
  PROVE  IInv'
<1>1. /\ UNCHANGED <<policy, agent, journal, notices, now, faults, episode, serial, ledger, due, dropped>>
      /\ At(c, "cancel") /\ mailbox' = Cancelled
      /\ call' = [call EXCEPT ![c] =
           IF call[c].decision = "unsupervised" THEN Ended ELSE [call[c] EXCEPT !.pc = "update"]]
  BY DEF BreachCancel, history, IInv, Typed
<1>2. Holding(c) /\ Fine(c) /\ Sighted(c) /\ call[c] \in HeldCall
  BY <1>1 DEF IInv, Overlapping, Fine, Sighted, Holding, At
<1>3. /\ DOMAIN call' = Calls /\ call' = [d \in Calls |-> call'[d]]
      /\ \A d \in Calls : d # c => call'[d] = call[d]
      /\ call'[c] = IF call[c].decision = "unsupervised" THEN Ended ELSE [call[c] EXCEPT !.pc = "update"]
  BY <1>1, CallMoves DEF IInv
<1>4. \/ call'[c].pc = "ended"
      \/ /\ call'[c].pc = "update" /\ call'[c].agent = call[c].agent /\ call'[c].trigger = call[c].trigger
         /\ call'[c].at = call[c].at /\ call'[c].decision = call[c].decision
         /\ call'[c] \in HeldCall /\ call[c].decision # "unsupervised"
  BY <1>2, <1>3 DEF HeldCall, Ended
<1>5. call[c].trigger = "deadline_breached" /\ call[c].agent.deadline_breached
  BY <1>1, <1>2 DEF Sighted, At
<1>6. Fine(c)'
  <2>1. call'[c].pc = "update" => Sighted(c)'
    <3> SUFFICES ASSUME call'[c].pc = "update" PROVE Sighted(c)'
      OBVIOUS
    <3>1. decide(call[c].agent, call[c].trigger, call[c].at)' = decide(call[c].agent, call[c].trigger, call[c].at)
      BY <1>1, <1>4 DEF decide, allows_restart_after, recent_failures, InWindow
    <3> QED BY <1>1, <1>2, <1>4, <1>5, <3>1 DEF Sighted, Past, At
  <2>2. ledger[c] = None
    BY <1>1, <1>2 DEF Fine, At
  <2> QED BY <1>1, <1>4, <2>1, <2>2 DEF Fine, Stages, Escalating, At, Holding
<1>7. Overlapping'
  <2>1. ASSUME NEW d \in Calls, d # c PROVE Fine(d)'
    BY <1>1, <1>3, <2>1, SupervisionAssumption, FineKept DEF IInv, Overlapping, Typed
  <2>2. ASSUME NEW n \in notices PROVE Noticed(n)'
    <3>1. Noticed(n) /\ n.by # c
      BY <1>1 DEF IInv, Overlapping, Noticed, At
    <3>2. Evident(n.by, n.evidence)'
      BY <1>1, <3>1, EvidentKept DEF Noticed
    <3> QED BY <1>3, <3>1, <3>2 DEF Noticed, At
  <2>3. Past(agent.attempts, now)'
    BY <1>1 DEF IInv, Overlapping, Past
  <2> QED BY <1>1, <1>6, <2>1, <2>2, <2>3 DEF Overlapping
<1>8. ASSUME serial' PROVE Alone'
  <2>1. Alone /\ call[c].agent = agent /\ \A d \in Calls : Holding(d) => d = c
    BY <1>1, <1>2, <1>8 DEF IInv, Alone, Sole
  <2>2. \A d \in Calls : d # c => ~Holding(d)'
    BY <1>3, <2>1 DEF Holding
  <2>3. Sole'
    BY <1>1, <1>4, <2>1, <2>2 DEF Sole, Holding
  <2>4. \A d \in Calls : Escalating(d)' => Escalating(d) /\ call'[d].evidence = call[d].evidence
    BY <1>3, <1>4 DEF Escalating, At
  <2>5. /\ Unique' /\ Remembered' /\ Delivered' /\ Tolerated'
        /\ \A d \in Calls : Decided(d, "escalate")' /\ ledger'[d].episode = episode' => agent'.escalated
    BY <1>1, <2>1, <2>4, LedgerKept
  <2>6. \A d \in Calls : ~BreachBy(d)'
    BY <1>1, <1>2, <1>5, <2>1 DEF Alone, Latches, BreachBy
  <2> QED BY <2>3, <2>5, <2>6 DEF Alone, Latches
<1>9. Typed' /\ Outstanding'
  <2>1. Onward /\ \A m \in Messages : mailbox[m].status # "none" => Landed(m)'
    BY <1>1, CancelledOnward DEF IInv
  <2>2. Typed'
    BY <1>1, <1>3, <2>1 DEF IInv, Typed, Onward
  <2>3. due' \subseteq {m \in Messages : mailbox'[m].status # "none"}
    BY <1>1, <2>1 DEF IInv, Outstanding, Onward
  <2>4. \A m \in due : Landed(m)'
    BY <2>1 DEF IInv, Outstanding
  <2> QED BY <1>1, <2>2, <2>3, <2>4 DEF Outstanding
<1> QED BY <1>7, <1>8, <1>9 DEF IInv

\* A notice is stored, unless one with its key is there.
LEMMA DeliverSteps ==
  ASSUME IInv, NEW c \in Calls, deliver_escalation(c)
  PROVE  IInv'
<1> DEFINE e == call[c].evidence
           note == [key |-> Len(e), by |-> c, evidence |-> e]
           repeated == \E n \in notices : n.key = Len(e)
<1>1. /\ UNCHANGED <<policy, agent, journal, mailbox, now, faults, episode, serial, ledger, due>>
      /\ At(c, "deliver") /\ call' = [call EXCEPT ![c] = Ended]
      /\ notices' = IF repeated THEN notices ELSE notices \cup {note}
      /\ dropped' = IF repeated THEN dropped \cup {c} ELSE dropped
  BY DEF deliver_escalation, NoticeKey
<1>2. Escalating(c) /\ Evident(c, e)
  BY <1>1 DEF IInv, Overlapping, Fine, Escalating, At
<1>3. /\ DOMAIN call' = Calls /\ call' = [d \in Calls |-> call'[d]]
      /\ \A d \in Calls : d # c => call'[d] = call[d]
      /\ call'[c].pc = "ended"
  BY <1>1, CallMoves DEF IInv, Ended
<1>4. Overlapping'
  <2>1. ASSUME NEW d \in Calls, d # c PROVE Fine(d)'
    <3>1. Typed /\ Fine(d) /\ call'[d] = call[d] /\ ledger'[d] = ledger[d] /\ policy' = policy
      BY <1>1, <1>3, <2>1 DEF IInv, Overlapping
    <3>2. now' \in Nat /\ now <= now' /\ episode' \in Nat /\ episode <= episode'
      BY <1>1, SupervisionAssumption DEF IInv, Typed
    <3> QED BY <3>1, <3>2, FineKept
  <2>2. Fine(c)'
    BY <1>1, <1>3 DEF Fine, Stages, Holding, Escalating, At, IInv, Overlapping
  <2>3. ASSUME NEW n \in notices PROVE Noticed(n)'
    <3>1. Noticed(n) /\ n.by # c
      BY <1>1 DEF IInv, Overlapping, Noticed, At
    <3>2. Evident(n.by, n.evidence)'
      BY <1>1, <3>1, EvidentKept DEF Noticed
    <3> QED BY <1>3, <3>1, <3>2 DEF Noticed, At
  <2>4. PICK n : n = note
    OBVIOUS
  <2>5. Noticed(n)'
    <3>1. n.by = c /\ n.key = Len(n.evidence) /\ Evident(c, n.evidence)
      BY <1>2, <2>4
    <3>2. Evident(c, n.evidence)'
      BY <1>1, <3>1, EvidentKept
    <3> QED BY <1>3, <3>1, <3>2 DEF Noticed, At
  <2>6. Past(agent.attempts, now)'
    BY <1>1 DEF IInv, Overlapping, Past
  <2> QED BY <1>1, <2>1, <2>2, <2>3, <2>4, <2>5, <2>6 DEF Overlapping
<1>5. ASSUME serial' PROVE Alone'
  <2>1. Alone /\ serial
    BY <1>1, <1>5 DEF IInv
  <2>2. ~repeated
    <3> SUFFICES ASSUME NEW n \in notices, n.key = Len(e) PROVE FALSE
      OBVIOUS
    <3>1. Placed(n.by, n.evidence) /\ Placed(c, e)
      BY <1>2, <2>1 DEF Alone, Delivered
    <3>2. Noticed(n)
      BY DEF IInv, Overlapping
    <3> QED BY <1>1, <3>1, <3>2 DEF Noticed, Placed, At
  <2>3. Delivered'
    <3>1. dropped' = {}
      BY <1>1, <2>1, <2>2 DEF Alone, Delivered
    <3>2. \A d \in Calls : Escalating(d)' => Escalating(d) /\ call'[d].evidence = call[d].evidence
      BY <1>3 DEF Escalating, At
    <3>3. Placed(note.by, note.evidence)
      BY <1>2, <2>1 DEF Alone, Delivered
    <3> HIDE DEF note, e
    <3>4. \A n \in notices' : Placed(n.by, n.evidence)
      BY <1>1, <2>1, <3>3 DEF Alone, Delivered
    <3> QED BY <1>1, <2>1, <3>1, <3>2, <3>4 DEF Alone, Delivered, Placed
  <2>4. Sole' /\ Latches'
    <3>1. \A d \in Calls : Holding(d)' => Holding(d) /\ call'[d] = call[d]
      BY <1>3 DEF Holding
    <3>2. Sole'
      BY <1>1, <2>1, <3>1 DEF Alone, Sole
    <3>3. Latches'
      BY <1>1, <2>1, <3>1 DEF Alone, Latches, Decided, BreachBy
    <3> QED BY <3>2, <3>3
  <2>5. Unique' /\ Remembered'
    BY <1>1, <2>1 DEF Alone, Unique, Remembered, RemembersRightly, Decided, Same, Recorded
  <2>6. Tolerated'
    <3>1. \A x \in 0..MaxNow : RestartsIn(x)' = RestartsIn(x)
      BY <1>1 DEF RestartsIn, Decided
    <3> QED BY <1>1, <2>1, <3>1 DEF Alone, Tolerated
  <2> QED BY <2>3, <2>4, <2>5, <2>6 DEF Alone
<1>6. Typed'
  BY <1>1, <1>3 DEF IInv, Typed
<1>7. Outstanding'
  BY <1>1, <1>3, SameMailbox, OutstandingKept DEF IInv, Typed, At
<1> QED BY <1>4, <1>5, <1>6, <1>7 DEF IInv

\* The attempt a call adds.
Own(c) == [by |-> c, trigger |-> call[c].trigger, at |-> call[c].at]

Grown(c) == Append(call[c].agent.attempts, Own(c))

LEMMA GrownAs ==
  ASSUME NEW c \in Calls, Sighted(c)
  PROVE  /\ Grown(c) \in Seq(Attempt)
         /\ call[c].agent.attempts \in Seq(Attempt)
         /\ Len(call[c].agent.attempts) \in Nat
         /\ DOMAIN call[c].agent.attempts = 1..Len(call[c].agent.attempts)
         /\ Len(Grown(c)) = Len(call[c].agent.attempts) + 1
         /\ DOMAIN Grown(c) = 1..(Len(call[c].agent.attempts) + 1)
         /\ \A i \in 1..Len(call[c].agent.attempts) : Grown(c)[i] = call[c].agent.attempts[i]
         /\ Grown(c)[Len(call[c].agent.attempts) + 1] = Own(c)
         /\ Own(c).by = c /\ Own(c).trigger = call[c].trigger /\ Own(c).at = call[c].at
<1>1. call[c].agent.attempts \in Seq(Attempt) /\ call[c].trigger \in Triggers /\ call[c].at \in 0..MaxNow
  BY DEF Sighted, HeldCall, AgentRecord
<1>2. Own(c) \in Attempt /\ Own(c).by = c /\ Own(c).trigger = call[c].trigger /\ Own(c).at = call[c].at
  BY <1>1 DEF Own, Attempt
<1> HIDE DEF Own
<1> QED BY <1>1, <1>2, AppendProperties DEF Grown

\* The record a call writes.
LEMMA UpdatedAs ==
  ASSUME NEW c \in Calls, Sighted(c), At(c, "update")
  PROVE  /\ Updated(c) \in AgentRecord
         /\ \/ /\ call[c].decision = "suppressed" /\ call[c].trigger # "manual_restart"
               /\ Updated(c).attempts = call[c].agent.attempts
               /\ Updated(c).escalated = call[c].agent.escalated
               /\ Updated(c).deadline_breached = call[c].agent.deadline_breached
            \/ /\ call[c].decision = "restart" /\ call[c].trigger = "manual_restart"
               /\ Updated(c).attempts = Grown(c)
            \/ /\ call[c].decision = "escalate" /\ call[c].trigger # "manual_restart"
               /\ Updated(c).attempts = Grown(c)
               /\ Updated(c).escalated
               /\ Updated(c).deadline_breached = call[c].agent.deadline_breached
            \/ /\ call[c].decision = "restart" /\ call[c].trigger # "manual_restart"
               /\ Updated(c).attempts = Grown(c)
               /\ Updated(c).escalated = call[c].agent.escalated
               /\ Updated(c).deadline_breached = call[c].agent.deadline_breached
<1>1. /\ call[c].agent \in AgentRecord /\ call[c].trigger \in Triggers
      /\ call[c].decision \in {"restart", "escalate", "suppressed"}
      /\ call[c].trigger = "manual_restart" => call[c].decision = "restart"
  BY DEF Sighted, HeldCall, decide
<1>2. Grown(c) \in Seq(Attempt)
  BY GrownAs
<1>3. Updated(c) =
        CASE call[c].decision = "suppressed" -> [call[c].agent EXCEPT !.suppressed = TRUE]
          [] call[c].trigger = "manual_restart" ->
               [attempts |-> Grown(c), escalated |-> FALSE, deadline_breached |-> FALSE,
                suppressed |-> FALSE]
          [] call[c].decision = "escalate" -> [call[c].agent EXCEPT !.attempts = Grown(c), !.escalated = TRUE]
          [] OTHER -> [call[c].agent EXCEPT !.attempts = Grown(c)]
  BY DEF Updated, Grown, Own
<1>4. TRUE \in BOOLEAN /\ FALSE \in BOOLEAN
  OBVIOUS
<1> HIDE DEF Grown
<1>5. CASE call[c].decision = "suppressed"
  <2>1. Updated(c) = [call[c].agent EXCEPT !.suppressed = TRUE]
    BY <1>1, <1>3, <1>5
  <2> QED BY <1>1, <1>4, <1>5, <2>1 DEF AgentRecord
<1>6. CASE call[c].trigger = "manual_restart"
  <2>1. Updated(c) = [attempts |-> Grown(c), escalated |-> FALSE, deadline_breached |-> FALSE,
                      suppressed |-> FALSE]
    BY <1>1, <1>3, <1>6
  <2> QED BY <1>1, <1>2, <1>4, <1>6, <2>1 DEF AgentRecord
<1>7. CASE call[c].decision = "escalate"
  <2>1. Updated(c) = [call[c].agent EXCEPT !.attempts = Grown(c), !.escalated = TRUE]
    BY <1>1, <1>3, <1>7
  <2> QED BY <1>1, <1>2, <1>4, <1>7, <2>1 DEF AgentRecord
<1>8. CASE call[c].decision = "restart" /\ call[c].trigger # "manual_restart"
  <2>1. Updated(c) = [call[c].agent EXCEPT !.attempts = Grown(c)]
    BY <1>1, <1>3, <1>8
  <2> QED BY <1>1, <1>2, <1>8, <2>1 DEF AgentRecord
<1> QED BY <1>1, <1>5, <1>6, <1>7, <1>8

\* The recent failures of a copy.
Recent(c) ==
  {i \in DOMAIN call[c].agent.attempts :
     /\ call[c].agent.attempts[i].trigger # "manual_restart"
     /\ InWindow(call[c].agent.attempts[i], call[c].at)}

LEMMA RecentFinite ==
  ASSUME NEW c \in Calls, Sighted(c)
  PROVE  /\ IsFiniteSet(Recent(c)) /\ Cardinality(Recent(c)) \in Nat
         /\ Cardinality(Recent(c)) = recent_failures(call[c].agent.attempts, call[c].at)
<1>1. Len(call[c].agent.attempts) \in Nat /\ DOMAIN call[c].agent.attempts = 1..Len(call[c].agent.attempts)
  BY GrownAs
<1>2. Recent(c) \in SUBSET (1..Len(call[c].agent.attempts))
  BY <1>1 DEF Recent
<1>3. IsFiniteSet(1..Len(call[c].agent.attempts))
  BY <1>1, FS_Interval
<1>4. IsFiniteSet(Recent(c))
  BY <1>2, <1>3, FS_Subset
<1>5. Cardinality(Recent(c)) \in Nat
  BY <1>4, FS_CardinalityType
<1> QED BY <1>4, <1>5 DEF Recent, recent_failures

\* An escalation is made for a failure that the policy no longer tolerates.
LEMMA EscalationJustified ==
  ASSUME Typed, NEW c \in Calls, Sighted(c), call[c].decision = "escalate"
  PROVE  Justified(Grown(c))
<1> DEFINE n == Len(call[c].agent.attempts)
           s == Grown(c)
<1>1. /\ policy # None /\ call[c].trigger # "manual_restart"
      /\ ~(/\ allows_restart_after(call[c].trigger)
           /\ recent_failures(call[c].agent.attempts, call[c].at) < policy.intensity)
  BY DEF Sighted, decide
<1>2. /\ policy.restart \in {"permanent", "transient", "temporary"}
      /\ policy.intensity \in Nat /\ policy.period \in Nat
  BY <1>1, SupervisionAssumption DEF Typed
<1>3. /\ n \in Nat /\ Len(s) = n + 1 /\ DOMAIN s = 1..(n + 1) /\ DOMAIN call[c].agent.attempts = 1..n
      /\ \A i \in 1..n : s[i] = call[c].agent.attempts[i]
      /\ s[n + 1].trigger = call[c].trigger /\ s[n + 1].at = call[c].at
  BY GrownAs
<1>4. call[c].trigger \in Triggers /\ call[c].at \in Nat
  BY SupervisionAssumption DEF Sighted, HeldCall
<1> HIDE DEF n, s
<1>5. CASE allows_restart_after(call[c].trigger)
  <2>1. Cardinality(Recent(c)) >= policy.intensity
    BY <1>1, <1>2, <1>5, RecentFinite
  <2>2. \A i \in 1..n : call[c].agent.attempts[i].at \in Nat /\ call[c].agent.attempts[i].at <= call[c].at
    <3>1. call[c].agent.attempts \in Seq(Attempt)
      BY GrownAs
    <3> QED BY <1>3, <3>1, AttemptTyped, SupervisionAssumption DEF Sighted, Past
  <2>3. ASSUME NEW i \in 1..(n + 1)
        PROVE  i \in Failures(s, call[c].at) <=> i \in Recent(c) \cup {n + 1}
    <3>1. CASE i \in 1..n
      <4> DEFINE a == call[c].agent.attempts[i]
      <4>1. a.at \in Nat /\ a.at <= call[c].at /\ s[i] = a
        BY <1>3, <2>2, <3>1
      <4>2. a.at \in (call[c].at - policy.period)..call[c].at <=> InWindow(a, call[c].at)
        BY <1>2, <1>4, <4>1 DEF InWindow
      <4>3. i \in Failures(s, call[c].at) <=>
              a.trigger # "manual_restart" /\ a.at \in (call[c].at - policy.period)..call[c].at
        BY <1>3, <4>1 DEF Failures
      <4>4. i \in Recent(c) <=> a.trigger # "manual_restart" /\ InWindow(a, call[c].at)
        BY <1>3, <3>1 DEF Recent
      <4> QED BY <1>3, <3>1, <4>2, <4>3, <4>4
    <3>2. CASE i = n + 1
      BY <1>1, <1>2, <1>3, <1>4, <3>2 DEF Failures
    <3> QED BY <1>3, <3>1, <3>2
  <2>4. Failures(s, call[c].at) \subseteq 1..(n + 1) /\ Recent(c) \cup {n + 1} \subseteq 1..(n + 1)
    BY <1>3 DEF Failures, Recent
  <2>5. Failures(s, call[c].at) = Recent(c) \cup {n + 1}
    BY <2>3, <2>4
  <2>6. n + 1 \notin Recent(c)
    BY <1>3 DEF Recent
  <2>7. Cardinality(Recent(c) \cup {n + 1}) = Cardinality(Recent(c)) + 1
    BY <2>6, RecentFinite, FS_AddElement
  <2>8. Cardinality(Failures(s, s[Len(s)].at)) > policy.intensity
    BY <1>2, <1>3, <2>1, <2>5, <2>7, RecentFinite
  <2> QED BY <2>8 DEF Justified, s
<1>6. CASE ~allows_restart_after(call[c].trigger)
  <2>1. policy.restart = "temporary" \/ (policy.restart = "transient" /\ s[Len(s)].trigger = "deadline_breached")
    BY <1>1, <1>2, <1>3, <1>4, <1>6 DEF allows_restart_after, Triggers
  <2> QED BY <2>1 DEF Justified, s
<1> QED BY <1>5, <1>6

\* What a write of the record leaves of calls and ledger.
LEMMA UpdateMoves ==
  ASSUME IInv, NEW c \in Calls, UpdateAgent(c)
  PROVE  /\ UNCHANGED <<policy, journal, notices, mailbox, now, faults, serial, due, dropped>>
         /\ At(c, "update") /\ Holding(c) /\ Sighted(c) /\ ledger[c] = None
         /\ agent' = Updated(c)
         /\ DOMAIN call' = Calls /\ call' = [d \in Calls |-> call'[d]]
         /\ \A d \in Calls : d # c => call'[d] = call[d] /\ ledger'[d] = ledger[d]
         /\ \/ call'[c].pc = "ended" /\ call[c].decision = "suppressed"
            \/ /\ call'[c].pc = "get_journal" /\ call'[c].decision = call[c].decision
               /\ call[c].decision = "escalate" => call'[c].evidence = Updated(c).attempts
         /\ episode' = IF call[c].trigger = "manual_restart" THEN episode + 1 ELSE episode
         /\ ledger' \in [Calls -> Entry \cup {None}]
         /\ ledger'[c] # None
         /\ ledger'[c].decision = call[c].decision /\ ledger'[c].trigger = call[c].trigger
         /\ ledger'[c].at = call[c].at /\ ledger'[c].episode = episode
<1> DEFINE k == IF call[c].decision = "suppressed" THEN Ended
                ELSE [pc |-> "get_journal", decision |-> call[c].decision,
                      evidence |-> IF call[c].decision = "escalate" THEN Updated(c).attempts ELSE <<>>]
           entry == [decision |-> call[c].decision, trigger |-> call[c].trigger,
                     at |-> call[c].at, episode |-> episode]
<1>1. /\ UNCHANGED <<policy, journal, notices, mailbox, now, faults, serial, due, dropped>>
      /\ At(c, "update") /\ agent' = Updated(c)
      /\ call' = [call EXCEPT ![c] = k]
      /\ episode' = IF call[c].trigger = "manual_restart" THEN episode + 1 ELSE episode
      /\ ledger' = [ledger EXCEPT ![c] = entry]
  BY DEF UpdateAgent, IInv, Typed
<1>2. Holding(c) /\ Sighted(c) /\ ledger[c] = None
  BY <1>1 DEF IInv, Overlapping, Fine, Holding, At
<1>3. call[c].decision \in {"restart", "escalate", "suppressed"}
  BY <1>1, <1>2 DEF Sighted, HeldCall
<1>4. entry \in Entry
  BY <1>2, <1>3, SupervisionAssumption DEF Sighted, HeldCall, Entry, IInv, Typed
<1>5. entry # None
  BY <1>4, NoneAssumption, Zenon
<1>6. /\ entry.decision = call[c].decision /\ entry.trigger = call[c].trigger
      /\ entry.at = call[c].at /\ entry.episode = episode
  OBVIOUS
<1>7. \/ k.pc = "ended" /\ call[c].decision = "suppressed"
      \/ /\ k.pc = "get_journal" /\ k.decision = call[c].decision
         /\ call[c].decision = "escalate" => k.evidence = Updated(c).attempts
  BY DEF Ended
<1> HIDE DEF k, entry
<1>8. /\ DOMAIN call' = Calls /\ call' = [d \in Calls |-> call'[d]]
      /\ call'[c] = k /\ \A d \in Calls : d # c => call'[d] = call[d]
  BY <1>1, CallMoves DEF IInv
<1>9. /\ ledger' \in [Calls -> Entry \cup {None}] /\ ledger'[c] = entry
      /\ \A d \in Calls : d # c => ledger'[d] = ledger[d]
  BY <1>1, <1>4 DEF IInv, Typed
<1> QED BY <1>1, <1>2, <1>5, <1>6, <1>7, <1>8, <1>9

\* A restart by the policy leaves every period within the intensity.
LEMMA RestartTolerated ==
  ASSUME IInv, serial, NEW c \in Calls, UpdateAgent(c), policy # None
  PROVE  \A x \in 0..MaxNow :
           IsFiniteSet(RestartsIn(x)') /\ Cardinality(RestartsIn(x)') <= policy.intensity
<1>1. Alone /\ Sighted(c) /\ call[c].agent = agent /\ ledger[c] = None /\ policy' = policy
  BY UpdateMoves DEF IInv, Alone, Sole
<1>2. policy.intensity \in Nat /\ policy.period \in Nat
  BY SupervisionAssumption DEF IInv, Typed
<1>3. /\ ledger'[c] # None /\ ledger'[c].decision = call[c].decision
      /\ ledger'[c].trigger = call[c].trigger /\ ledger'[c].at = call[c].at
      /\ \A d \in Calls : d # c => ledger'[d] = ledger[d]
  BY UpdateMoves
<1> SUFFICES ASSUME NEW x \in 0..MaxNow
             PROVE  IsFiniteSet(RestartsIn(x)') /\ Cardinality(RestartsIn(x)') <= policy.intensity
  OBVIOUS
<1>4. IsFiniteSet(RestartsIn(x)) /\ Cardinality(RestartsIn(x)) <= policy.intensity
  BY <1>1 DEF Alone, Tolerated
<1>5. \A d \in Calls : d # c => (d \in RestartsIn(x)' <=> d \in RestartsIn(x))
  BY <1>1, <1>3 DEF RestartsIn, Decided
<1>6. c \notin RestartsIn(x)
  BY <1>1 DEF RestartsIn, Decided
<1>7. c \in RestartsIn(x)' <=>
        /\ call[c].decision = "restart" /\ call[c].trigger # "manual_restart"
        /\ call[c].at \in (x - policy.period)..x
  BY <1>1, <1>3 DEF RestartsIn, Decided
<1>8. RestartsIn(x)' \subseteq Calls /\ RestartsIn(x) \subseteq Calls
  BY DEF RestartsIn
<1>9. CASE c \notin RestartsIn(x)'
  <2>1. RestartsIn(x)' = RestartsIn(x)
    BY <1>5, <1>6, <1>8, <1>9
  <2> QED BY <1>4, <2>1
<1>10. CASE c \in RestartsIn(x)'
  <2> DEFINE by == [i \in Recent(c) |-> agent.attempts[i].by]
             whose == {by[i] : i \in Recent(c)}
  <2>1. Cardinality(Recent(c)) < policy.intensity
    <3>1. call[c].decision = decide(call[c].agent, call[c].trigger, call[c].at)
      BY <1>1 DEF Sighted
    <3>2. recent_failures(call[c].agent.attempts, call[c].at) < policy.intensity
      BY <1>7, <1>10, <3>1 DEF decide
    <3> QED BY <1>1, <3>2, RecentFinite
  <2>2. by \in Surjection(Recent(c), whose)
    BY DEF Surjection
  <2>3. IsFiniteSet(Recent(c)) /\ Cardinality(Recent(c)) \in Nat
    BY <1>1, RecentFinite
  <2>4. RestartsIn(x) \subseteq whose
    <3> SUFFICES ASSUME NEW d \in RestartsIn(x) PROVE d \in whose
      OBVIOUS
    <3>1. d \in Calls /\ Recorded(d) /\ ledger[d].trigger # "manual_restart"
          /\ ledger[d].at \in (x - policy.period)..x /\ ledger[d].at \in Nat
      <4>1. d \in Calls /\ ledger[d] # None
        BY DEF RestartsIn, Decided
      <4>2. ledger[d] \in Entry
        BY <4>1 DEF IInv, Typed
      <4> QED BY <4>2 DEF RestartsIn, Recorded, Entry
    <3>2. PICK i \in DOMAIN agent.attempts : agent.attempts[i].by = d
      BY <1>1, <3>1 DEF Alone, Remembered
    <3>3. agent.attempts[i].trigger = ledger[d].trigger /\ agent.attempts[i].at = ledger[d].at
      BY <1>1, <3>2 DEF Alone, Remembered, RemembersRightly
    <3>4. ledger[d].at + policy.period >= call[c].at
      <4>1. call[c].at \in Nat /\ x \in Nat
        BY <1>1, SupervisionAssumption DEF Sighted, HeldCall
      <4> QED BY <1>2, <1>7, <1>10, <3>1, <4>1
    <3>5. i \in Recent(c)
      BY <1>1, <3>1, <3>2, <3>3, <3>4 DEF Recent, InWindow
    <3> QED BY <3>2, <3>5
  <2> HIDE DEF whose, by
  <2>5. IsFiniteSet(whose) /\ Cardinality(whose) <= Cardinality(Recent(c))
    BY <2>2, <2>3, FS_Surjection
  <2>6. Cardinality(RestartsIn(x)) <= Cardinality(whose)
    BY <2>4, <2>5, FS_Subset
  <2>7. RestartsIn(x)' = RestartsIn(x) \cup {c}
    BY <1>5, <1>6, <1>8, <1>10
  <2>8. /\ IsFiniteSet(RestartsIn(x) \cup {c})
        /\ Cardinality(RestartsIn(x) \cup {c}) = Cardinality(RestartsIn(x)) + 1
    BY <1>4, <1>6, FS_AddElement
  <2>9. Cardinality(RestartsIn(x)) \in Nat /\ Cardinality(whose) \in Nat
    BY <1>4, <2>5, FS_CardinalityType
  <2> QED BY <1>2, <2>1, <2>3, <2>5, <2>6, <2>7, <2>8, <2>9
<1> QED BY <1>9, <1>10

\* The record and the decision are written.
LEMMA UpdateSteps ==
  ASSUME IInv, NEW c \in Calls, UpdateAgent(c)
  PROVE  IInv'
<1>1. /\ UNCHANGED <<policy, journal, notices, mailbox, now, faults, serial, due, dropped>>
      /\ At(c, "update") /\ Holding(c) /\ Sighted(c) /\ ledger[c] = None
      /\ agent' = Updated(c) /\ agent' \in AgentRecord
  BY UpdateMoves, UpdatedAs
<1>2. /\ DOMAIN call' = Calls /\ call' = [d \in Calls |-> call'[d]]
      /\ \A d \in Calls : d # c => call'[d] = call[d] /\ ledger'[d] = ledger[d]
      /\ call'[c].pc \in {"ended", "get_journal"}
  BY UpdateMoves
<1>3. Escalating(c)' <=> call[c].decision = "escalate"
  BY UpdateMoves DEF Escalating, At
<1>4. /\ ledger'[c] # None /\ ledger'[c].decision = call[c].decision
      /\ ledger'[c].trigger = call[c].trigger /\ ledger'[c].at = call[c].at
      /\ ledger'[c].episode = episode
      /\ ledger' \in [Calls -> Entry \cup {None}]
  BY UpdateMoves
<1>5. /\ episode' = IF call[c].trigger = "manual_restart" THEN episode + 1 ELSE episode
      /\ episode \in Nat /\ episode' \in Nat /\ episode <= episode'
  BY UpdateMoves DEF IInv, Typed
<1>6. call[c].decision = "escalate" => call'[c].evidence = Grown(c) /\ agent'.attempts = Grown(c)
  BY <1>1, UpdateMoves, UpdatedAs
<1>7. /\ Grown(c) \in Seq(Attempt) /\ Grown(c) # <<>>
      /\ DOMAIN Grown(c) = 1..Len(Grown(c)) /\ Len(Grown(c)) \in Nat /\ Len(Grown(c)) >= 1
      /\ Grown(c)[Len(Grown(c))].by = c /\ Grown(c)[Len(Grown(c))].trigger = call[c].trigger
      /\ Grown(c)[Len(Grown(c))].at = call[c].at
      /\ \A i \in DOMAIN Grown(c) : i = Len(Grown(c)) \/ (i \in DOMAIN call[c].agent.attempts
                                                          /\ Grown(c)[i] = call[c].agent.attempts[i])
      /\ \A i \in DOMAIN call[c].agent.attempts : i \in DOMAIN Grown(c) /\ i < Len(Grown(c))
                                                  /\ Grown(c)[i] = call[c].agent.attempts[i]
      /\ Len(call[c].agent.attempts) \in Nat /\ Len(call[c].agent.attempts) <= Len(Grown(c))
      /\ DOMAIN call[c].agent.attempts = 1..Len(call[c].agent.attempts)
  <2> DEFINE s == call[c].agent.attempts
             n == Len(s)
             g == Grown(c)
  <2>1. /\ g \in Seq(Attempt) /\ n \in Nat /\ DOMAIN s = 1..n
        /\ Len(g) = n + 1 /\ DOMAIN g = 1..(n + 1)
        /\ \A i \in 1..n : g[i] = s[i]
        /\ g[n + 1].by = c /\ g[n + 1].trigger = call[c].trigger /\ g[n + 1].at = call[c].at
    BY <1>1, GrownAs
  <2> HIDE DEF s, n, g
  <2>2. g # <<>>
    BY <2>1, EmptySeq
  <2>3. /\ \A i \in 1..(n + 1) : i = n + 1 \/ i \in 1..n
        /\ \A i \in 1..n : i \in 1..(n + 1) /\ i < n + 1
    BY <2>1
  <2>4. /\ g \in Seq(Attempt) /\ g # <<>>
        /\ DOMAIN g = 1..Len(g) /\ Len(g) \in Nat /\ Len(g) >= 1
        /\ g[Len(g)].by = c /\ g[Len(g)].trigger = call[c].trigger /\ g[Len(g)].at = call[c].at
        /\ \A i \in DOMAIN g : i = Len(g) \/ (i \in DOMAIN s /\ g[i] = s[i])
        /\ \A i \in DOMAIN s : i \in DOMAIN g /\ i < Len(g) /\ g[i] = s[i]
        /\ n \in Nat /\ n <= Len(g) /\ DOMAIN s = 1..n
    BY <2>1, <2>2, <2>3
  <2> QED BY <2>4 DEF s, n, g
<1>8. /\ agent'.attempts = call[c].agent.attempts \/ agent'.attempts = Grown(c)
      /\ call[c].decision # "suppressed" => agent'.attempts = Grown(c)
      /\ call[c].decision = "suppressed" => agent'.attempts = call[c].agent.attempts
  BY <1>1, UpdatedAs
<1>9. Overlapping'
  <2>1. ASSUME NEW d \in Calls, d # c PROVE Fine(d)'
    BY <1>1, <1>2, <1>5, <2>1, SupervisionAssumption, FineKept DEF IInv, Overlapping, Typed
  <2>2. ASSUME Escalating(c)' PROVE Evident(c, call[c].evidence)'
    <3>1. PICK e : e = Grown(c)
      OBVIOUS
    <3>2. Evident(c, e)
      BY <1>1, <1>3, <1>7, <2>2, <3>1, EscalationJustified DEF Evident, IInv
    <3>3. Evident(c, e)'
      BY <1>1, <3>2, EvidentKept
    <3> QED BY <1>3, <1>6, <2>2, <3>1, <3>3
  <2>3. Fine(c)'
    BY <1>2, <1>4, <1>5, <2>2 DEF Fine, Stages, Holding, At
  <2>4. ASSUME NEW n \in notices PROVE Noticed(n)'
    <3>1. Noticed(n) /\ n.by # c
      BY <1>1 DEF IInv, Overlapping, Noticed, At
    <3>2. Evident(n.by, n.evidence)'
      BY <1>1, <3>1, EvidentKept DEF Noticed
    <3> QED BY <1>2, <3>1, <3>2 DEF Noticed, At
  <2>5. Past(agent.attempts, now)'
    <3>1. call[c].agent.attempts \in Seq(Attempt) /\ call[c].at \in Nat /\ now \in Nat /\ call[c].at <= now
      BY <1>1, SupervisionAssumption DEF Sighted, HeldCall, AgentRecord, IInv, Typed
    <3>2. \A i \in DOMAIN call[c].agent.attempts : call[c].agent.attempts[i].at \in Nat
                                                   /\ call[c].agent.attempts[i].at <= call[c].at
      BY <1>1, <3>1, AttemptTyped, SupervisionAssumption DEF Sighted, Past
    <3>3. \A i \in DOMAIN agent'.attempts : agent'.attempts[i].at <= now
      <4>1. CASE agent'.attempts = call[c].agent.attempts
        BY <3>1, <3>2, <4>1
      <4>2. CASE agent'.attempts = Grown(c)
        BY <1>7, <3>1, <3>2, <4>2
      <4> QED BY <1>8, <4>1, <4>2
    <3> QED BY <1>1, <3>3 DEF Past
  <2> QED BY <1>1, <2>1, <2>3, <2>4, <2>5 DEF Overlapping
<1>10. Typed' /\ Outstanding'
  <2>1. Typed'
    BY <1>1, <1>2, <1>4, <1>5 DEF IInv, Typed
  <2>2. Outstanding'
    BY <1>1, <1>2, SameMailbox, OutstandingKept DEF IInv, Typed, At
  <2> QED BY <2>1, <2>2
<1>11. ASSUME serial' PROVE Alone'
  <2>1. Alone /\ serial /\ call[c].agent = agent /\ \A d \in Calls : Holding(d) => d = c
    BY <1>1, <1>11 DEF IInv, Alone, Sole
  <2>2. \A d \in Calls : ~Holding(d)'
    BY <1>2, <2>1 DEF Holding
  <2>3. \A d \in Calls : ledger[d] # None => ledger[d].episode \in Nat /\ ledger[d].episode <= episode
    BY DEF IInv, Overlapping, Fine, Typed, Entry
  <2>4. Latches'
    <3>1. CASE call[c].trigger = "manual_restart"
      <4>1. \A d \in Calls : ledger'[d] # None => ledger'[d].episode # episode'
        BY <1>2, <1>4, <1>5, <2>3, <3>1
      <4> QED BY <4>1 DEF Latches, Decided, BreachBy
    <3>2. CASE call[c].trigger # "manual_restart"
      <4>1. /\ episode' = episode
            /\ agent'.deadline_breached = agent.deadline_breached
            /\ call[c].decision = "escalate" \/ agent.escalated => agent'.escalated
        BY <1>1, <1>5, <2>1, <3>2, UpdatedAs
      <4>2. call[c].trigger = "deadline_breached" => agent.deadline_breached
        BY <1>1, <2>1 DEF Sighted, At
      <4>3. \A d \in Calls : Decided(d, "escalate")' /\ ledger'[d].episode = episode' => agent'.escalated
        BY <1>2, <1>4, <2>1, <4>1 DEF Alone, Latches, Decided
      <4>4. \A d \in Calls : BreachBy(d)' => agent'.deadline_breached
        BY <1>2, <1>4, <2>1, <4>1, <4>2 DEF Alone, Latches, BreachBy
      <4> QED BY <2>2, <4>3, <4>4 DEF Latches
    <3> QED BY <3>1, <3>2
  <2>5. Unique'
    <3>1. ASSUME NEW d \in Calls, d # c, call[c].decision = "escalate", Decided(d, "escalate")
          PROVE  ledger[d].episode # episode
      <4>1. ~call[c].agent.escalated
        BY <1>1, <3>1 DEF Sighted, decide
      <4> QED BY <2>1, <3>1, <4>1 DEF Alone, Latches
    <3>2. ASSUME NEW d \in Calls, d # c, call[c].trigger = "deadline_breached",
                 ledger[d] # None, ledger[d].trigger = "deadline_breached"
          PROVE  ledger[d].episode # episode
      BY <1>1, <2>1, <3>2 DEF Alone, Latches, BreachBy
    <3>3. \A d, e \in Calls : Decided(d, "escalate")' /\ Decided(e, "escalate")' => ~Same(d, e)'
      BY <1>2, <1>4, <2>1, <3>1 DEF Alone, Unique, Decided, Same
    <3>4. \A d, e \in Calls :
            /\ ledger'[d] # None /\ ledger'[e] # None
            /\ ledger'[d].trigger = "deadline_breached" /\ ledger'[e].trigger = "deadline_breached"
            => ~Same(d, e)'
      BY <1>2, <1>4, <2>1, <3>2 DEF Alone, Unique, Same
    <3> QED BY <3>3, <3>4 DEF Unique
  <2>6. Remembered'
    <3>1. Recorded(c)' <=> call[c].decision # "suppressed"
      <4>1. call[c].decision \in {"restart", "escalate", "suppressed"}
        BY <1>1 DEF Sighted, HeldCall
      <4> QED BY <1>4, <4>1 DEF Recorded, Decided
    <3>2. \A d \in Calls : d # c => (Recorded(d)' <=> Recorded(d))
      BY <1>2 DEF Recorded, Decided
    <3>3. ~Recorded(c)
      BY <1>1 DEF Recorded, Decided
    <3>4. agent.attempts \in Seq(Attempt)
      BY DEF IInv, Typed, AgentRecord
    <3>5. ASSUME NEW i \in DOMAIN agent.attempts
          PROVE  /\ agent.attempts[i].by \in Calls /\ agent.attempts[i].by # c
                 /\ Recorded(agent.attempts[i].by)
                 /\ ledger[agent.attempts[i].by].trigger = agent.attempts[i].trigger
                 /\ ledger[agent.attempts[i].by].at = agent.attempts[i].at
      BY <2>1, <3>3, <3>4, AttemptTyped DEF Alone, Remembered, RemembersRightly
    <3>6. ASSUME NEW i \in DOMAIN agent'.attempts
          PROVE  RemembersRightly(i)'
      <4>1. CASE i \in DOMAIN agent.attempts /\ agent'.attempts[i] = agent.attempts[i]
        <5>1. PICK d \in Calls : d = agent.attempts[i].by
          BY <3>5, <4>1
        <5>2. d # c /\ Recorded(d)' /\ ledger'[d].trigger = agent.attempts[i].trigger /\ ledger'[d].at = agent.attempts[i].at
          BY <1>2, <3>2, <3>5, <4>1, <5>1
        <5> QED BY <4>1, <5>1, <5>2 DEF RemembersRightly, Recorded, Decided
      <4>2. CASE call[c].decision # "suppressed" /\ i = Len(Grown(c)) /\ agent'.attempts[i] = Grown(c)[i]
        BY <1>4, <1>7, <3>1, <4>2 DEF RemembersRightly, Recorded, Decided
      <4> QED BY <1>7, <1>8, <2>1, <3>6, <4>1, <4>2
    <3>7. ASSUME NEW d \in Calls, Recorded(d)'
          PROVE  \E i \in DOMAIN agent'.attempts : agent'.attempts[i].by = d
      <4>1. CASE d = c
        BY <1>7, <1>8, <3>1, <3>7, <4>1
      <4>2. CASE d # c
        <5>1. PICK i \in DOMAIN agent.attempts : agent.attempts[i].by = d
          BY <2>1, <3>2, <3>7, <4>2 DEF Alone, Remembered
        <5> QED BY <1>7, <1>8, <2>1, <5>1
      <4> QED BY <4>1, <4>2
    <3> QED BY <3>6, <3>7 DEF Remembered
  <2>7. Delivered'
    <3>1. \A d \in Calls, e \in Seq(Attempt) : e # <<>> /\ Placed(d, e) => Placed(d, e)'
      <4> SUFFICES ASSUME NEW d \in Calls, NEW e \in Seq(Attempt), e # <<>>, Placed(d, e)
                   PROVE  Placed(d, e)'
        OBVIOUS
      <4>1. Len(e) \in Nat /\ Len(e) >= 1
        BY EmptySeq, LenProperties
      <4> QED BY <1>7, <1>8, <2>1, <4>1 DEF Placed
    <3>2. ASSUME NEW d \in Calls, d # c, Escalating(d)' PROVE Placed(d, call[d].evidence)'
      <4>1. Escalating(d) /\ call'[d] = call[d]
        BY <1>2, <3>2 DEF Escalating, At
      <4>2. PICK e : e = call[d].evidence
        OBVIOUS
      <4>3. e \in Seq(Attempt) /\ e # <<>> /\ Placed(d, e)
        BY <2>1, <4>1, <4>2 DEF Alone, Delivered, IInv, Overlapping, Fine, Evident
      <4>4. Placed(d, e)'
        BY <3>1, <4>3
      <4> QED BY <4>1, <4>2, <4>4
    <3>3. ASSUME Escalating(c)' PROVE Placed(c, call[c].evidence)'
      BY <1>3, <1>6, <1>7, <3>3 DEF Placed
    <3>4. ASSUME NEW n \in notices PROVE Placed(n.by, n.evidence)'
      <4>1. n.by \in Calls /\ n.evidence \in Seq(Attempt) /\ n.evidence # <<>> /\ Placed(n.by, n.evidence)
        BY <2>1 DEF Alone, Delivered, IInv, Overlapping, Noticed, Evident
      <4> QED BY <3>1, <4>1
    <3> QED BY <1>1, <2>1, <3>2, <3>3, <3>4 DEF Alone, Delivered
  <2>8. Tolerated'
    <3>1. policy # None => \A x \in 0..MaxNow :
            IsFiniteSet(RestartsIn(x)') /\ Cardinality(RestartsIn(x)') <= policy.intensity
      BY <2>1, RestartTolerated
    <3> QED BY <1>1, <3>1 DEF Tolerated
  <2> QED BY <2>2, <2>4, <2>5, <2>6, <2>7, <2>8 DEF Alone, Sole
<1> QED BY <1>9, <1>10, <1>11 DEF IInv

-----------------------------------------------------------------------------
(* The theorems. *)

LEMMA StepHolds ==
  ASSUME IInv, [Next]_vars
  PROVE  IInv'
<1>1. CASE Next
  <2>1. CASE (\E m \in Messages : SendMessage(m) \/ SettleTurn(m)) \/ ClaimTurn \/ Tick
    BY <2>1, MailboxSteps
  <2>2. ASSUME NEW c \in Calls,
               (\E m \in Messages : FailTurn(c, m)) \/ cancel_agent(c) \/ JournalRead(c) \/ JournalWrite(c)
        PROVE  IInv'
    BY <2>2, RequestSteps
  <2>3. ASSUME NEW c \in Calls, SuperviseTurn(c) \/ restart_agent(c) \/ BreachSeen(c) PROVE IInv'
    BY <2>3, ReadSteps
  <2>4. ASSUME NEW c \in Calls, BreachLatch(c) \/ BreachCancel(c) \/ UpdateAgent(c) \/ deliver_escalation(c)
        PROVE  IInv'
    BY <2>4, LatchSteps, BreachCancelSteps, UpdateSteps, DeliverSteps
  <2>5. CASE (\E c \in Calls : CallDies(c)) \/ Crash
    BY <2>5, FaultSteps
  <2> QED BY <1>1, <2>1, <2>2, <2>3, <2>4, <2>5 DEF Next
<1>2. CASE UNCHANGED vars
  <2>1. UNCHANGED <<policy, agent, journal, notices, mailbox, call, now, faults,
                    episode, serial, ledger, due, dropped>>
    BY <1>2 DEF vars
  <2>2. Typed' /\ Outstanding'
    BY <2>1, SameMailbox, OutstandingKept DEF IInv, Typed, At
  <2>3. Overlapping' /\ (serial' => Alone')
    BY <2>1, QuietKept, SupervisionAssumption DEF Quiet, IInv, Typed
  <2> QED BY <2>2, <2>3 DEF IInv
<1> QED BY <1>1, <1>2

LEMMA InvAlways == Spec => []IInv
BY InitHolds, StepHolds, PTL DEF Spec

\* The types, as the runs state them.
LEMMA InvTyped ==
  ASSUME IInv
  PROVE  SupervisionTypeOK
<1>1. agent.attempts \in Seq(Attempt)
  BY DEF IInv, Typed, AgentRecord
<1>2. agent.escalated \in BOOLEAN /\ agent.deadline_breached \in BOOLEAN /\ agent.suppressed \in BOOLEAN
  BY DEF IInv, Typed, AgentRecord
<1>3. {agent.escalated, agent.deadline_breached, agent.suppressed} \subseteq BOOLEAN
  BY <1>2, Zenon
<1>4. mailbox \in [Messages -> [status : {"none", "queued", "leased", "over"}, signalled : BOOLEAN]]
  BY DEF IInv, Typed, Message
<1>5. \A n \in notices : n.evidence \in Seq(Attempt) /\ n.key = Len(n.evidence)
  BY DEF IInv, Overlapping, Noticed, Evident
<1> QED BY <1>1, <1>3, <1>4, <1>5 DEF SupervisionTypeOK, IInv, Typed

\* For any policy, deadline, number of requests and faults: unless requests overlap, an
\* episode escalates once and handles one breach, no escalation is taken for the
\* repetition of another, and the history holds every decision (supervise,
\* on_deadline_breach, deliver_escalation).
THEOREM EscalationOnce == Spec => []OncePerEpisode
<1>1. IInv => OncePerEpisode
  <2> SUFFICES ASSUME IInv, serial
               PROVE  /\ \A c, d \in Calls :
                           Decided(c, "escalate") /\ Decided(d, "escalate") => ~Same(c, d)
                      /\ \A c, d \in Calls :
                           /\ ledger[c] # None /\ ledger[d] # None
                           /\ {ledger[c].trigger, ledger[d].trigger} = {"deadline_breached"}
                           => ~Same(c, d)
                      /\ dropped = {}
                      /\ {agent.attempts[i].by : i \in DOMAIN agent.attempts} =
                           {c \in Calls : Decided(c, "restart") \/ Decided(c, "escalate")}
    BY InvTyped DEF OncePerEpisode
  <2>1. Unique /\ Remembered /\ Delivered
    BY DEF IInv, Alone
  <2>2. \A i \in DOMAIN agent.attempts : agent.attempts[i].by \in Calls
    <3>1. agent.attempts \in Seq(Attempt)
      BY DEF IInv, Typed, AgentRecord
    <3> QED BY <3>1, AttemptTyped
  <2>3. {agent.attempts[i].by : i \in DOMAIN agent.attempts} =
          {c \in Calls : Decided(c, "restart") \/ Decided(c, "escalate")}
    BY <2>1, <2>2 DEF Remembered, RemembersRightly, Recorded
  <2>4. \A c, d \in Calls : {ledger[c].trigger, ledger[d].trigger} = {"deadline_breached"} =>
          ledger[c].trigger = "deadline_breached" /\ ledger[d].trigger = "deadline_breached"
    OBVIOUS
  <2> QED BY <2>1, <2>3, <2>4 DEF Unique, Delivered
<1> QED BY <1>1, InvAlways, PTL

\* For any intensity and period, the edges included: unless requests overlap, no period
\* has more restarts by the policy than it tolerates, and, overlapping or not, every
\* notice carries the evidence that the budget was spent (decide, supervise).
THEOREM BudgetKept == Spec => []BudgetExact
<1>1. IInv => BudgetExact
  <2> SUFFICES ASSUME IInv, policy # None PROVE BudgetExact
    BY DEF BudgetExact
  <2>1. ASSUME serial, NEW c \in Calls, Decided(c, "restart")
        PROVE  Cardinality({d \in Calls :
                 /\ Decided(d, "restart") /\ ledger[d].trigger # "manual_restart"
                 /\ ledger[d].at \in (ledger[c].at - policy.period)..ledger[c].at}) <= policy.intensity
    <3>1. PICK x : x = ledger[c].at
      OBVIOUS
    <3>2. x \in 0..MaxNow
      <4>1. Remembered /\ agent.attempts \in Seq(Attempt)
        BY <2>1 DEF IInv, Alone, Typed, AgentRecord
      <4>2. PICK i \in DOMAIN agent.attempts : agent.attempts[i].by = c
        BY <2>1, <4>1 DEF Remembered, Recorded
      <4>3. ledger[c].at = agent.attempts[i].at
        BY <4>1, <4>2 DEF Remembered, RemembersRightly
      <4> QED BY <3>1, <4>1, <4>3, AttemptTyped
    <3>3. Cardinality(RestartsIn(x)) <= policy.intensity
      BY <2>1, <3>2 DEF IInv, Alone, Tolerated
    <3> QED BY <3>1, <3>3 DEF RestartsIn
  <2>2. ASSUME NEW n \in notices
        PROVE  LET last == Last(n.evidence)
               IN \/ Cardinality(Failures(n.evidence, last.at)) > policy.intensity
                  \/ policy.restart = "temporary"
                  \/ policy.restart = "transient" /\ last.trigger = "deadline_breached"
    BY DEF IInv, Overlapping, Noticed, Evident, Justified, Last
  <2> QED BY <2>1, <2>2 DEF BudgetExact
<1> QED BY <1>1, InvAlways, PTL

\* Without faults, whatever overlaps: once no claim is between the latch and the
\* cancellation, every message outstanding at a latched breach is over or told, for any
\* number of messages and claims (on_deadline_breach, cancel_agent_tasks).
THEOREM BreachReaches == Spec => []BreachLands
<1>1. IInv => BreachLands
  BY DEF IInv, Outstanding, BreachLands
<1> QED BY <1>1, InvAlways, PTL
=============================================================================
