------------------------------ MODULE Journal ------------------------------
(***************************************************************************)
(* The A019 evidence journal of companion_mind/journal/store.py: one       *)
(* process owns the store (flock), every change is one SQLite transaction, *)
(* and a process exit or an IO error may fall between any two of them.     *)
(*                                                                         *)
(* One action is one committed transaction (or one return).  The variables *)
(* are the tables that survive an exit, then the open handle, which does   *)
(* not, then what the outside world has seen.                              *)
(***************************************************************************)
EXTENDS Integers, Sequences, FiniteSets

CONSTANTS
    Ids,        \* event ids
    Sessions,   \* session ids
    Seqs,       \* per-session sequence numbers
    CorrIds,    \* correction ids
    Contents,   \* sanitized contents of submitted events
    Attempts,   \* attempt ids
    Events,     \* the events callers submit to append / ingest / correct
    Calls,      \* the calls callers make of append_user_then_invoke_stub
    None,       \* SQL NULL
    MaxFaults   \* bound on exits, IO errors and interrupts per behaviour

Fragment == {"blank", "text", "bulk"}
Outcome  == {"complete", "partial", "failed"}
Status   == {"complete", "partial", "failed"}
External == {"NOT_SENT", "UNKNOWN", "SUCCESS", "FAILED"}
Phase    == {"absent", "USER_DURABLE", "PROVIDER_INTENT", "STREAMING",
             "TERMINAL_PENDING", "TERMINAL_COMMITTED"}

\* What _terminalize writes into the reserved template.
TerminalBody == [status : Status, text : Seq(Fragment), external : External,
                 evidence : {"OBSERVED", "RECOVERY_INTERRUPTED"}]

Event == [id : Ids, session : Sessions, seq : Seqs, corrects : Ids \cup {None},
          corrId : CorrIds \cup {None}, body : Contents \cup TerminalBody]

Call == [attempt : Attempts, user : Event, reply : Event,
         frames : Seq(Fragment), outcome : Outcome]

\* The contract append_user_then_invoke_stub demands of a call's two events.
ContractHolds(c) ==
    /\ c.reply.session = c.user.session
    /\ c.reply.seq > c.user.seq
    /\ c.reply.id # c.user.id
    /\ c.reply.corrects = None
    /\ c.reply.corrId = None

ASSUME JournalAssumption ==
    /\ Seqs \subseteq Int
    /\ MaxFaults \in Nat
    /\ Events \subseteq Event
    /\ Calls \subseteq Call
    /\ \A c \in Calls : ContractHolds(c)
    /\ None \notin Attempts

VARIABLES
    log,       \* canonical_event_log, in journal_offset order
    rows,      \* turn_attempt_control, in rowid order: attempt ids
    bound,     \* the call whose signature an attempt's row carries
    phase,     \* turn_attempt_control.phase
    external,  \* turn_attempt_control.external_outcome
    pending,   \* turn_attempt_control.pending_kind
    spool,     \* assistant_spool fragments of an attempt, by frame_no
    clean,     \* store_meta.clean_shutdown
    pc,        \* where the one open handle is
    cur,       \* the attempt of the running call
    cursor,    \* the control row recovery looks at next
    receipts,  \* every durable-append receipt handed out
    invoked,   \* how often the provider boundary was entered for an attempt
    faults     \* exits, IO errors and interrupts so far

control == <<rows, bound, phase, external, pending, spool>>
durable == <<log, control, clean>>
handle  == <<pc, cur, cursor>>
vars    == <<durable, handle, receipts, invoked, faults>>

Running == {"accepted", "intent", "streaming", "observed"}
PC == Running \cup {"closed", "recovering", "ready", "broken"}

TypeOK ==
    /\ log \in Seq(Event)
    /\ rows \in Seq(Attempts)
    /\ bound \in [Attempts -> Calls \cup {None}]
    /\ phase \in [Attempts -> Phase]
    /\ external \in [Attempts -> External]
    /\ pending \in [Attempts -> Outcome \cup {None}]
    /\ spool \in [Attempts -> Seq(Fragment)]
    /\ clean \in {"0", "1"}
    /\ pc \in PC
    /\ cur \in Attempts \cup {None}
    /\ cursor \in Nat
    /\ receipts \subseteq [offset : Nat, event : Event]
    /\ invoked \in [Attempts -> Nat]
    /\ faults \in Nat

Init ==
    /\ log = <<>>
    /\ rows = <<>>
    /\ bound = [a \in Attempts |-> None]
    /\ phase = [a \in Attempts |-> "absent"]
    /\ external = [a \in Attempts |-> "NOT_SENT"]
    /\ pending = [a \in Attempts |-> None]
    /\ spool = [a \in Attempts |-> <<>>]
    /\ clean = "0"
    /\ pc = "closed"
    /\ cur = None
    /\ cursor = 0
    /\ receipts = {}
    /\ invoked = [a \in Attempts |-> 0]
    /\ faults = 0

----------------------------------------------------------------------------
\* Queries over the tables.

Stored == {log[i] : i \in DOMAIN log}
SameSlot(e, f) == e.session = f.session /\ e.seq = f.seq
Clash(e, f) == e.id = f.id \/ SameSlot(e, f)

\* Slips, here and below: the definition that follows as a plausible bug
\* would have it.  No action uses them; each breaks a property (README).
ReserversIgnored(e, me) == {}
ReserversWithSelf(e, me) ==
    {a \in Attempts : phase[a] # "absent" /\ Clash(e, bound[a].reply)}

\* Attempts other than me whose control row reserves e's id or slot.
Reservers(e, me) ==
    {a \in Attempts \ {me} : phase[a] # "absent" /\ Clash(e, bound[a].reply)}

AdmissibleByIdOnly(e, me) ==
    /\ \A f \in Stored : e.id # f.id
    /\ Reservers(e, me) = {}

\* The checks of _append_tx on an event whose id is not in the log yet.
Admissible(e, me) ==
    /\ \A f \in Stored : ~Clash(e, f)
    /\ Reservers(e, me) = {}
    /\ e.corrects # None =>
          /\ \E f \in Stored : f.id = e.corrects
          /\ \A f \in Stored : f.corrId # e.corrId

Receipt(l, e) == {[offset |-> i, event |-> l[i]] : i \in {j \in DOMAIN l : l[j] = e}}

\* Concatenated spool text: is anything visible, does the event still fit?
Visible(text)  == \E i \in DOMAIN text : text[i] # "blank"
TooLarge(text) == \E i \in DOMAIN text : text[i] = "bulk"

\* The event _terminalize builds; kind is None when recovery interrupts.
TerminalEvent(a, kind) ==
    [bound[a].reply EXCEPT !.body =
        [status   |-> IF ~Visible(spool[a]) THEN "failed"
                      ELSE IF kind = None THEN "partial" ELSE kind,
         text     |-> spool[a],
         external |-> external[a],
         evidence |-> IF kind = None THEN "RECOVERY_INTERRUPTED" ELSE "OBSERVED"]]

\* Fault accounting of a transaction: it either returns, or its commit stands
\* but the directory sync fails and the handle is lost.
Outcomes(synced, next, lost) ==
    /\ pc' = IF synced THEN next ELSE lost
    /\ ~synced => faults < MaxFaults
    /\ faults' = IF synced THEN faults ELSE faults + 1

----------------------------------------------------------------------------
\* Opening the store: constructor and local recovery.

\* First recovery transaction: clear the clean-shutdown marker.
Open(synced) ==
    /\ pc = "closed"
    /\ Outcomes(synced, "recovering", "closed")
    /\ clean' = "0"
    /\ cursor' = 1
    /\ cur' = None
    /\ UNCHANGED <<log, control, receipts, invoked>>

RecoverSkipsUnanswered ==
    /\ pc = "recovering"
    /\ cursor \in DOMAIN rows
    /\ phase[rows[cursor]] \in {"TERMINAL_COMMITTED", "USER_DURABLE", "PROVIDER_INTENT"}
    /\ cursor' = cursor + 1
    /\ UNCHANGED <<durable, pc, cur, receipts, invoked, faults>>

\* A row recovery leaves alone: terminal already, or never sent.
RecoverSkip ==
    /\ pc = "recovering"
    /\ cursor \in DOMAIN rows
    /\ phase[rows[cursor]] \in {"TERMINAL_COMMITTED", "USER_DURABLE"}
    /\ cursor' = cursor + 1
    /\ UNCHANGED <<durable, pc, cur, receipts, invoked, faults>>

RecoveryKindPresumed(a) == bound[a].outcome
RecoveryKind(a) == IF phase[a] = "TERMINAL_PENDING" THEN pending[a] ELSE None

InFlight(a) == phase[a] \in {"PROVIDER_INTENT", "STREAMING", "TERMINAL_PENDING"}

\* _terminalize's transaction: terminal event, outbox row and closed attempt.
CommitTerminal(a, kind) ==
    LET e == TerminalEvent(a, kind) IN
    /\ ~TooLarge(spool[a])
    /\ Admissible(e, a)
    /\ log' = Append(log, e)
    /\ phase' = [phase EXCEPT ![a] = "TERMINAL_COMMITTED"]
    /\ UNCHANGED <<rows, bound, external, pending, spool, clean, invoked>>

RecoverTerminalize(synced) ==
    /\ pc = "recovering"
    /\ cursor \in DOMAIN rows
    /\ LET a == rows[cursor] IN
          /\ InFlight(a)
          /\ CommitTerminal(a, RecoveryKind(a))
          /\ receipts' = IF synced
                         THEN receipts \cup Receipt(log', TerminalEvent(a, RecoveryKind(a)))
                         ELSE receipts
    /\ Outcomes(synced, "recovering", "closed")
    /\ cursor' = cursor + 1
    /\ UNCHANGED cur

\* The terminal event is refused: the constructor raises and closes.
RecoverRefused ==
    /\ pc = "recovering"
    /\ cursor \in DOMAIN rows
    /\ LET a == rows[cursor] IN
          /\ InFlight(a)
          /\ TooLarge(spool[a]) \/ ~Admissible(TerminalEvent(a, RecoveryKind(a)), a)
    /\ pc' = "closed"
    /\ UNCHANGED <<durable, cur, cursor, receipts, invoked, faults>>

RecoverDone ==
    /\ pc = "recovering"
    /\ cursor > Len(rows)
    /\ pc' = "ready"
    /\ UNCHANGED <<durable, cur, cursor, receipts, invoked, faults>>

----------------------------------------------------------------------------
\* append / ingest / correct.

AppendEvent(e, synced) ==
    /\ pc = "ready"
    /\ Admissible(e, None)
    /\ log' = Append(log, e)
    /\ receipts' = IF synced THEN receipts \cup Receipt(log', e) ELSE receipts
    /\ Outcomes(synced, "ready", "broken")
    /\ UNCHANGED <<control, clean, cur, cursor, invoked>>

\* The same id with the same fingerprint: the original receipt again.
AppendAgain(e) ==
    /\ pc = "ready"
    /\ e \in Stored
    /\ receipts' = receipts \cup Receipt(log, e)
    /\ UNCHANGED <<durable, handle, invoked, faults>>

----------------------------------------------------------------------------
\* append_user_then_invoke_stub, one transaction at a time.

BeginIgnoresReservers(c, synced) ==
    /\ pc = "ready"
    /\ phase[c.attempt] = "absent"
    /\ c.user \in Stored \/ Admissible(c.user, None)
    /\ \A f \in Stored : ~Clash(c.reply, f)
    /\ log' = IF c.user \in Stored THEN log ELSE Append(log, c.user)
    /\ rows' = Append(rows, c.attempt)
    /\ bound' = [bound EXCEPT ![c.attempt] = c]
    /\ phase' = [phase EXCEPT ![c.attempt] = "USER_DURABLE"]
    /\ cur' = c.attempt
    /\ Outcomes(synced, "accepted", "broken")
    /\ UNCHANGED <<external, pending, spool, clean, cursor, receipts, invoked>>

\* USER, outbox and control row in one transaction.  A USER already in the
\* log is not appended again, but the reply's id and slot must be free of
\* the log, USER included, and of every control row.
BeginAttempt(c, synced) ==
    /\ pc = "ready"
    /\ phase[c.attempt] = "absent"
    /\ \/ /\ c.user \in Stored
          /\ log' = log
       \/ /\ Admissible(c.user, None)
          /\ log' = Append(log, c.user)
    /\ \A f \in Stored : ~Clash(c.reply, f)
    /\ Reservers(c.reply, None) = {}
    /\ rows' = Append(rows, c.attempt)
    /\ bound' = [bound EXCEPT ![c.attempt] = c]
    /\ phase' = [phase EXCEPT ![c.attempt] = "USER_DURABLE"]
    /\ cur' = c.attempt
    /\ Outcomes(synced, "accepted", "broken")
    /\ UNCHANGED <<external, pending, spool, clean, cursor, receipts, invoked>>

ResumeAnyOpenAttempt(c) ==
    /\ pc = "ready"
    /\ bound[c.attempt] = c
    /\ phase[c.attempt] # "TERMINAL_COMMITTED"
    /\ pc' = "accepted"
    /\ cur' = c.attempt
    /\ UNCHANGED <<durable, cursor, receipts, invoked, faults>>

\* The identical call of an attempt whose boundary was not entered.
ResumeAttempt(c) ==
    /\ pc = "ready"
    /\ bound[c.attempt] = c
    /\ phase[c.attempt] = "USER_DURABLE"
    /\ pc' = "accepted"
    /\ cur' = c.attempt
    /\ UNCHANGED <<durable, cursor, receipts, invoked, faults>>

\* The identical call of a closed attempt: its receipt, no invocation.
ReplayAttempt(c) ==
    /\ pc = "ready"
    /\ bound[c.attempt] = c
    /\ phase[c.attempt] = "TERMINAL_COMMITTED"
    /\ receipts' = receipts \cup
          {[offset |-> i, event |-> log[i]] : i \in {j \in DOMAIN log : log[j].id = c.reply.id}}
    /\ UNCHANGED <<durable, handle, invoked, faults>>

RecordIntent(synced) ==
    /\ pc = "accepted"
    /\ phase' = [phase EXCEPT ![cur] = "PROVIDER_INTENT"]
    /\ external' = [external EXCEPT ![cur] = "UNKNOWN"]
    /\ Outcomes(synced, "intent", "broken")
    /\ UNCHANGED <<log, rows, bound, pending, spool, clean, cur, cursor, receipts, invoked>>

\* Crossing the provider boundary is not a transaction.
InvokeProvider ==
    /\ pc = "intent"
    /\ pc' = "streaming"
    /\ invoked' = [invoked EXCEPT ![cur] = @ + 1]
    /\ UNCHANGED <<durable, cur, cursor, receipts, faults>>

StreamFrame(synced) ==
    /\ pc = "streaming"
    /\ Len(spool[cur]) < Len(bound[cur].frames)
    /\ spool' = [spool EXCEPT ![cur] = Append(@, bound[cur].frames[Len(@) + 1])]
    /\ phase' = [phase EXCEPT ![cur] = "STREAMING"]
    /\ Outcomes(synced, "streaming", "broken")
    /\ UNCHANGED <<log, rows, bound, external, pending, clean, cur, cursor, receipts, invoked>>

ExternalOf(outcome) ==
    CASE outcome = "complete" -> "SUCCESS"
      [] outcome = "failed"   -> "FAILED"
      [] OTHER                -> "UNKNOWN"

RecordOutcome(synced) ==
    /\ pc = "streaming"
    /\ Len(spool[cur]) = Len(bound[cur].frames)
    /\ phase' = [phase EXCEPT ![cur] = "TERMINAL_PENDING"]
    /\ pending' = [pending EXCEPT ![cur] = bound[cur].outcome]
    /\ external' = [external EXCEPT ![cur] = ExternalOf(bound[cur].outcome)]
    /\ Outcomes(synced, "observed", "broken")
    /\ UNCHANGED <<log, rows, bound, spool, clean, cur, cursor, receipts, invoked>>

\* Terminal evidence, then the client's acknowledgement with both receipts.
FinishAttempt(synced) ==
    /\ pc = "observed"
    /\ CommitTerminal(cur, bound[cur].outcome)
    /\ receipts' = IF synced
                   THEN receipts \cup Receipt(log', bound[cur].user)
                                 \cup Receipt(log', TerminalEvent(cur, bound[cur].outcome))
                   ELSE receipts
    /\ Outcomes(synced, "ready", "broken")
    /\ UNCHANGED <<cur, cursor>>

\* The terminal event is refused: the error reaches the caller, the
\* transaction is rolled back and the handle stays usable.
FinishRefused ==
    /\ pc = "observed"
    /\ \/ TooLarge(spool[cur])
       \/ ~Admissible(TerminalEvent(cur, bound[cur].outcome), cur)
    /\ pc' = "ready"
    /\ UNCHANGED <<durable, cur, cursor, receipts, invoked, faults>>

----------------------------------------------------------------------------
\* The end of a handle, wanted or not.

\* close(clean=True) on a healthy handle.
CloseClean ==
    /\ pc = "ready"
    /\ clean' = "1"
    /\ pc' = "closed"
    /\ UNCHANGED <<log, control, cur, cursor, receipts, invoked, faults>>

\* close() of a handle that needs reopening leaves the marker alone.
CloseBroken ==
    /\ pc = "broken"
    /\ pc' = "closed"
    /\ UNCHANGED <<durable, cur, cursor, receipts, invoked, faults>>

\* A transaction that rolls back on an IO error.  The constructor closes.
IOError ==
    /\ pc \notin {"closed", "broken", "intent"}
    /\ faults < MaxFaults
    /\ faults' = faults + 1
    /\ pc' = IF pc = "recovering" THEN "closed" ELSE "broken"
    /\ UNCHANGED <<durable, cur, cursor, receipts, invoked>>

\* Process exit: flock is released, the open transaction is lost.
Crash ==
    /\ pc # "closed"
    /\ faults < MaxFaults
    /\ faults' = faults + 1
    /\ pc' = "closed"
    /\ UNCHANGED <<durable, cur, cursor, receipts, invoked>>

\* Any other exception inside a call (KeyboardInterrupt, say): the call is
\* abandoned between two transactions and the handle stays healthy.
Interrupt ==
    /\ pc \in Running
    /\ faults < MaxFaults
    /\ faults' = faults + 1
    /\ pc' = "ready"
    /\ UNCHANGED <<durable, cur, cursor, receipts, invoked>>

----------------------------------------------------------------------------
Recover == RecoverSkip \/ RecoverTerminalize(TRUE) \/ RecoverRefused \/ RecoverDone

Proceed == \/ RecordIntent(TRUE) \/ InvokeProvider \/ StreamFrame(TRUE)
           \/ RecordOutcome(TRUE) \/ FinishAttempt(TRUE) \/ FinishRefused

Next ==
    \/ \E synced \in BOOLEAN :
          \/ Open(synced)
          \/ RecoverTerminalize(synced)
          \/ \E e \in Events : AppendEvent(e, synced)
          \/ \E c \in Calls : BeginAttempt(c, synced)
          \/ RecordIntent(synced)
          \/ StreamFrame(synced)
          \/ RecordOutcome(synced)
          \/ FinishAttempt(synced)
    \/ RecoverSkip \/ RecoverRefused \/ RecoverDone
    \/ \E e \in Events : AppendAgain(e)
    \/ \E c \in Calls : ResumeAttempt(c) \/ ReplayAttempt(c)
    \/ InvokeProvider \/ FinishRefused
    \/ CloseClean \/ CloseBroken \/ IOError \/ Crash \/ Interrupt

Spec == Init /\ [][Next]_vars

\* The command-line seam (journal/__main__.py): every invocation opens the
\* store, runs its operation to the end and closes it, again and again.
Fairness ==
    /\ WF_vars(Open(TRUE))
    /\ WF_vars(Recover)
    /\ WF_vars(Proceed)
    /\ WF_vars(CloseClean \/ CloseBroken)

FairSpec == Spec /\ Fairness

----------------------------------------------------------------------------
\* What the journal promises.

\* No two log entries share an event id, a session slot or a correction id,
\* and a correction's target is an earlier entry: the checks of _append_tx
\* hold across retries, attempts and recovery, which all append through it.
LogIdentity ==
    \A i \in DOMAIN log :
        /\ \A j \in 1..(i - 1) :
              /\ ~Clash(log[i], log[j])
              /\ log[i].corrects # None => log[i].corrId # log[j].corrId
        /\ log[i].corrects # None => \E j \in 1..(i - 1) : log[j].id = log[i].corrects

\* While an attempt is open nothing else takes the event id or the slot its
\* terminal event needs, so neither the caller nor recovery can be refused
\* for a conflict; and the USER it answers is in the log.
TerminalSlotHeld ==
    \A a \in Attempts :
        phase[a] \in {"USER_DURABLE", "PROVIDER_INTENT", "STREAMING", "TERMINAL_PENDING"} =>
            /\ \A i \in DOMAIN log : ~Clash(log[i], bound[a].reply)
            /\ \E i \in DOMAIN log : log[i] = bound[a].user

\* The terminal event of an attempt that crossed is never refused but for its
\* size, whatever it says: neither an event of the log nor the reservation of
\* another control row, made by a second attempt before or after this one
\* crossed, is in its way (store.py:202, 302).  A refusal here would leave the
\* attempt open and every later start without a handle.
EndIsFree ==
    \A a \in Attempts : InFlight(a) =>
        \A kind \in Outcome \cup {None} : Admissible(TerminalEvent(a, kind), a)

\* The log holds attempt a's terminal event, after its USER, with the whole
\* spool as its text; it says "complete" only for an outcome the provider was
\* durably seen to deliver in full, with something visible to show.
TruthfullyClosed(a) ==
    \E i \in DOMAIN log :
        /\ log[i].id = bound[a].reply.id
        /\ \E j \in 1..(i - 1) : log[j] = bound[a].user
        /\ log[i].body.text = spool[a]
        /\ log[i].body.external = external[a]
        /\ (log[i].body.status = "complete") =>
              /\ bound[a].outcome = "complete"
              /\ spool[a] = bound[a].frames
              /\ Visible(spool[a])
              /\ external[a] = "SUCCESS"

\* Every closed attempt, whether its caller or a recovery closed it, is
\* truthfully closed: no visible fragment lost, no success made up.
TerminalTruth ==
    \A a \in Attempts : phase[a] = "TERMINAL_COMMITTED" => TruthfullyClosed(a)

\* The provider is entered at most once per attempt, across retries, exits
\* and recoveries, never before intent is durable; NOT_SENT is the truth.
ProviderBoundary ==
    \A a \in Attempts :
        /\ invoked[a] <= 1
        /\ (external[a] = "NOT_SENT") => (invoked[a] = 0)
        /\ (invoked[a] = 1) => (phase[a] \notin {"absent", "USER_DURABLE"})

\* The log only ever grows, by one entry per transaction, and every other
\* entry keeps its offset.
AppendOnly ==
    [][ /\ Len(log') \in {Len(log), Len(log) + 1}
        /\ \A i \in DOMAIN log : log'[i] = log[i] ]_vars

\* The constructor returns a handle only when every interrupted attempt is
\* closed; what is left open was never sent.
ReadyMeansRecovered ==
    [][ (pc = "recovering" /\ pc' = "ready") =>
            \A a \in Attempts :
                phase[a] \in {"absent", "USER_DURABLE", "TERMINAL_COMMITTED"} ]_vars

\* Some attempt has spooled more than its terminal event can hold.
Oversized == \E a \in Attempts : TooLarge(spool[a])

\* Under the command-line seam every attempt that crossed into the provider
\* is closed in the end, whatever exits and IO errors hit on the way, as long
\* as terminal events fit.
CrossedIsClosed ==
    \A a \in Attempts : InFlight(a) ~> (phase[a] = "TERMINAL_COMMITTED" \/ Oversized)

\* Local recovery finishes: as long as terminal events fit, an opened store
\* becomes usable in the end.
OpeningEnds == (pc = "recovering") ~> (pc = "ready" \/ Oversized)

\* The journal implements the evidence log: a turn is accepted when its
\* control row exists, crosses with the durable intent and ends with its
\* terminal event.
TurnOf(p) ==
    CASE p = "absent" -> "none"
      [] p = "USER_DURABLE" -> "accepted"
      [] p = "TERMINAL_COMMITTED" -> "ended"
      [] OTHER -> "crossed"

IdentityOf(e) == e.id
SlotOf(e) == <<e.session, e.seq>>

Evidence == INSTANCE EvidenceLog WITH
    Turns <- Attempts, Identity <- IdentityOf, Slot <- SlotOf,
    evidence <- log, acked <- receipts,
    turn <- [a \in Attempts |-> TurnOf(phase[a])]

\* Every step of tables and handle is a step of the promise, or none of it.
ImplementsEvidenceLog == Evidence!Spec

\* Local recovery finishes, whatever was spooled.
RecoveryFinishes == (pc = "recovering") ~> (pc = "ready")
=============================================================================
