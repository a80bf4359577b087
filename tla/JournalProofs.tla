--------------------------- MODULE JournalProofs ---------------------------
(***************************************************************************)
(* Theorems about Journal, for every set of events, calls and attempts.    *)
(***************************************************************************)
EXTENDS Journal, SequenceTheorems, TLAPS

\* An attempt with a control row is bound to a call.
RowsBound == \A a \in Attempts : phase[a] # "absent" => bound[a] \in Calls

\* What the control row says while a call runs.
PhaseAt(p) ==
    CASE p = "accepted"  -> {"USER_DURABLE"}
      [] p = "intent"    -> {"PROVIDER_INTENT"}
      [] p = "streaming" -> {"PROVIDER_INTENT", "STREAMING"}
      [] OTHER           -> {"TERMINAL_PENDING"}

HandleMatchesRow ==
    pc \in Running => cur \in Attempts /\ phase[cur] \in PhaseAt(pc)

TypeInv == TypeOK /\ RowsBound /\ HandleMatchesRow

----------------------------------------------------------------------------
\* The event _terminalize builds is an event, and keeps the template's id,
\* slot and correction columns.
LEMMA TerminalEventType ==
    ASSUME TypeInv, NEW a \in Attempts, phase[a] # "absent",
           NEW kind \in Outcome \cup {None}
    PROVE  /\ TerminalEvent(a, kind) \in Event
           /\ TerminalEvent(a, kind).id = bound[a].reply.id
           /\ TerminalEvent(a, kind).session = bound[a].reply.session
           /\ TerminalEvent(a, kind).seq = bound[a].reply.seq
           /\ TerminalEvent(a, kind).corrects = None
           /\ TerminalEvent(a, kind).corrId = None
<1> DEFINE body == [status |-> IF ~Visible(spool[a]) THEN "failed"
                               ELSE IF kind = None THEN "partial" ELSE kind,
                    text |-> spool[a], external |-> external[a],
                    evidence |-> IF kind = None THEN "RECOVERY_INTERRUPTED" ELSE "OBSERVED"]
<1>1. /\ bound[a] \in Call
      /\ ContractHolds(bound[a])
  BY JournalAssumption DEF TypeInv, RowsBound
<1>2. body \in TerminalBody
  BY DEF TypeInv, TypeOK, TerminalBody, Outcome, Status
<1>3. TerminalEvent(a, kind) = [bound[a].reply EXCEPT !.body = body]
  BY DEF TerminalEvent
<1>4. bound[a].reply \in Event
  BY <1>1 DEF Call
<1> HIDE DEF body
<1> QED BY <1>1, <1>2, <1>3, <1>4 DEF Event, ContractHolds

\* Receipts computed from a well-typed log are well typed.
LEMMA ReceiptType ==
    ASSUME NEW l \in Seq(Event), NEW e
    PROVE  Receipt(l, e) \subseteq [offset : Nat, event : Event]
BY DEF Receipt

----------------------------------------------------------------------------
\* Type correctness.

LEMMA TypeInit == Init => TypeInv
BY JournalAssumption
   DEF Init, TypeInv, TypeOK, RowsBound, HandleMatchesRow, PC, Running, Phase, External

\* What _terminalize's transaction does to the tables, for either caller.
LEMMA CommitTerminalType ==
    ASSUME TypeInv, NEW a \in Attempts, InFlight(a),
           NEW kind \in Outcome \cup {None}, CommitTerminal(a, kind)
    PROVE  /\ log' \in Seq(Event)
           /\ phase' \in [Attempts -> Phase]
           /\ RowsBound'
<1>1. phase[a] # "absent"
  BY DEF InFlight
<1>2. TerminalEvent(a, kind) \in Event
  BY <1>1, TerminalEventType
<1>3. log' = Append(log, TerminalEvent(a, kind))
  BY DEF CommitTerminal
<1>4. phase' = [phase EXCEPT ![a] = "TERMINAL_COMMITTED"] /\ bound' = bound
  BY DEF CommitTerminal
<1>5. log' \in Seq(Event)
  BY <1>2, <1>3 DEF TypeInv, TypeOK
<1>6. phase' \in [Attempts -> Phase]
  BY <1>4 DEF TypeInv, TypeOK, Phase
<1>7. RowsBound'
  BY <1>1, <1>4 DEF TypeInv, TypeOK, RowsBound
<1> QED BY <1>5, <1>6, <1>7

LEMMA TypeStep == TypeInv /\ [Next]_vars => TypeInv'
<1> SUFFICES ASSUME TypeInv, [Next]_vars PROVE TypeInv'
  OBVIOUS
<1> USE JournalAssumption
<1>1. ASSUME NEW synced \in BOOLEAN, Open(synced) PROVE TypeInv'
  BY <1>1 DEF TypeInv, TypeOK, RowsBound, HandleMatchesRow, Open, Outcomes, control,
              PC, Running
<1>2. ASSUME NEW synced \in BOOLEAN, RecoverTerminalize(synced) PROVE TypeInv'
  <2> DEFINE a == rows[cursor]
             kind == RecoveryKind(a)
  <2>1. a \in Attempts /\ InFlight(a) /\ CommitTerminal(a, kind)
    BY <1>2 DEF RecoverTerminalize, TypeInv, TypeOK
  <2>2. kind \in Outcome \cup {None}
    BY <2>1 DEF RecoveryKind, TypeInv, TypeOK
  <2> HIDE DEF a, kind
  <2>3. log' \in Seq(Event) /\ phase' \in [Attempts -> Phase] /\ RowsBound'
    BY <2>1, <2>2, CommitTerminalType
  <2>4. receipts' \subseteq [offset : Nat, event : Event]
    BY <1>2, <2>3, ReceiptType DEF RecoverTerminalize, TypeInv, TypeOK
  <2>5. UNCHANGED <<rows, bound, external, pending, spool, clean, cur, invoked>>
    BY <1>2, <2>1 DEF RecoverTerminalize, CommitTerminal
  <2>6. pc' \in {"recovering", "closed"} /\ cursor' \in Nat /\ faults' \in Nat
    BY <1>2 DEF RecoverTerminalize, Outcomes, TypeInv, TypeOK
  <2> QED BY <2>3, <2>4, <2>5, <2>6 DEF TypeInv, TypeOK, HandleMatchesRow, PC, Running
<1>3. ASSUME NEW synced \in BOOLEAN, NEW e \in Events, AppendEvent(e, synced)
      PROVE  TypeInv'
  <2>1. log' \in Seq(Event)
    BY <1>3 DEF AppendEvent, TypeInv, TypeOK
  <2>2. receipts' \subseteq [offset : Nat, event : Event]
    BY <1>3, <2>1, ReceiptType DEF AppendEvent, TypeInv, TypeOK
  <2> QED BY <1>3, <2>1, <2>2
    DEF AppendEvent, TypeInv, TypeOK, RowsBound, HandleMatchesRow, Outcomes, control,
        PC, Running
<1>4. ASSUME NEW synced \in BOOLEAN, NEW c \in Calls, BeginAttempt(c, synced)
      PROVE  TypeInv'
  <2>1. c.attempt \in Attempts /\ c.user \in Event
    BY DEF Call
  <2>2. log' \in Seq(Event) /\ rows' \in Seq(Attempts)
    <3>1. log' \in {log, Append(log, c.user)} /\ rows' = Append(rows, c.attempt)
      BY <1>4 DEF BeginAttempt
    <3>2. log \in Seq(Event) /\ rows \in Seq(Attempts)
      BY DEF TypeInv, TypeOK
    <3>3. Append(log, c.user) \in Seq(Event)
      BY <2>1, <3>2
    <3>4. Append(rows, c.attempt) \in Seq(Attempts)
      BY <2>1, <3>2
    <3> QED BY <3>1, <3>2, <3>3, <3>4
  <2>3. /\ phase' \in [Attempts -> Phase]
        /\ bound' \in [Attempts -> Calls \cup {None}]
        /\ RowsBound'
    <3>1. "USER_DURABLE" \in Phase
      BY DEF Phase
    <3>2. phase' \in [Attempts -> Phase]
      BY <1>4, <3>1 DEF BeginAttempt, TypeInv, TypeOK
    <3>3. bound' \in [Attempts -> Calls \cup {None}]
      BY <1>4 DEF BeginAttempt, TypeInv, TypeOK
    <3>4. RowsBound'
      BY <1>4, <2>1 DEF BeginAttempt, TypeInv, TypeOK, RowsBound
    <3> QED BY <3>2, <3>3, <3>4
  <2>4. pc' \in {"accepted", "broken"} /\ faults' \in Nat
    BY <1>4 DEF BeginAttempt, Outcomes, TypeInv, TypeOK
  <2>5. cur' \in Attempts /\ phase'[cur'] = "USER_DURABLE"
    BY <1>4, <2>1 DEF BeginAttempt, TypeInv, TypeOK
  <2> QED BY <1>4, <2>2, <2>3, <2>4, <2>5
    DEF BeginAttempt, TypeInv, TypeOK, HandleMatchesRow, PhaseAt, PC, Running
<1>5. ASSUME NEW synced \in BOOLEAN, RecordIntent(synced) PROVE TypeInv'
  <2>1. cur \in Attempts /\ phase[cur] = "USER_DURABLE"
    BY <1>5 DEF RecordIntent, TypeInv, HandleMatchesRow, PhaseAt, Running
  <2> QED BY <1>5, <2>1
    DEF RecordIntent, TypeInv, TypeOK, RowsBound, HandleMatchesRow, PhaseAt, Outcomes,
        PC, Running, Phase, External
<1>6. ASSUME NEW synced \in BOOLEAN, StreamFrame(synced) PROVE TypeInv'
  <2>1. cur \in Attempts /\ phase[cur] \in {"PROVIDER_INTENT", "STREAMING"}
    BY <1>6 DEF StreamFrame, TypeInv, HandleMatchesRow, PhaseAt, Running
  <2>2. bound[cur] \in Call
    BY <2>1 DEF TypeInv, RowsBound
  <2>3. spool' \in [Attempts -> Seq(Fragment)]
    <3>1. Len(spool[cur]) + 1 \in DOMAIN bound[cur].frames
      BY <1>6, <2>1, <2>2 DEF StreamFrame, TypeInv, TypeOK, Call
    <3>2. bound[cur].frames[Len(spool[cur]) + 1] \in Fragment
      BY <3>1, <2>2 DEF Call
    <3> QED BY <1>6, <2>1, <3>2 DEF StreamFrame, TypeInv, TypeOK
  <2> QED BY <1>6, <2>1, <2>3
    DEF StreamFrame, TypeInv, TypeOK, RowsBound, HandleMatchesRow, PhaseAt, Outcomes,
        PC, Running, Phase
<1>7. ASSUME NEW synced \in BOOLEAN, RecordOutcome(synced) PROVE TypeInv'
  <2>1. cur \in Attempts /\ phase[cur] \in {"PROVIDER_INTENT", "STREAMING"}
    BY <1>7 DEF RecordOutcome, TypeInv, HandleMatchesRow, PhaseAt, Running
  <2>2. bound[cur].outcome \in Outcome
    BY <2>1 DEF TypeInv, RowsBound, Call
  <2>3. ExternalOf(bound[cur].outcome) \in External
    BY <2>2 DEF ExternalOf, External, Outcome
  <2> QED BY <1>7, <2>1, <2>2, <2>3
    DEF RecordOutcome, TypeInv, TypeOK, RowsBound, HandleMatchesRow, PhaseAt, Outcomes,
        PC, Running, Phase
<1>8. ASSUME NEW synced \in BOOLEAN, FinishAttempt(synced) PROVE TypeInv'
  <2>1. cur \in Attempts /\ InFlight(cur)
    BY <1>8 DEF FinishAttempt, TypeInv, HandleMatchesRow, PhaseAt, Running, InFlight
  <2>2. bound[cur].outcome \in Outcome /\ CommitTerminal(cur, bound[cur].outcome)
    BY <1>8, <2>1 DEF FinishAttempt, TypeInv, RowsBound, InFlight, Call
  <2>3. log' \in Seq(Event) /\ phase' \in [Attempts -> Phase] /\ RowsBound'
    BY <2>1, <2>2, CommitTerminalType
  <2>4. receipts' \subseteq [offset : Nat, event : Event]
    BY <1>8, <2>3, ReceiptType DEF FinishAttempt, TypeInv, TypeOK
  <2>5. UNCHANGED <<rows, bound, external, pending, spool, clean, cur, cursor, invoked>>
    BY <1>8, <2>2 DEF FinishAttempt, CommitTerminal
  <2>6. pc' \in {"ready", "broken"} /\ faults' \in Nat
    BY <1>8 DEF FinishAttempt, Outcomes, TypeInv, TypeOK
  <2> QED BY <2>3, <2>4, <2>5, <2>6 DEF TypeInv, TypeOK, HandleMatchesRow, PC, Running
<1>9. CASE RecoverSkip
  <2>1. UNCHANGED <<durable, pc, cur, receipts, invoked, faults>> /\ cursor' = cursor + 1
    BY <1>9 DEF RecoverSkip
  <2> QED BY <2>1 DEF TypeInv, TypeOK, RowsBound, HandleMatchesRow, durable, control
<1>10. ASSUME NEW e \in Events, AppendAgain(e) PROVE TypeInv'
  <2>1. Receipt(log, e) \subseteq [offset : Nat, event : Event]
    BY ReceiptType DEF TypeInv, TypeOK
  <2> QED BY <1>10, <2>1
    DEF AppendAgain, TypeInv, TypeOK, RowsBound, HandleMatchesRow, durable, control, handle
<1>11. ASSUME NEW c \in Calls, ResumeAttempt(c) PROVE TypeInv'
  <2>1. c.attempt \in Attempts
    BY DEF Call
  <2> QED BY <1>11, <2>1
    DEF ResumeAttempt, TypeInv, TypeOK, RowsBound, HandleMatchesRow, PhaseAt, durable,
        control, PC, Running
<1>12. ASSUME NEW c \in Calls, ReplayAttempt(c) PROVE TypeInv'
  <2>1. receipts' \subseteq [offset : Nat, event : Event]
    BY <1>12 DEF ReplayAttempt, TypeInv, TypeOK
  <2> QED BY <1>12, <2>1
    DEF ReplayAttempt, TypeInv, TypeOK, RowsBound, HandleMatchesRow, durable, control, handle
<1>13. CASE InvokeProvider
  <2>1. cur \in Attempts /\ phase[cur] = "PROVIDER_INTENT"
    BY <1>13 DEF InvokeProvider, TypeInv, HandleMatchesRow, PhaseAt, Running
  <2> QED BY <1>13, <2>1
    DEF InvokeProvider, TypeInv, TypeOK, RowsBound, HandleMatchesRow, PhaseAt, durable,
        control, PC, Running
<1>14. CASE RecoverRefused \/ RecoverDone \/ FinishRefused \/ CloseBroken \/ IOError
            \/ Crash \/ Interrupt
  <2>1. /\ UNCHANGED <<durable, cur, cursor, receipts, invoked>>
        /\ pc' \in PC \ Running
        /\ faults' \in {faults, faults + 1}
    BY <1>14 DEF RecoverRefused, RecoverDone, FinishRefused, CloseBroken, IOError, Crash,
                 Interrupt, PC, Running
  <2> QED BY <2>1 DEF TypeInv, TypeOK, RowsBound, HandleMatchesRow, durable, control
<1>15. CASE CloseClean
  BY <1>15 DEF CloseClean, TypeInv, TypeOK, RowsBound, HandleMatchesRow, control, PC,
               Running
<1>16. CASE UNCHANGED vars
  BY <1>16 DEF vars, durable, control, handle, TypeInv, TypeOK, RowsBound,
               HandleMatchesRow
<1> QED BY <1>1, <1>2, <1>3, <1>4, <1>5, <1>6, <1>7, <1>8, <1>9, <1>10, <1>11, <1>12,
           <1>13, <1>14, <1>15, <1>16 DEF Next

LEMMA TypeInvariant == Spec => []TypeInv
<1> QED BY TypeInit, TypeStep, PTL DEF Spec

\* Every variable keeps its type: the columns hold only the values the store
\* writes, and a handle never runs a call without its attempt.
THEOREM TypeCorrect == Spec => []TypeOK
<1>1. TypeInv => TypeOK
  BY DEF TypeInv
<1> QED BY <1>1, TypeInvariant, PTL

----------------------------------------------------------------------------
\* The log: every step leaves it alone or appends one admissible event.

\* The part of Admissible that speaks of the log alone.
Fresh(e) ==
    /\ \A f \in Stored : ~Clash(e, f)
    /\ e.corrects # None =>
          /\ \E f \in Stored : f.id = e.corrects
          /\ \A f \in Stored : f.corrId # e.corrId

Extend(e) == e \in Event /\ Fresh(e) /\ log' = Append(log, e)

LEMMA CommitTerminalExtends ==
    ASSUME TypeInv, NEW a \in Attempts, InFlight(a),
           NEW kind \in Outcome \cup {None}, CommitTerminal(a, kind)
    PROVE  Extend(TerminalEvent(a, kind))
<1>1. phase[a] # "absent"
  BY DEF InFlight
<1>2. TerminalEvent(a, kind) \in Event
  BY <1>1, TerminalEventType
<1>3. Admissible(TerminalEvent(a, kind), a) /\ log' = Append(log, TerminalEvent(a, kind))
  BY DEF CommitTerminal
<1> QED BY <1>2, <1>3 DEF Extend, Fresh, Admissible

\* Which attempt and kind a terminal transaction is about.
LEMMA RecoveryTarget ==
    ASSUME TypeInv, NEW synced, RecoverTerminalize(synced)
    PROVE  /\ rows[cursor] \in Attempts /\ InFlight(rows[cursor])
           /\ RecoveryKind(rows[cursor]) \in Outcome \cup {None}
           /\ CommitTerminal(rows[cursor], RecoveryKind(rows[cursor]))
<1>1. /\ rows[cursor] \in Attempts /\ InFlight(rows[cursor])
      /\ CommitTerminal(rows[cursor], RecoveryKind(rows[cursor]))
  BY DEF RecoverTerminalize, TypeInv, TypeOK
<1> QED BY <1>1 DEF RecoveryKind, TypeInv, TypeOK

LEMMA FinishTarget ==
    ASSUME TypeInv, NEW synced, FinishAttempt(synced)
    PROVE  /\ cur \in Attempts /\ InFlight(cur) /\ phase[cur] = "TERMINAL_PENDING"
           /\ bound[cur] \in Calls /\ bound[cur].outcome \in Outcome
           /\ CommitTerminal(cur, bound[cur].outcome)
<1>1. cur \in Attempts /\ phase[cur] = "TERMINAL_PENDING"
  BY DEF FinishAttempt, TypeInv, HandleMatchesRow, PhaseAt, Running
<1> QED BY <1>1, JournalAssumption
  DEF FinishAttempt, TypeInv, RowsBound, InFlight, Call

LEMMA LogStep ==
    ASSUME TypeInv, [Next]_vars
    PROVE  log' = log \/ \E e \in Event : Extend(e)
<1> USE JournalAssumption
<1>1. ASSUME NEW synced \in BOOLEAN, RecoverTerminalize(synced)
      PROVE  \E e \in Event : Extend(e)
  BY <1>1, RecoveryTarget, CommitTerminalExtends DEF Extend
<1>2. ASSUME NEW synced \in BOOLEAN, FinishAttempt(synced)
      PROVE  \E e \in Event : Extend(e)
  BY <1>2, FinishTarget, CommitTerminalExtends DEF Extend
<1>3. ASSUME NEW synced \in BOOLEAN, NEW e \in Events, AppendEvent(e, synced)
      PROVE  \E f \in Event : Extend(f)
  BY <1>3 DEF AppendEvent, Admissible, Extend, Fresh
<1>4. ASSUME NEW synced \in BOOLEAN, NEW c \in Calls, BeginAttempt(c, synced)
      PROVE  log' = log \/ \E f \in Event : Extend(f)
  <2>1. c.user \in Event
    BY DEF Call
  <2> QED BY <1>4, <2>1 DEF BeginAttempt, Admissible, Extend, Fresh
<1>5. ASSUME NEW synced \in BOOLEAN,
             Open(synced) \/ RecordIntent(synced) \/ StreamFrame(synced)
                \/ RecordOutcome(synced)
      PROVE  log' = log
  BY <1>5 DEF Open, RecordIntent, StreamFrame, RecordOutcome
<1>6. ASSUME \/ \E e \in Events : AppendAgain(e)
             \/ \E c \in Calls : ResumeAttempt(c) \/ ReplayAttempt(c)
      PROVE  log' = log
  BY <1>6 DEF AppendAgain, ResumeAttempt, ReplayAttempt, durable
<1>7. ASSUME \/ RecoverSkip \/ RecoverRefused \/ RecoverDone \/ InvokeProvider
             \/ FinishRefused \/ CloseClean \/ CloseBroken \/ IOError \/ Crash
             \/ Interrupt \/ UNCHANGED vars
      PROVE  log' = log
  BY <1>7 DEF RecoverSkip, RecoverRefused, RecoverDone, InvokeProvider, FinishRefused,
              CloseClean, CloseBroken, IOError, Crash, Interrupt, durable, vars
<1> QED BY <1>1, <1>2, <1>3, <1>4, <1>5, <1>6, <1>7 DEF Next

\* The log only grows, one entry at a time, whatever faults hit the store.
THEOREM LogAppendOnly == Spec => AppendOnly
<1>1. TypeInv /\ [Next]_vars =>
          [/\ Len(log') \in {Len(log), Len(log) + 1}
           /\ \A i \in DOMAIN log : log'[i] = log[i]]_vars
  <2> SUFFICES ASSUME TypeInv, [Next]_vars
               PROVE  /\ Len(log') \in {Len(log), Len(log) + 1}
                      /\ \A i \in DOMAIN log : log'[i] = log[i]
    OBVIOUS
  <2>1. log \in Seq(Event)
    BY DEF TypeInv, TypeOK
  <2> QED BY <2>1, LogStep DEF Extend
<1> QED BY <1>1, TypeInvariant, PTL DEF Spec, AppendOnly

\* Identities, slots and correction ids stay unique and corrections point back.
THEOREM LogIdentityHolds == Spec => []LogIdentity
<1>1. Init => LogIdentity
  BY DEF Init, LogIdentity
<1>2. TypeInv /\ LogIdentity /\ [Next]_vars => LogIdentity'
  <2> SUFFICES ASSUME TypeInv, LogIdentity, [Next]_vars PROVE LogIdentity'
    OBVIOUS
  <2>1. CASE log' = log
    BY <2>1 DEF LogIdentity, Clash, SameSlot
  <2>2. ASSUME NEW e \in Event, Extend(e) PROVE LogIdentity'
    <3>1. log \in Seq(Event) /\ log' = Append(log, e)
      BY <2>2 DEF TypeInv, TypeOK, Extend
    <3>2. /\ DOMAIN log' = 1..(Len(log) + 1) /\ Len(log) \in Nat
          /\ DOMAIN log = 1..Len(log)
          /\ \A i \in 1..Len(log) : log'[i] = log[i]
          /\ log'[Len(log) + 1] = e
      BY <3>1
    <3>3. ASSUME NEW i \in 1..Len(log)
          PROVE  /\ \A j \in 1..(i - 1) :
                       /\ ~Clash(log'[i], log'[j])
                       /\ log'[i].corrects # None => log'[i].corrId # log'[j].corrId
                 /\ log'[i].corrects # None =>
                       \E j \in 1..(i - 1) : log'[j].id = log'[i].corrects
      BY <3>2, <3>3 DEF LogIdentity
    <3>4. /\ \A j \in 1..Len(log) :
                /\ ~Clash(e, log[j])
                /\ e.corrects # None => e.corrId # log[j].corrId
          /\ e.corrects # None => \E j \in 1..Len(log) : log[j].id = e.corrects
      BY <2>2, <3>2 DEF Extend, Fresh, Stored
    <3> QED BY <3>2, <3>3, <3>4 DEF LogIdentity
  <2> QED BY <2>1, <2>2, LogStep
<1> QED BY <1>1, <1>2, TypeInvariant, PTL DEF Spec

----------------------------------------------------------------------------
\* Receipts.

LEMMA ReceiptStep ==
    ASSUME TypeInv, [Next]_vars
    PROVE  \A r \in receipts' \ receipts : r.offset \in DOMAIN log' /\ r.event = log'[r.offset]
<1>1. ASSUME NEW synced \in BOOLEAN,
             \/ RecoverTerminalize(synced)
             \/ \E e \in Events : AppendEvent(e, synced)
             \/ FinishAttempt(synced)
      PROVE  \A r \in receipts' \ receipts : r.offset \in DOMAIN log' /\ r.event = log'[r.offset]
  BY <1>1 DEF RecoverTerminalize, AppendEvent, FinishAttempt, Receipt
<1>2. ASSUME \/ \E e \in Events : AppendAgain(e)
             \/ \E c \in Calls : ReplayAttempt(c)
      PROVE  \A r \in receipts' \ receipts : r.offset \in DOMAIN log' /\ r.event = log'[r.offset]
  BY <1>2 DEF AppendAgain, ReplayAttempt, durable, Receipt
<1>3. ASSUME \/ \E synced \in BOOLEAN :
                   \/ Open(synced) \/ RecordIntent(synced) \/ StreamFrame(synced)
                   \/ RecordOutcome(synced)
                   \/ \E c \in Calls : BeginAttempt(c, synced)
             \/ \E c \in Calls : ResumeAttempt(c)
      PROVE  receipts' = receipts
  BY <1>3 DEF Open, RecordIntent, StreamFrame, RecordOutcome, BeginAttempt, ResumeAttempt
<1>4. ASSUME \/ RecoverSkip \/ RecoverRefused \/ RecoverDone \/ InvokeProvider
             \/ FinishRefused \/ CloseClean \/ CloseBroken \/ IOError \/ Crash
             \/ Interrupt \/ UNCHANGED vars
      PROVE  receipts' = receipts
  BY <1>4 DEF RecoverSkip, RecoverRefused, RecoverDone, InvokeProvider, FinishRefused,
              CloseClean, CloseBroken, IOError, Crash, Interrupt, vars
<1> QED BY <1>1, <1>2, <1>3, <1>4 DEF Next

----------------------------------------------------------------------------
\* Reserved slots.

OpenPhase == {"USER_DURABLE", "PROVIDER_INTENT", "STREAMING", "TERMINAL_PENDING"}

\* A terminal event of one attempt disturbs no other open attempt.
LEMMA CommitTerminalKeepsSlots ==
    ASSUME TypeInv, TerminalSlotHeld, NEW a \in Attempts, InFlight(a),
           NEW kind \in Outcome \cup {None}, CommitTerminal(a, kind)
    PROVE  TerminalSlotHeld'
<1> DEFINE e == TerminalEvent(a, kind)
<1>1. log' = Append(log, e) /\ Reservers(e, a) = {}
  BY DEF CommitTerminal, Admissible
<1>2. phase' = [phase EXCEPT ![a] = "TERMINAL_COMMITTED"] /\ bound' = bound
  BY DEF CommitTerminal
<1>3. log \in Seq(Event) /\ phase \in [Attempts -> Phase]
  BY DEF TypeInv, TypeOK
<1> HIDE DEF e
<1>4. ASSUME NEW b \in Attempts, phase'[b] \in OpenPhase
      PROVE  /\ \A i \in DOMAIN log' : ~Clash(log'[i], bound'[b].reply)
             /\ \E i \in DOMAIN log' : log'[i] = bound'[b].user
  <2>1. b # a /\ phase[b] \in OpenPhase
    BY <1>2, <1>3, <1>4 DEF OpenPhase
  <2>2. ~Clash(e, bound[b].reply)
    BY <1>1, <2>1 DEF Reservers, OpenPhase
  <2>3. /\ \A i \in DOMAIN log : ~Clash(log[i], bound[b].reply)
        /\ \E i \in DOMAIN log : log[i] = bound[b].user
    BY <2>1 DEF TerminalSlotHeld, OpenPhase
  <2> QED BY <1>1, <1>2, <1>3, <2>2, <2>3
<1> QED BY <1>4 DEF TerminalSlotHeld, OpenPhase

LEMMA SlotStep ==
    ASSUME TypeInv, TerminalSlotHeld, [Next]_vars
    PROVE  TerminalSlotHeld'
<1> USE JournalAssumption
<1>1. ASSUME NEW synced \in BOOLEAN, RecoverTerminalize(synced) PROVE TerminalSlotHeld'
  BY <1>1, RecoveryTarget, CommitTerminalKeepsSlots
<1>2. ASSUME NEW synced \in BOOLEAN, FinishAttempt(synced) PROVE TerminalSlotHeld'
  BY <1>2, FinishTarget, CommitTerminalKeepsSlots
<1>3. ASSUME NEW synced \in BOOLEAN, NEW e \in Events, AppendEvent(e, synced)
      PROVE  TerminalSlotHeld'
  <2>1. log' = Append(log, e) /\ phase' = phase /\ bound' = bound
    BY <1>3 DEF AppendEvent, control
  <2>2. \A b \in Attempts : phase[b] # "absent" => ~Clash(e, bound[b].reply)
    BY <1>3 DEF AppendEvent, Admissible, Reservers
  <2>3. log \in Seq(Event)
    BY DEF TypeInv, TypeOK
  <2> QED BY <2>1, <2>2, <2>3 DEF TerminalSlotHeld
<1>4. ASSUME NEW synced \in BOOLEAN, NEW c \in Calls, BeginAttempt(c, synced)
      PROVE  TerminalSlotHeld'
  <2>1. c.attempt \in Attempts /\ c.user \in Event /\ c.reply \in Event /\ ContractHolds(c)
    BY DEF Call
  <2>2. /\ log \in Seq(Event)
        /\ phase' = [phase EXCEPT ![c.attempt] = "USER_DURABLE"]
        /\ bound' = [bound EXCEPT ![c.attempt] = c]
        /\ phase \in [Attempts -> Phase]
        /\ bound \in [Attempts -> Calls \cup {None}]
    BY <1>4 DEF BeginAttempt, TypeInv, TypeOK
  <2>3. ~Clash(c.user, c.reply)
    <3>1. c.user.seq \in Int /\ c.reply.seq \in Int
      BY <2>1 DEF Event
    <3>2. c.reply.seq > c.user.seq /\ c.reply.id # c.user.id
      BY <2>1 DEF ContractHolds
    <3>3. c.reply.seq # c.user.seq
      BY <3>1, <3>2
    <3> QED BY <3>2, <3>3 DEF Clash, SameSlot
  <2>4. \/ c.user \in Stored /\ log' = log
        \/ /\ log' = Append(log, c.user)
           /\ \A b \in Attempts : phase[b] # "absent" => ~Clash(c.user, bound[b].reply)
    <3>1. \/ c.user \in Stored /\ log' = log
          \/ Reservers(c.user, None) = {} /\ log' = Append(log, c.user)
      BY <1>4 DEF BeginAttempt, Admissible
    <3> QED BY <3>1 DEF Reservers
  <2>5. /\ \A i \in DOMAIN log' : log'[i] = c.user \/ \E j \in DOMAIN log : log'[i] = log[j]
        /\ \E i \in DOMAIN log' : log'[i] = c.user
        /\ \A j \in DOMAIN log : j \in DOMAIN log' /\ log'[j] = log[j]
    <3>1. CASE c.user \in Stored /\ log' = log
      BY <3>1 DEF Stored
    <3>2. CASE log' = Append(log, c.user)
      <4>1. /\ DOMAIN log' = 1..(Len(log) + 1) /\ DOMAIN log = 1..Len(log)
            /\ Len(log) \in Nat /\ log'[Len(log) + 1] = c.user
            /\ \A j \in 1..Len(log) : log'[j] = log[j]
        BY <2>1, <2>2, <3>2
      <4> QED BY <4>1
    <3> QED BY <2>4, <3>1, <3>2
  <2>6. \A i \in DOMAIN log' : ~Clash(log'[i], c.reply)
    <3>1. \A j \in DOMAIN log : ~Clash(log[j], c.reply)
      BY <1>4 DEF BeginAttempt, Stored, Clash, SameSlot
    <3> QED BY <2>3, <2>5, <3>1
  <2>7. ASSUME NEW b \in Attempts, b # c.attempt, phase'[b] \in OpenPhase
        PROVE  /\ \A i \in DOMAIN log' : ~Clash(log'[i], bound'[b].reply)
               /\ \E i \in DOMAIN log' : log'[i] = bound'[b].user
    <3>1. phase[b] \in OpenPhase /\ bound'[b] = bound[b]
      BY <2>2, <2>7
    <3>2. /\ \A j \in DOMAIN log : ~Clash(log[j], bound[b].reply)
          /\ \E j \in DOMAIN log : log[j] = bound[b].user
      BY <3>1 DEF TerminalSlotHeld, OpenPhase
    <3>3. log' = log \/ ~Clash(c.user, bound[b].reply)
      BY <2>4, <3>1 DEF OpenPhase
    <3>4. CASE log' = log
      BY <3>1, <3>2, <3>4
    <3>5. CASE ~Clash(c.user, bound[b].reply)
      BY <2>5, <3>1, <3>2, <3>5
    <3> QED BY <3>3, <3>4, <3>5
  <2>8. bound'[c.attempt] = c
    BY <2>1, <2>2
  <2> QED BY <2>5, <2>6, <2>7, <2>8 DEF TerminalSlotHeld, OpenPhase
<1>5. ASSUME NEW synced \in BOOLEAN,
             Open(synced) \/ RecordIntent(synced) \/ StreamFrame(synced)
                \/ RecordOutcome(synced)
      PROVE  TerminalSlotHeld'
  <2>1. /\ log' = log /\ bound' = bound
        /\ \A b \in Attempts : phase'[b] # phase[b] => phase[b] \in OpenPhase
    <3>1. CASE Open(synced)
      BY <3>1 DEF Open, control
    <3>2. CASE RecordIntent(synced)
      BY <3>2 DEF RecordIntent, TypeInv, TypeOK, HandleMatchesRow, PhaseAt, Running, OpenPhase
    <3>3. CASE StreamFrame(synced)
      BY <3>3 DEF StreamFrame, TypeInv, TypeOK, HandleMatchesRow, PhaseAt, Running, OpenPhase
    <3>4. CASE RecordOutcome(synced)
      BY <3>4 DEF RecordOutcome, TypeInv, TypeOK, HandleMatchesRow, PhaseAt, Running, OpenPhase
    <3> QED BY <1>5, <3>1, <3>2, <3>3, <3>4
  <2> QED BY <2>1 DEF TerminalSlotHeld, OpenPhase
<1>6. ASSUME \/ \E e \in Events : AppendAgain(e)
             \/ \E c \in Calls : ResumeAttempt(c) \/ ReplayAttempt(c)
             \/ RecoverSkip \/ RecoverRefused \/ RecoverDone \/ InvokeProvider
             \/ FinishRefused \/ CloseClean \/ CloseBroken \/ IOError \/ Crash
             \/ Interrupt \/ UNCHANGED vars
      PROVE  TerminalSlotHeld'
  <2>1. UNCHANGED <<log, bound, phase>>
    BY <1>6 DEF AppendAgain, ResumeAttempt, ReplayAttempt, RecoverSkip, RecoverRefused,
                RecoverDone, InvokeProvider, FinishRefused, CloseClean, CloseBroken,
                IOError, Crash, Interrupt, durable, control, vars
  <2> QED BY <2>1 DEF TerminalSlotHeld
<1> QED BY <1>1, <1>2, <1>3, <1>4, <1>5, <1>6 DEF Next

\* No retry, competing event or recovery ever takes the place an open
\* attempt's terminal event needs.
THEOREM SlotsAreHeld == Spec => []TerminalSlotHeld
<1>1. Init => TerminalSlotHeld
  BY DEF Init, TerminalSlotHeld
<1> QED BY <1>1, SlotStep, TypeInvariant, PTL DEF Spec

----------------------------------------------------------------------------
\* No refusal but for size.

\* No two control rows ask for one place.
RepliesApart ==
    \A a, b \in Attempts :
        a # b /\ phase[a] # "absent" /\ phase[b] # "absent" => ~Clash(bound[a].reply, bound[b].reply)

LEMMA ApartStep ==
    ASSUME TypeInv, RepliesApart, [Next]_vars
    PROVE  RepliesApart'
<1> USE JournalAssumption
<1>1. ASSUME NEW synced \in BOOLEAN, NEW c \in Calls, BeginAttempt(c, synced)
      PROVE  RepliesApart'
  <2>1. /\ c.attempt \in Attempts
        /\ phase' = [phase EXCEPT ![c.attempt] = "USER_DURABLE"]
        /\ bound' = [bound EXCEPT ![c.attempt] = c]
        /\ phase \in [Attempts -> Phase] /\ bound \in [Attempts -> Calls \cup {None}]
    BY <1>1 DEF BeginAttempt, TypeInv, TypeOK, Call
  <2>2. \A b \in Attempts : phase[b] # "absent" => ~Clash(c.reply, bound[b].reply)
    BY <1>1 DEF BeginAttempt, Reservers
  <2>3. \A e, f : Clash(e, f) <=> Clash(f, e)
    BY DEF Clash, SameSlot
  <2>4. bound'[c.attempt] = c /\ \A b \in Attempts \ {c.attempt} :
            bound'[b] = bound[b] /\ (phase'[b] # "absent" => phase[b] # "absent")
    BY <2>1
  <2> QED BY <2>2, <2>3, <2>4 DEF RepliesApart
<1>2. ASSUME UNCHANGED bound,
             \A a \in Attempts : phase'[a] # "absent" => phase[a] # "absent"
      PROVE  RepliesApart'
  BY <1>2 DEF RepliesApart
<1>3. ASSUME NEW synced \in BOOLEAN, RecoverTerminalize(synced)
      PROVE  RepliesApart'
  <2>1. /\ phase' = [phase EXCEPT ![rows[cursor]] = "TERMINAL_COMMITTED"] /\ bound' = bound
        /\ rows[cursor] \in Attempts /\ phase[rows[cursor]] # "absent"
    BY <1>3, RecoveryTarget DEF CommitTerminal, InFlight
  <2> QED BY <1>2, <2>1 DEF TypeInv, TypeOK
<1>4. ASSUME NEW synced \in BOOLEAN,
             \/ RecordIntent(synced) \/ StreamFrame(synced) \/ RecordOutcome(synced)
             \/ FinishAttempt(synced)
      PROVE  RepliesApart'
  <2>1. cur \in Attempts /\ phase[cur] # "absent"
    BY <1>4 DEF RecordIntent, StreamFrame, RecordOutcome, FinishAttempt, TypeInv,
                HandleMatchesRow, PhaseAt, Running
  <2>2. bound' = bound /\ \E p \in Phase : phase' = [phase EXCEPT ![cur] = p]
    BY <1>4 DEF RecordIntent, StreamFrame, RecordOutcome, FinishAttempt, CommitTerminal, Phase
  <2> QED BY <1>2, <2>1, <2>2 DEF TypeInv, TypeOK
<1>5. ASSUME \/ \E synced \in BOOLEAN : Open(synced)
             \/ \E synced \in BOOLEAN, e \in Events : AppendEvent(e, synced)
             \/ \E e \in Events : AppendAgain(e)
             \/ \E c \in Calls : ResumeAttempt(c) \/ ReplayAttempt(c)
             \/ RecoverSkip \/ RecoverRefused \/ RecoverDone \/ InvokeProvider
             \/ FinishRefused \/ CloseClean \/ CloseBroken \/ IOError \/ Crash
             \/ Interrupt \/ UNCHANGED vars
      PROVE  RepliesApart'
  <2>1. UNCHANGED <<phase, bound>>
    BY <1>5 DEF Open, AppendEvent, AppendAgain, ResumeAttempt, ReplayAttempt, RecoverSkip,
                RecoverRefused, RecoverDone, InvokeProvider, FinishRefused, CloseClean,
                CloseBroken, IOError, Crash, Interrupt, durable, control, vars
  <2> QED BY <1>2, <2>1
<1> QED BY <1>1, <1>3, <1>4, <1>5 DEF Next

\* The terminal event of an attempt that crossed is admissible whenever it
\* comes, whatever competes for its place: only its size can keep recovery, or
\* the caller, from storing it.
THEOREM EndsAreFree == Spec => []EndIsFree
<1>1. Init => RepliesApart
  BY DEF Init, RepliesApart
<1>2. TypeInv /\ TerminalSlotHeld /\ RepliesApart => EndIsFree
  <2> SUFFICES ASSUME TypeInv, TerminalSlotHeld, RepliesApart, NEW a \in Attempts, InFlight(a),
                      NEW kind \in Outcome \cup {None}
               PROVE  Admissible(TerminalEvent(a, kind), a)
    BY DEF EndIsFree
  <2> DEFINE e == TerminalEvent(a, kind)
  <2>1. /\ e.id = bound[a].reply.id /\ e.session = bound[a].reply.session
        /\ e.seq = bound[a].reply.seq /\ e.corrects = None
    BY TerminalEventType DEF InFlight
  <2> HIDE DEF e
  <2>2. \A f : Clash(e, f) <=> Clash(bound[a].reply, f)
    BY <2>1 DEF Clash, SameSlot
  <2>3. \A f \in Stored : ~Clash(e, f)
    <3>1. \A i \in DOMAIN log : ~Clash(log[i], bound[a].reply)
      BY DEF TerminalSlotHeld, InFlight
    <3> QED BY <2>2, <3>1 DEF Stored, Clash, SameSlot
  <2>4. Reservers(e, a) = {}
    BY <2>2 DEF Reservers, RepliesApart, InFlight
  <2> QED BY <2>1, <2>3, <2>4 DEF Admissible, e
<1> QED BY <1>1, <1>2, ApartStep, SlotsAreHeld, TypeInvariant, PTL DEF Spec

----------------------------------------------------------------------------
\* The provider boundary.

\* Why at most one: a handle stands before the boundary only on behalf of an
\* attempt whose row says intent and whose boundary nobody has crossed, and
\* no action leads a row back to USER_DURABLE.
BoundaryInv ==
    /\ \A a \in Attempts :
          /\ invoked[a] <= 1
          /\ phase[a] \in {"absent", "USER_DURABLE"} => invoked[a] = 0
          /\ phase[a] \notin {"absent", "USER_DURABLE"} => external[a] # "NOT_SENT"
    /\ pc = "intent" => invoked[cur] = 0

LEMMA BoundaryStep ==
    ASSUME TypeInv, BoundaryInv, [Next]_vars
    PROVE  BoundaryInv'
<1> USE JournalAssumption
<1>1. ASSUME NEW synced \in BOOLEAN, RecoverTerminalize(synced) PROVE BoundaryInv'
  <2>1. /\ phase' = [phase EXCEPT ![rows[cursor]] = "TERMINAL_COMMITTED"]
        /\ UNCHANGED <<external, invoked>> /\ pc' # "intent"
        /\ rows[cursor] \in Attempts
        /\ phase[rows[cursor]] \notin {"absent", "USER_DURABLE"}
    BY <1>1, RecoveryTarget DEF RecoverTerminalize, CommitTerminal, Outcomes, InFlight
  <2> QED BY <2>1 DEF BoundaryInv, TypeInv, TypeOK
<1>2. ASSUME NEW synced \in BOOLEAN, FinishAttempt(synced) PROVE BoundaryInv'
  <2>1. /\ phase' = [phase EXCEPT ![cur] = "TERMINAL_COMMITTED"]
        /\ UNCHANGED <<external, invoked>> /\ pc' # "intent"
        /\ cur \in Attempts /\ phase[cur] = "TERMINAL_PENDING"
    BY <1>2, FinishTarget DEF FinishAttempt, CommitTerminal, Outcomes
  <2> QED BY <2>1 DEF BoundaryInv, TypeInv, TypeOK
<1>3. ASSUME NEW synced \in BOOLEAN, RecordIntent(synced) PROVE BoundaryInv'
  <2>1. cur \in Attempts /\ phase[cur] = "USER_DURABLE"
    BY <1>3 DEF RecordIntent, TypeInv, HandleMatchesRow, PhaseAt, Running
  <2> QED BY <1>3, <2>1 DEF RecordIntent, BoundaryInv, TypeInv, TypeOK
<1>4. CASE InvokeProvider
  <2>1. cur \in Attempts /\ phase[cur] = "PROVIDER_INTENT" /\ invoked[cur] = 0
    BY <1>4 DEF InvokeProvider, TypeInv, HandleMatchesRow, PhaseAt, Running, BoundaryInv
  <2> QED BY <1>4, <2>1 DEF InvokeProvider, BoundaryInv, TypeInv, TypeOK, durable, control
<1>5. ASSUME NEW synced \in BOOLEAN, StreamFrame(synced) PROVE BoundaryInv'
  <2>1. cur \in Attempts /\ phase[cur] \in {"PROVIDER_INTENT", "STREAMING"}
    BY <1>5 DEF StreamFrame, TypeInv, HandleMatchesRow, PhaseAt, Running
  <2> QED BY <1>5, <2>1 DEF StreamFrame, BoundaryInv, TypeInv, TypeOK, Outcomes
<1>6. ASSUME NEW synced \in BOOLEAN, RecordOutcome(synced) PROVE BoundaryInv'
  <2>1. cur \in Attempts /\ phase[cur] \in {"PROVIDER_INTENT", "STREAMING"}
    BY <1>6 DEF RecordOutcome, TypeInv, HandleMatchesRow, PhaseAt, Running
  <2>2. ExternalOf(bound[cur].outcome) # "NOT_SENT"
    BY DEF ExternalOf
  <2> QED BY <1>6, <2>1, <2>2 DEF RecordOutcome, BoundaryInv, TypeInv, TypeOK, Outcomes
<1>7. ASSUME NEW synced \in BOOLEAN, NEW c \in Calls, BeginAttempt(c, synced)
      PROVE  BoundaryInv'
  <2>1. c.attempt \in Attempts
    BY DEF Call
  <2> QED BY <1>7, <2>1 DEF BeginAttempt, BoundaryInv, TypeInv, TypeOK, Outcomes
<1>8. ASSUME \/ \E synced \in BOOLEAN :
                   Open(synced) \/ \E e \in Events : AppendEvent(e, synced)
             \/ \E e \in Events : AppendAgain(e)
             \/ \E c \in Calls : ResumeAttempt(c) \/ ReplayAttempt(c)
             \/ RecoverSkip \/ RecoverRefused \/ RecoverDone
             \/ FinishRefused \/ CloseClean \/ CloseBroken \/ IOError \/ Crash
             \/ Interrupt
      PROVE  BoundaryInv'
  <2>1. UNCHANGED <<phase, external, invoked>> /\ pc' # "intent"
    BY <1>8 DEF Open, AppendEvent, Outcomes, AppendAgain, ResumeAttempt, ReplayAttempt,
                RecoverSkip, RecoverRefused, RecoverDone, FinishRefused, CloseClean,
                CloseBroken, IOError, Crash, Interrupt, durable, control, handle
  <2> QED BY <2>1 DEF BoundaryInv
<1>9. CASE UNCHANGED vars
  BY <1>9 DEF vars, durable, control, handle, BoundaryInv
<1> QED BY <1>1, <1>2, <1>3, <1>4, <1>5, <1>6, <1>7, <1>8, <1>9 DEF Next

\* However often an attempt is retried, interrupted or recovered, its provider
\* is entered at most once, after durable intent; NOT_SENT is never a lie.
THEOREM ProviderEnteredOnce == Spec => []ProviderBoundary
<1>1. Init => BoundaryInv
  BY DEF Init, BoundaryInv
<1>2. TypeInv /\ BoundaryInv => ProviderBoundary
  BY DEF TypeInv, TypeOK, BoundaryInv, ProviderBoundary
<1> QED BY <1>1, <1>2, BoundaryStep, TypeInvariant, PTL DEF Spec

----------------------------------------------------------------------------
\* Terminal evidence.

\* The spool is a prefix of the script, empty until the boundary is crossed,
\* and an outcome is durable only over the whole script.
SpoolInv == \A a \in Attempts :
    /\ phase[a] \in {"absent", "USER_DURABLE"} => spool[a] = <<>>
    /\ phase[a] # "absent" =>
          /\ Len(spool[a]) <= Len(bound[a].frames)
          /\ \A i \in 1..Len(spool[a]) : spool[a][i] = bound[a].frames[i]
    /\ phase[a] = "TERMINAL_PENDING" =>
          /\ spool[a] = bound[a].frames
          /\ pending[a] = bound[a].outcome
          /\ external[a] = ExternalOf(bound[a].outcome)

LEMMA SpoolStep ==
    ASSUME TypeInv, SpoolInv, [Next]_vars
    PROVE  SpoolInv'
<1> USE JournalAssumption
<1>1. ASSUME NEW synced \in BOOLEAN, RecoverTerminalize(synced) PROVE SpoolInv'
  <2>1. /\ phase' = [phase EXCEPT ![rows[cursor]] = "TERMINAL_COMMITTED"]
        /\ UNCHANGED <<bound, spool, pending, external>>
        /\ rows[cursor] \in Attempts /\ phase[rows[cursor]] # "absent"
    BY <1>1, RecoveryTarget DEF CommitTerminal, InFlight
  <2> QED BY <2>1 DEF SpoolInv, TypeInv, TypeOK
<1>2. ASSUME NEW synced \in BOOLEAN, FinishAttempt(synced) PROVE SpoolInv'
  <2>1. /\ phase' = [phase EXCEPT ![cur] = "TERMINAL_COMMITTED"]
        /\ UNCHANGED <<bound, spool, pending, external>>
        /\ cur \in Attempts /\ phase[cur] # "absent"
    BY <1>2, FinishTarget DEF CommitTerminal
  <2> QED BY <2>1 DEF SpoolInv, TypeInv, TypeOK
<1>3. ASSUME NEW synced \in BOOLEAN, RecordIntent(synced) PROVE SpoolInv'
  <2>1. cur \in Attempts /\ phase[cur] = "USER_DURABLE"
    BY <1>3 DEF RecordIntent, TypeInv, HandleMatchesRow, PhaseAt, Running
  <2> QED BY <1>3, <2>1 DEF RecordIntent, SpoolInv, TypeInv, TypeOK
<1>4. ASSUME NEW synced \in BOOLEAN, StreamFrame(synced) PROVE SpoolInv'
  <2>1. cur \in Attempts /\ phase[cur] \in {"PROVIDER_INTENT", "STREAMING"}
    BY <1>4 DEF StreamFrame, TypeInv, HandleMatchesRow, PhaseAt, Running
  <2> DEFINE f == bound[cur].frames
             x == f[Len(spool[cur]) + 1]
  <2>2. /\ phase' = [phase EXCEPT ![cur] = "STREAMING"]
        /\ spool' = [spool EXCEPT ![cur] = Append(spool[cur], x)]
        /\ Len(spool[cur]) < Len(f)
        /\ UNCHANGED <<bound, pending, external>>
    BY <1>4 DEF StreamFrame
  <2>3. bound[cur] \in Call /\ f \in Seq(Fragment) /\ spool[cur] \in Seq(Fragment)
    BY <2>1 DEF TypeInv, TypeOK, RowsBound, Call
  <2>4. /\ Len(Append(spool[cur], x)) = Len(spool[cur]) + 1
        /\ \A i \in 1..Len(spool[cur]) : Append(spool[cur], x)[i] = spool[cur][i]
        /\ Append(spool[cur], x)[Len(spool[cur]) + 1] = x
    BY <2>3
  <2>5. /\ Len(Append(spool[cur], x)) <= Len(f)
        /\ \A i \in 1..Len(Append(spool[cur], x)) : Append(spool[cur], x)[i] = f[i]
    BY <2>1, <2>2, <2>3, <2>4 DEF SpoolInv
  <2>6. /\ spool'[cur] = Append(spool[cur], x) /\ phase'[cur] = "STREAMING"
        /\ \A a \in Attempts \ {cur} : spool'[a] = spool[a] /\ phase'[a] = phase[a]
    BY <2>1, <2>2 DEF TypeInv, TypeOK
  <2> HIDE DEF x
  <2> QED BY <2>1, <2>2, <2>5, <2>6 DEF SpoolInv
<1>5. ASSUME NEW synced \in BOOLEAN, RecordOutcome(synced) PROVE SpoolInv'
  <2>1. cur \in Attempts /\ phase[cur] \in {"PROVIDER_INTENT", "STREAMING"}
    BY <1>5 DEF RecordOutcome, TypeInv, HandleMatchesRow, PhaseAt, Running
  <2>2. /\ bound[cur] \in Call /\ bound[cur].frames \in Seq(Fragment)
        /\ spool[cur] \in Seq(Fragment)
    BY <2>1 DEF TypeInv, TypeOK, RowsBound, Call
  <2>3. /\ Len(spool[cur]) = Len(bound[cur].frames)
        /\ \A i \in 1..Len(spool[cur]) : spool[cur][i] = bound[cur].frames[i]
    BY <1>5, <2>1 DEF RecordOutcome, SpoolInv
  <2>4. spool[cur] = bound[cur].frames
    BY <2>2, <2>3, SeqEqual
  <2> QED BY <1>5, <2>1, <2>3, <2>4 DEF RecordOutcome, SpoolInv, TypeInv, TypeOK
<1>6. ASSUME NEW synced \in BOOLEAN, NEW c \in Calls, BeginAttempt(c, synced)
      PROVE  SpoolInv'
  <2>1. c.attempt \in Attempts /\ c.frames \in Seq(Fragment)
    BY DEF Call
  <2>2. /\ phase' = [phase EXCEPT ![c.attempt] = "USER_DURABLE"]
        /\ bound' = [bound EXCEPT ![c.attempt] = c]
        /\ UNCHANGED <<spool, pending, external>> /\ phase[c.attempt] = "absent"
    BY <1>6 DEF BeginAttempt
  <2>3. spool[c.attempt] = <<>>
    BY <2>1, <2>2 DEF SpoolInv
  <2>4. Len(spool[c.attempt]) = 0 /\ 0 <= Len(c.frames)
    BY <2>1, <2>3
  <2>5. /\ phase'[c.attempt] = "USER_DURABLE" /\ bound'[c.attempt] = c
        /\ \A a \in Attempts \ {c.attempt} : phase'[a] = phase[a] /\ bound'[a] = bound[a]
    BY <2>1, <2>2 DEF TypeInv, TypeOK
  <2> QED BY <2>1, <2>2, <2>3, <2>4, <2>5 DEF SpoolInv
<1>7. ASSUME \/ \E synced \in BOOLEAN :
                   Open(synced) \/ \E e \in Events : AppendEvent(e, synced)
             \/ \E e \in Events : AppendAgain(e)
             \/ \E c \in Calls : ResumeAttempt(c) \/ ReplayAttempt(c)
             \/ RecoverSkip \/ RecoverRefused \/ RecoverDone \/ InvokeProvider
             \/ FinishRefused \/ CloseClean \/ CloseBroken \/ IOError \/ Crash
             \/ Interrupt \/ UNCHANGED vars
      PROVE  SpoolInv'
  <2>1. UNCHANGED <<phase, bound, spool, pending, external>>
    BY <1>7 DEF Open, AppendEvent, AppendAgain, ResumeAttempt, ReplayAttempt,
                RecoverSkip, RecoverRefused, RecoverDone, InvokeProvider, FinishRefused,
                CloseClean, CloseBroken, IOError, Crash, Interrupt, durable, control, vars
  <2> QED BY <2>1 DEF SpoolInv
<1> QED BY <1>1, <1>2, <1>3, <1>4, <1>5, <1>6, <1>7 DEF Next

\* A terminal transaction makes the attempt's terminal evidence true and
\* leaves that of every other attempt alone.
LEMMA CommitTerminalTruth ==
    ASSUME TypeInv, SpoolInv, TerminalSlotHeld, TerminalTruth,
           NEW a \in Attempts, InFlight(a),
           NEW kind \in {None, bound[a].outcome}, kind \in Outcome \cup {None},
           kind # None => phase[a] = "TERMINAL_PENDING",
           CommitTerminal(a, kind)
    PROVE  TerminalTruth'
<1> DEFINE e == TerminalEvent(a, kind)
<1>1. /\ log' = Append(log, e) /\ log \in Seq(Event) /\ phase \in [Attempts -> Phase]
      /\ phase' = [phase EXCEPT ![a] = "TERMINAL_COMMITTED"]
      /\ UNCHANGED <<bound, spool, external>>
  BY DEF CommitTerminal, TypeInv, TypeOK
<1>2. /\ e.id = bound[a].reply.id
      /\ e.body = [status |-> IF ~Visible(spool[a]) THEN "failed"
                              ELSE IF kind = None THEN "partial" ELSE kind,
                   text |-> spool[a], external |-> external[a],
                   evidence |-> IF kind = None THEN "RECOVERY_INTERRUPTED" ELSE "OBSERVED"]
  <2>1. phase[a] # "absent"
    BY DEF InFlight
  <2>2. bound[a].reply \in Event
    BY <2>1, JournalAssumption DEF TypeInv, RowsBound, Call
  <2> QED BY <2>1, <2>2, TerminalEventType DEF TerminalEvent, Event
<1>3. e.body.status = "complete" =>
        /\ bound[a].outcome = "complete" /\ spool[a] = bound[a].frames
        /\ Visible(spool[a]) /\ external[a] = "SUCCESS"
  <2> SUFFICES ASSUME e.body.status = "complete"
               PROVE  /\ bound[a].outcome = "complete" /\ spool[a] = bound[a].frames
                      /\ Visible(spool[a]) /\ external[a] = "SUCCESS"
    OBVIOUS
  <2>1. Visible(spool[a]) /\ kind # None /\ kind = "complete"
    BY <1>2
  <2>2. bound[a].outcome = "complete" /\ phase[a] = "TERMINAL_PENDING"
    BY <2>1
  <2> QED BY <2>1, <2>2 DEF SpoolInv, ExternalOf
<1>4. e.body.text = spool[a] /\ e.body.external = external[a]
  BY <1>2
<1>5. \E j \in DOMAIN log : log[j] = bound[a].user
  BY DEF InFlight, TerminalSlotHeld
<1> HIDE DEF e
<1>6. /\ DOMAIN log = 1..Len(log) /\ Len(log) \in Nat
      /\ DOMAIN log' = 1..(Len(log) + 1) /\ log'[Len(log) + 1] = e
      /\ \A j \in 1..Len(log) : log'[j] = log[j]
  BY <1>1
<1>7. ASSUME NEW b \in Attempts, phase'[b] = "TERMINAL_COMMITTED", b # a
      PROVE  TruthfullyClosed(b)'
  <2>1. phase[b] = "TERMINAL_COMMITTED"
    BY <1>1, <1>7
  <2>2. TruthfullyClosed(b)
    BY <2>1 DEF TerminalTruth
  <2>3. PICK i \in 1..Len(log) :
           /\ log[i].id = bound[b].reply.id
           /\ \E j \in 1..(i - 1) : log[j] = bound[b].user
           /\ log[i].body.text = spool[b]
           /\ log[i].body.external = external[b]
           /\ (log[i].body.status = "complete") =>
                 /\ bound[b].outcome = "complete"
                 /\ spool[b] = bound[b].frames
                 /\ Visible(spool[b])
                 /\ external[b] = "SUCCESS"
    BY <1>6, <2>2 DEF TruthfullyClosed
  <2>4. bound' = bound /\ spool' = spool /\ external' = external
    BY <1>1
  <2>5. log'[i] = log[i] /\ i \in DOMAIN log'
    BY <1>6
  <2>6. \E j \in 1..(i - 1) : log'[j] = bound[b].user
    BY <1>6, <2>3
  <2> QED BY <2>3, <2>4, <2>5, <2>6 DEF TruthfullyClosed, Visible
<1>8. TruthfullyClosed(a)'
  <2>1. Len(log) + 1 \in DOMAIN log' /\ (Len(log) + 1) - 1 = Len(log)
    BY <1>6
  <2>2. \E j \in 1..Len(log) : log'[j] = bound[a].user
    BY <1>5, <1>6
  <2> QED BY <1>1, <1>2, <1>3, <1>4, <1>6, <2>1, <2>2 DEF TruthfullyClosed
<1> QED BY <1>7, <1>8 DEF TerminalTruth

LEMMA TruthStep ==
    ASSUME TypeInv, SpoolInv, TerminalSlotHeld, TerminalTruth, [Next]_vars
    PROVE  TerminalTruth'
<1> USE JournalAssumption
<1>1. ASSUME NEW synced \in BOOLEAN, RecoverTerminalize(synced) PROVE TerminalTruth'
  <2> DEFINE a == rows[cursor]
  <2>1. /\ a \in Attempts /\ InFlight(a) /\ CommitTerminal(a, RecoveryKind(a))
        /\ RecoveryKind(a) \in Outcome \cup {None}
    BY <1>1, RecoveryTarget
  <2> HIDE DEF a
  <2>2. /\ RecoveryKind(a) \in {None, bound[a].outcome}
        /\ RecoveryKind(a) # None => phase[a] = "TERMINAL_PENDING"
    BY <2>1 DEF RecoveryKind, SpoolInv
  <2> QED BY <2>1, <2>2, CommitTerminalTruth
<1>2. ASSUME NEW synced \in BOOLEAN, FinishAttempt(synced) PROVE TerminalTruth'
  BY <1>2, FinishTarget, CommitTerminalTruth
<1>3. ASSUME [Next]_vars,
             \A synced \in BOOLEAN : ~RecoverTerminalize(synced) /\ ~FinishAttempt(synced)
      PROVE  \A b \in Attempts : phase'[b] = "TERMINAL_COMMITTED" =>
                /\ phase[b] = "TERMINAL_COMMITTED"
                /\ bound'[b] = bound[b] /\ spool'[b] = spool[b]
                /\ external'[b] = external[b]
  <2>1. ASSUME NEW synced \in BOOLEAN,
               \/ RecordIntent(synced) \/ StreamFrame(synced) \/ RecordOutcome(synced)
        PROVE  \A b \in Attempts : phase'[b] = "TERMINAL_COMMITTED" =>
                /\ phase[b] = "TERMINAL_COMMITTED"
                /\ bound'[b] = bound[b] /\ spool'[b] = spool[b]
                /\ external'[b] = external[b]
    <3>1. cur \in Attempts
      BY <2>1 DEF RecordIntent, StreamFrame, RecordOutcome, TypeInv, HandleMatchesRow, Running
    <3> QED BY <2>1, <3>1 DEF RecordIntent, StreamFrame, RecordOutcome, TypeInv, TypeOK
  <2>2. ASSUME NEW synced \in BOOLEAN, NEW c \in Calls, BeginAttempt(c, synced)
        PROVE  \A b \in Attempts : phase'[b] = "TERMINAL_COMMITTED" =>
                /\ phase[b] = "TERMINAL_COMMITTED"
                /\ bound'[b] = bound[b] /\ spool'[b] = spool[b]
                /\ external'[b] = external[b]
    <3>1. /\ phase' = [phase EXCEPT ![c.attempt] = "USER_DURABLE"]
          /\ bound' = [bound EXCEPT ![c.attempt] = c]
          /\ UNCHANGED <<spool, external>>
      BY <2>2 DEF BeginAttempt
    <3>2. c.attempt \in Attempts
      BY DEF Call
    <3> QED BY <3>1, <3>2 DEF TypeInv, TypeOK
  <2>3. ASSUME \/ \E synced \in BOOLEAN :
                     Open(synced) \/ \E e \in Events : AppendEvent(e, synced)
               \/ \E e \in Events : AppendAgain(e)
               \/ \E c \in Calls : ResumeAttempt(c) \/ ReplayAttempt(c)
               \/ RecoverSkip \/ RecoverRefused \/ RecoverDone \/ InvokeProvider
               \/ FinishRefused \/ CloseClean \/ CloseBroken \/ IOError \/ Crash
               \/ Interrupt \/ UNCHANGED vars
        PROVE  UNCHANGED <<phase, bound, spool, external>>
    BY <2>3 DEF Open, AppendEvent, AppendAgain, ResumeAttempt, ReplayAttempt,
                RecoverSkip, RecoverRefused, RecoverDone, InvokeProvider, FinishRefused,
                CloseClean, CloseBroken, IOError, Crash, Interrupt, durable, control, vars
  <2> QED BY <1>3, <2>1, <2>2, <2>3 DEF Next
<1>4. ASSUME \A b \in Attempts : phase'[b] = "TERMINAL_COMMITTED" =>
                /\ phase[b] = "TERMINAL_COMMITTED"
                /\ bound'[b] = bound[b] /\ spool'[b] = spool[b]
                /\ external'[b] = external[b]
      PROVE  TerminalTruth'
  <2>1. log \in Seq(Event)
    BY DEF TypeInv, TypeOK
  <2>2. \A i \in DOMAIN log : i \in DOMAIN log' /\ log'[i] = log[i]
    BY <2>1, LogStep DEF Extend
  <2>3. \A i \in DOMAIN log : \A j \in 1..(i - 1) : j \in DOMAIN log
    BY <2>1
  <2>4. ASSUME NEW b \in Attempts, phase'[b] = "TERMINAL_COMMITTED"
        PROVE  TruthfullyClosed(b)'
    <3>1. TruthfullyClosed(b)
      BY <1>4, <2>4 DEF TerminalTruth
    <3> QED BY <1>4, <2>2, <2>3, <2>4, <3>1 DEF TruthfullyClosed
  <2> QED BY <2>4 DEF TerminalTruth
<1> QED BY <1>1, <1>2, <1>3, <1>4

\* Terminal evidence never says more than what was durably observed, and never
\* loses a visible fragment.
THEOREM TerminalEvidenceIsTrue == Spec => []TerminalTruth
<1>1. Init => SpoolInv /\ TerminalTruth
  BY DEF Init, SpoolInv, TerminalTruth
<1> QED BY <1>1, SpoolStep, TruthStep, SlotsAreHeld, TypeInvariant, PTL DEF Spec

----------------------------------------------------------------------------
\* Recovery completes before the handle is returned.

\* Every attempt with a row is in the scan, and rows behind the cursor are
\* done with: nothing but the scan moves a phase while it runs.
ScanInv ==
    /\ \A a \in Attempts : phase[a] # "absent" => \E i \in DOMAIN rows : rows[i] = a
    /\ pc = "recovering" =>
          \A i \in DOMAIN rows :
              i < cursor => phase[rows[i]] \in {"USER_DURABLE", "TERMINAL_COMMITTED"}

LEMMA ScanStep ==
    ASSUME TypeInv, ScanInv, [Next]_vars
    PROVE  ScanInv'
<1> USE JournalAssumption
<1>1. ASSUME NEW synced \in BOOLEAN, Open(synced) PROVE ScanInv'
  <2>1. UNCHANGED <<phase, rows>> /\ cursor' = 1 /\ rows \in Seq(Attempts)
    BY <1>1 DEF Open, control, TypeInv, TypeOK
  <2> QED BY <2>1 DEF ScanInv
<1>2. ASSUME NEW synced \in BOOLEAN, RecoverTerminalize(synced) PROVE ScanInv'
  <2>1. /\ phase' = [phase EXCEPT ![rows[cursor]] = "TERMINAL_COMMITTED"]
        /\ rows' = rows /\ cursor' = cursor + 1 /\ pc = "recovering"
        /\ rows[cursor] \in Attempts /\ phase[rows[cursor]] # "absent"
    BY <1>2, RecoveryTarget DEF RecoverTerminalize, CommitTerminal, InFlight
  <2>2. /\ rows \in Seq(Attempts) /\ cursor \in Nat /\ phase \in [Attempts -> Phase]
    BY DEF TypeInv, TypeOK
  <2>3. \A i \in DOMAIN rows : i < cursor + 1 => i < cursor \/ i = cursor
    BY <2>2
  <2> QED BY <2>1, <2>2, <2>3 DEF ScanInv
<1>3. CASE RecoverSkip
  <2>1. /\ UNCHANGED <<phase, rows>> /\ cursor' = cursor + 1 /\ pc = "recovering"
        /\ phase[rows[cursor]] \in {"USER_DURABLE", "TERMINAL_COMMITTED"}
    BY <1>3 DEF RecoverSkip, durable, control
  <2>2. rows \in Seq(Attempts) /\ cursor \in Nat
    BY DEF TypeInv, TypeOK
  <2>3. \A i \in DOMAIN rows : i < cursor + 1 => i < cursor \/ i = cursor
    BY <2>2
  <2> QED BY <2>1, <2>3 DEF ScanInv
<1>4. ASSUME NEW synced \in BOOLEAN, NEW c \in Calls, BeginAttempt(c, synced)
      PROVE  ScanInv'
  <2>1. c.attempt \in Attempts /\ rows \in Seq(Attempts) /\ phase \in [Attempts -> Phase]
    BY DEF Call, TypeInv, TypeOK
  <2>2. /\ phase' = [phase EXCEPT ![c.attempt] = "USER_DURABLE"]
        /\ rows' = Append(rows, c.attempt) /\ pc' # "recovering"
    BY <1>4 DEF BeginAttempt, Outcomes
  <2>3. /\ DOMAIN rows = 1..Len(rows) /\ Len(rows) \in Nat
        /\ DOMAIN rows' = 1..(Len(rows) + 1) /\ rows'[Len(rows) + 1] = c.attempt
        /\ \A i \in 1..Len(rows) : rows'[i] = rows[i]
    BY <2>1, <2>2
  <2> QED BY <2>1, <2>2, <2>3 DEF ScanInv
<1>5. ASSUME NEW synced \in BOOLEAN,
             \/ RecordIntent(synced) \/ StreamFrame(synced) \/ RecordOutcome(synced)
             \/ FinishAttempt(synced)
      PROVE  ScanInv'
  <2>1. cur \in Attempts /\ phase[cur] # "absent"
    BY <1>5 DEF RecordIntent, StreamFrame, RecordOutcome, FinishAttempt, TypeInv,
                HandleMatchesRow, PhaseAt, Running
  <2>2. /\ rows' = rows /\ pc' # "recovering"
        /\ \E p \in Phase : phase' = [phase EXCEPT ![cur] = p]
    BY <1>5 DEF RecordIntent, StreamFrame, RecordOutcome, FinishAttempt, CommitTerminal,
                Outcomes, Phase
  <2> QED BY <2>1, <2>2 DEF ScanInv, TypeInv, TypeOK
<1>6. ASSUME \/ \E synced \in BOOLEAN, e \in Events : AppendEvent(e, synced)
             \/ \E e \in Events : AppendAgain(e)
             \/ \E c \in Calls : ResumeAttempt(c) \/ ReplayAttempt(c)
             \/ RecoverRefused \/ RecoverDone \/ InvokeProvider
             \/ FinishRefused \/ CloseClean \/ CloseBroken \/ IOError \/ Crash
             \/ Interrupt \/ UNCHANGED vars
      PROVE  ScanInv'
  <2>1. UNCHANGED <<phase, rows, cursor>> /\ (pc' = "recovering" => pc = "recovering")
    BY <1>6 DEF AppendEvent, Outcomes, AppendAgain, ResumeAttempt, ReplayAttempt,
                RecoverRefused, RecoverDone, InvokeProvider, FinishRefused, CloseClean,
                CloseBroken, IOError, Crash, Interrupt, durable, control, handle, vars
  <2> QED BY <2>1 DEF ScanInv
<1> QED BY <1>1, <1>2, <1>3, <1>4, <1>5, <1>6 DEF Next

\* A constructor that returns has closed every attempt that crossed into the
\* provider.
THEOREM RecoveryPrecedesUse == Spec => ReadyMeansRecovered
<1>1. Init => ScanInv
  BY DEF Init, ScanInv
<1>2. TypeInv /\ ScanInv /\ [Next]_vars =>
        [(pc = "recovering" /\ pc' = "ready") =>
            \A a \in Attempts :
                phase[a] \in {"absent", "USER_DURABLE", "TERMINAL_COMMITTED"}]_vars
  <2> SUFFICES ASSUME TypeInv, ScanInv, [Next]_vars, pc = "recovering", pc' = "ready",
                      NEW a \in Attempts, phase[a] # "absent"
               PROVE  phase[a] \in {"USER_DURABLE", "TERMINAL_COMMITTED"}
    OBVIOUS
  <2>1. RecoverDone
    BY DEF Next, Open, RecoverTerminalize, AppendEvent, BeginAttempt, RecordIntent,
           StreamFrame, RecordOutcome, FinishAttempt, Outcomes, RecoverSkip,
           RecoverRefused, AppendAgain, ResumeAttempt, ReplayAttempt, InvokeProvider,
           FinishRefused, CloseClean, CloseBroken, IOError, Crash, Interrupt, Running,
           vars, handle
  <2>2. cursor > Len(rows) /\ rows \in Seq(Attempts) /\ cursor \in Nat
    BY <2>1 DEF RecoverDone, TypeInv, TypeOK
  <2>3. PICK i \in DOMAIN rows : rows[i] = a
    BY DEF ScanInv
  <2>4. i < cursor
    BY <2>2
  <2> QED BY <2>3, <2>4 DEF ScanInv
<1> QED BY <1>1, <1>2, ScanStep, TypeInvariant, PTL DEF Spec, ReadyMeansRecovered

----------------------------------------------------------------------------
\* Refinement: the journal implements EvidenceLog.

TurnMap == [a \in Attempts |-> TurnOf(phase[a])]

\* One attempt changing phase is one turn moving, or none.
LEMMA TurnMoves ==
    ASSUME TypeInv, NEW a \in Attempts, NEW p \in Phase,
           phase' = [phase EXCEPT ![a] = p]
    PROVE  /\ TurnMap' = [TurnMap EXCEPT ![a] = TurnOf(p)]
           /\ TurnMap[a] = TurnOf(phase[a])
           /\ TurnOf(p) = TurnOf(phase[a]) => TurnMap' = TurnMap
<1>1. phase \in [Attempts -> Phase]
  BY DEF TypeInv, TypeOK
<1>2. phase' \in [Attempts -> Phase] /\ phase'[a] = p
      /\ \A b \in Attempts \ {a} : phase'[b] = phase[b]
  BY <1>1
<1> QED BY <1>1, <1>2 DEF TurnMap

LEMMA ExtendStores ==
    ASSUME TypeInv, NEW e, Extend(e)
    PROVE  Evidence!Store
<1>1. /\ log \in Seq(Event) /\ e \in Event /\ log' = Append(log, e)
      /\ \A f \in Stored : ~Clash(e, f)
  BY DEF Extend, Fresh, TypeInv, TypeOK
<1>2. Len(log') = Len(log) + 1 /\ log'[Len(log')] = e /\ Len(log) \in Nat
  BY <1>1
<1>3. \A i \in DOMAIN log : log[i].id # e.id
         /\ <<log[i].session, log[i].seq>> # <<e.session, e.seq>>
  BY <1>1 DEF Stored, Clash, SameSlot
<1> QED BY <1>1, <1>2, <1>3 DEF Evidence!Store, IdentityOf, SlotOf

LEMMA NewReceiptsAcknowledge ==
    ASSUME TypeInv, [Next]_vars, receipts \subseteq receipts'
    PROVE  Evidence!Acknowledge
BY ReceiptStep DEF Evidence!Acknowledge

LEMMA RefinementInit == Init => Evidence!Init
BY DEF Init, Evidence!Init, TurnOf

LEMMA RefinementStep ==
    ASSUME TypeInv, [Next]_vars
    PROVE  [Evidence!Next]_(Evidence!absVars)
<1> USE JournalAssumption
<1>1. ASSUME NEW synced \in BOOLEAN, RecoverTerminalize(synced) PROVE Evidence!Next
  <2> DEFINE a == rows[cursor]
  <2>1. /\ a \in Attempts /\ InFlight(a)
        /\ CommitTerminal(a, RecoveryKind(a)) /\ RecoveryKind(a) \in Outcome \cup {None}
    BY <1>1, RecoveryTarget
  <2>2. receipts \subseteq receipts'
    BY <1>1 DEF RecoverTerminalize
  <2> HIDE DEF a
  <2>3. Evidence!Store /\ Evidence!Acknowledge
    BY <2>1, <2>2, CommitTerminalExtends, ExtendStores, NewReceiptsAcknowledge
  <2>4. TurnMap[a] = "crossed" /\ TurnMap' = [TurnMap EXCEPT ![a] = "ended"]
    <3>1. phase' = [phase EXCEPT ![a] = "TERMINAL_COMMITTED"]
      BY <2>1 DEF CommitTerminal
    <3>2. TurnOf("TERMINAL_COMMITTED") = "ended" /\ TurnOf(phase[a]) = "crossed"
      BY <2>1 DEF TurnOf, InFlight
    <3> QED BY <2>1, <3>1, <3>2, TurnMoves DEF Phase
  <2> QED BY <2>1, <2>3, <2>4 DEF TurnMap, Evidence!Next, Evidence!End, Evidence!Move
<1>2. ASSUME NEW synced \in BOOLEAN, FinishAttempt(synced) PROVE Evidence!Next
  <2>1. /\ cur \in Attempts /\ InFlight(cur) /\ bound[cur].outcome \in Outcome
        /\ CommitTerminal(cur, bound[cur].outcome)
    BY <1>2, FinishTarget
  <2>2. receipts \subseteq receipts'
    BY <1>2 DEF FinishAttempt
  <2>3. Evidence!Store /\ Evidence!Acknowledge
    BY <2>1, <2>2, CommitTerminalExtends, ExtendStores, NewReceiptsAcknowledge
  <2>4. TurnMap[cur] = "crossed" /\ TurnMap' = [TurnMap EXCEPT ![cur] = "ended"]
    <3>1. phase' = [phase EXCEPT ![cur] = "TERMINAL_COMMITTED"]
      BY <2>1 DEF CommitTerminal
    <3>2. TurnOf("TERMINAL_COMMITTED") = "ended" /\ TurnOf(phase[cur]) = "crossed"
      BY <2>1 DEF TurnOf, InFlight
    <3> QED BY <2>1, <3>1, <3>2, TurnMoves DEF Phase
  <2> QED BY <2>1, <2>3, <2>4 DEF TurnMap, Evidence!Next, Evidence!End, Evidence!Move
<1>3. ASSUME NEW synced \in BOOLEAN, NEW e \in Events, AppendEvent(e, synced)
      PROVE  Evidence!Next
  <2>1. Extend(e) /\ receipts \subseteq receipts' /\ phase' = phase
    BY <1>3 DEF AppendEvent, Admissible, Extend, Fresh, control
  <2>2. Evidence!Store /\ Evidence!Acknowledge
    BY <2>1, ExtendStores, NewReceiptsAcknowledge
  <2> QED BY <2>1, <2>2 DEF TurnMap, Evidence!Next, Evidence!Submit
<1>4. ASSUME NEW synced \in BOOLEAN, NEW c \in Calls, BeginAttempt(c, synced)
      PROVE  Evidence!Next
  <2>1. c.attempt \in Attempts /\ c.user \in Event
    BY DEF Call
  <2>2. /\ phase' = [phase EXCEPT ![c.attempt] = "USER_DURABLE"]
        /\ phase[c.attempt] = "absent" /\ receipts' = receipts
    BY <1>4 DEF BeginAttempt
  <2>3. log' = log \/ Extend(c.user)
    BY <1>4, <2>1 DEF BeginAttempt, Admissible, Extend, Fresh
  <2>4. Evidence!Store \/ UNCHANGED log
    BY <2>3, ExtendStores
  <2>5. TurnMap[c.attempt] = "none" /\ TurnMap' = [TurnMap EXCEPT ![c.attempt] = "accepted"]
    <3>1. TurnOf("USER_DURABLE") = "accepted" /\ TurnOf("absent") = "none"
      BY DEF TurnOf
    <3>2. /\ TurnMap' = [TurnMap EXCEPT ![c.attempt] = TurnOf("USER_DURABLE")]
          /\ TurnMap[c.attempt] = TurnOf(phase[c.attempt])
      BY <2>1, <2>2, TurnMoves DEF Phase
    <3> QED BY <2>1, <2>2, <3>1, <3>2
  <2> QED BY <2>1, <2>2, <2>4, <2>5 DEF TurnMap, Evidence!Next, Evidence!Accept, Evidence!Move
<1>5. ASSUME NEW synced \in BOOLEAN, RecordIntent(synced) PROVE Evidence!Next
  <2>1. cur \in Attempts /\ phase[cur] = "USER_DURABLE"
    BY <1>5 DEF RecordIntent, TypeInv, HandleMatchesRow, PhaseAt, Running
  <2>2. /\ phase' = [phase EXCEPT ![cur] = "PROVIDER_INTENT"]
        /\ UNCHANGED <<log, receipts>>
    BY <1>5 DEF RecordIntent
  <2>3. TurnMap[cur] = "accepted" /\ TurnMap' = [TurnMap EXCEPT ![cur] = "crossed"]
    <3>1. TurnOf("PROVIDER_INTENT") = "crossed" /\ TurnOf("USER_DURABLE") = "accepted"
      BY DEF TurnOf
    <3>2. /\ TurnMap' = [TurnMap EXCEPT ![cur] = TurnOf("PROVIDER_INTENT")]
          /\ TurnMap[cur] = TurnOf(phase[cur])
      BY <2>1, <2>2, TurnMoves DEF Phase
    <3> QED BY <2>1, <2>2, <3>1, <3>2
  <2> QED BY <2>1, <2>2, <2>3 DEF TurnMap, Evidence!Next, Evidence!Cross, Evidence!Move
<1>6. ASSUME NEW synced \in BOOLEAN, StreamFrame(synced) \/ RecordOutcome(synced)
      PROVE  UNCHANGED Evidence!absVars
  <2>1. cur \in Attempts /\ phase[cur] \in {"PROVIDER_INTENT", "STREAMING"}
    BY <1>6 DEF StreamFrame, RecordOutcome, TypeInv, HandleMatchesRow, PhaseAt, Running
  <2>2. /\ \E p \in {"STREAMING", "TERMINAL_PENDING"} : phase' = [phase EXCEPT ![cur] = p]
        /\ UNCHANGED <<log, receipts>>
    BY <1>6 DEF StreamFrame, RecordOutcome
  <2>3. TurnMap' = TurnMap
    <3>1. \A p \in {"STREAMING", "TERMINAL_PENDING"} :
              p \in Phase /\ TurnOf(p) = TurnOf(phase[cur])
      BY <2>1 DEF TurnOf, Phase
    <3> QED BY <2>1, <2>2, <3>1, TurnMoves
  <2> QED BY <2>2, <2>3 DEF TurnMap, Evidence!absVars
<1>7. ASSUME \/ \E e \in Events : AppendAgain(e)
             \/ \E c \in Calls : ReplayAttempt(c)
      PROVE  Evidence!Next
  <2>1. UNCHANGED <<log, phase>> /\ receipts \subseteq receipts'
    BY <1>7 DEF AppendAgain, ReplayAttempt, durable, control
  <2> QED BY <2>1, NewReceiptsAcknowledge DEF TurnMap, Evidence!Next, Evidence!Repeat
<1>8. ASSUME \/ \E synced \in BOOLEAN : Open(synced)
             \/ \E c \in Calls : ResumeAttempt(c)
             \/ RecoverSkip \/ RecoverRefused \/ RecoverDone \/ InvokeProvider
             \/ FinishRefused \/ CloseClean \/ CloseBroken \/ IOError \/ Crash
             \/ Interrupt \/ UNCHANGED vars
      PROVE  UNCHANGED Evidence!absVars
  <2>1. UNCHANGED <<log, phase, receipts>>
    BY <1>8 DEF Open, ResumeAttempt, RecoverSkip, RecoverRefused, RecoverDone,
                InvokeProvider, FinishRefused, CloseClean, CloseBroken, IOError, Crash,
                Interrupt, durable, control, vars
  <2> QED BY <2>1 DEF TurnMap, Evidence!absVars
<1> QED BY <1>1, <1>2, <1>3, <1>4, <1>5, <1>6, <1>7, <1>8 DEF Next

\* Every behaviour of the journal, faults included, is a behaviour of the
\* evidence log it promises.
THEOREM JournalImplementsEvidenceLog == Spec => ImplementsEvidenceLog
<1> QED BY RefinementInit, RefinementStep, TypeInvariant, PTL
    DEF Spec, ImplementsEvidenceLog, Evidence!Spec

=============================================================================
