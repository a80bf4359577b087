--------------------------- MODULE ReplicaProofs ---------------------------
(***************************************************************************)
(* Proofs about Replica, for every journal length, set of remote ids and   *)
(* number of faults.  HandInv ties the drain's hand to the outbox row it   *)
(* works on; everything else rests on it.                                  *)
(***************************************************************************)
EXTENDS Replica, FiniteSetTheorems, TLAPS

\* Past "bind" the drain holds the id its row carries; before, the row has
\* none.  A drain's snapshot is the journal's length: nothing is appended
\* while it runs.
HandInv ==
    /\ pc \in Draining => highWater = length /\ at <= highWater + 1
    /\ pc \in Draining \ {"row"} => at <= highWater
    /\ pc \in {"mark", "read", "create", "write", "readback", "checkpoint"} =>
          held \in RemoteIds /\ remoteId[at] = held
    /\ pc \in {"reserve", "bind"} => remoteId[at] = None
    /\ pc = "bind" => held \in RemoteIds

TypeInv == TypeOK /\ HandInv

LEMMA TypeInit == Init => TypeInv
BY ReplicaAssumption DEF Init, TypeInv, TypeOK, HandInv, State, PC, Draining, Events

\* The row being drained is a row.
LEMMA RowIsEvent ==
    ASSUME TypeInv, pc \in Draining \ {"row"}
    PROVE  at \in Events
BY ReplicaAssumption DEF TypeInv, TypeOK, HandInv, Events

\* Either way out of a transaction.
LEMMA OutcomesType ==
    ASSUME TypeInv, NEW synced \in BOOLEAN, NEW next, Outcomes(synced, next)
    PROVE  pc' \in {next, "broken"} /\ faults' \in Nat
<1>1. CASE synced
  BY <1>1 DEF Outcomes, TypeInv, TypeOK
<1>2. CASE ~synced
  BY <1>2 DEF Outcomes, Fault, TypeInv, TypeOK
<1> QED BY <1>1, <1>2

LEMMA TypeStep == TypeInv /\ [Next]_vars => TypeInv'
<1> SUFFICES ASSUME TypeInv, [Next]_vars PROVE TypeInv'
  OBVIOUS
<1> USE ReplicaAssumption
<1>1. CASE Open \/ Close \/ Crash \/ IOError \/ Interrupt
  BY <1>1 DEF TypeInv, TypeOK, HandInv, PC, Draining, Open, Close, Crash, IOError, Interrupt,
              Fault, outbox, drain, remote
<1>2. ASSUME NEW synced \in BOOLEAN, AppendEvent(synced) PROVE TypeInv'
  <2>1. pc' \in {"ready", "broken"} /\ faults' \in Nat
    BY <1>2, OutcomesType DEF AppendEvent
  <2> QED BY <1>2, <2>1 DEF TypeInv, TypeOK, HandInv, PC, Draining, AppendEvent, drain, remote
<1>3. CASE Drain \/ TakeRow \/ DrainDone
  <2>1. TypeOK'
    <3>1. CASE Drain
      BY <3>1 DEF TypeInv, TypeOK, PC, Draining, Drain, outbox, remote
    <3>2. CASE TakeRow
      <4>1. at \in Events
        BY <3>2 DEF TypeInv, TypeOK, TakeRow, Events
      <4> QED BY <3>2, <4>1 DEF TypeInv, TypeOK, PC, Draining, TakeRow, outbox, remote
    <3>3. CASE DrainDone
      BY <3>3 DEF TypeInv, TypeOK, PC, DrainDone, outbox, drain, remote
    <3> QED BY <1>3, <3>1, <3>2, <3>3
  <2>2. HandInv'
    BY <1>3 DEF TypeInv, TypeOK, HandInv, PC, Draining, Drain, TakeRow, DrainDone, Events, outbox,
                drain, remote
  <2> QED BY <2>1, <2>2 DEF TypeInv
<1>4. ASSUME NEW r \in RemoteIds, ReserveId(r) PROVE TypeInv'
  BY <1>4 DEF TypeInv, TypeOK, HandInv, PC, Draining, ReserveId, Fault, outbox, remote
<1>5. ASSUME NEW synced \in BOOLEAN, BindId(synced) PROVE TypeInv'
  <2>1. at \in Events
    BY <1>5, RowIsEvent DEF BindId, Draining
  <2>2. pc' \in {"mark", "broken"} /\ faults' \in Nat
    BY <1>5, OutcomesType DEF BindId
  <2> QED
    BY <1>5, <2>1, <2>2 DEF TypeInv, TypeOK, HandInv, PC, Draining, BindId, drain, remote
<1>6. CASE BindRefused \/ Read \/ RemoteSilent \/ RemoteGarbled
  BY <1>6 DEF TypeInv, TypeOK, HandInv, PC, Draining, BindRefused, Read, RemoteSilent,
              RemoteGarbled, Fault, outbox, drain, remote
<1>7. CASE Create \/ CreateUnanswered
  <2>1. at \in Events /\ held \in RemoteIds
    BY <1>7, RowIsEvent DEF Create, CreateUnanswered, Draining, TypeInv, HandInv
  <2>2. CASE Create
    <3>1. files' \in [RemoteIds -> Events \cup {None, Foreign}]
      BY <2>1, <2>2 DEF Create, TypeInv, TypeOK
    <3>2. pc' \in {"write", "blocked"}
      BY <2>2 DEF Create
    <3> QED
      BY <2>1, <2>2, <3>1, <3>2 DEF TypeInv, TypeOK, HandInv, PC, Draining, Create, outbox, drain
  <2>3. CASE CreateUnanswered
    BY <2>1, <2>3 DEF TypeInv, TypeOK, HandInv, PC, Draining, CreateUnanswered, Fault, outbox, drain
  <2> QED BY <1>7, <2>2, <2>3
<1>8. ASSUME NEW synced \in BOOLEAN, MarkPending(synced) \/ MarkWritten(synced) PROVE TypeInv'
  <2>1. at \in Events
    BY <1>8, RowIsEvent DEF MarkPending, MarkWritten, Draining
  <2>2. pc' \in {"read", "readback", "broken"} /\ faults' \in Nat
    BY <1>8, OutcomesType DEF MarkPending, MarkWritten
  <2> QED
    BY <1>8, <2>1, <2>2 DEF TypeInv, TypeOK, HandInv, PC, State, Draining, MarkPending,
                            MarkWritten, drain, remote
<1>9. ASSUME NEW synced \in BOOLEAN, Checkpoint(synced) \/ RecordFailure(synced) PROVE TypeInv'
  <2>1. at \in Events
    BY <1>9, RowIsEvent DEF Checkpoint, RecordFailure, Draining
  <2>2. pc' \in {"row", "broken"} /\ faults' \in Nat
    BY <1>9, OutcomesType DEF Checkpoint, RecordFailure
  <2>3. TypeOK'
    <3>1. CASE Checkpoint(synced)
      BY <2>1, <2>2, <3>1 DEF TypeInv, TypeOK, PC, State, Draining, Checkpoint, remote, Events
    <3>2. CASE RecordFailure(synced)
      BY <2>1, <2>2, <3>2 DEF TypeInv, TypeOK, PC, State, Draining, RecordFailure, remote, Events
    <3> QED BY <1>9, <3>1, <3>2
  <2>4. HandInv'
    BY <1>9, <2>1, <2>2 DEF TypeInv, TypeOK, HandInv, Draining, Checkpoint, RecordFailure, Events
  <2> QED BY <2>3, <2>4 DEF TypeInv
<1>10. CASE Readback
  <2>1. at \in Events
    BY <1>10, RowIsEvent DEF Readback, Draining
  <2> QED
    BY <1>10, <2>1 DEF TypeInv, TypeOK, HandInv, PC, Draining, Readback, outbox, drain, remote
<1>11. ASSUME NEW r \in RemoteIds, Altered(r) PROVE TypeInv'
  BY <1>11 DEF TypeInv, TypeOK, HandInv, Altered, Fault, outbox, drain
<1>12. ASSUME NEW r \in RemoteIds, NEW e \in Events, LateCreate(r, e) PROVE TypeInv'
  BY <1>12 DEF TypeInv, TypeOK, HandInv, LateCreate, outbox, drain
<1>13. CASE UNCHANGED vars
  BY <1>13 DEF TypeInv, TypeOK, HandInv, vars, outbox, drain, remote
<1> QED
  BY <1>1, <1>2, <1>3, <1>4, <1>5, <1>6, <1>7, <1>8, <1>9, <1>10, <1>11, <1>12, <1>13 DEF Next

LEMMA TypeInvariant == Spec => []TypeInv
BY TypeInit, TypeStep, PTL DEF Spec

\* Outbox columns, drain, remote folder and handle keep their types.
THEOREM TypeCorrect == Spec => []TypeOK
BY TypeInvariant, PTL DEF TypeInv

----------------------------------------------------------------------------
\* The id of an event is never changed or given up once it is durable: only
\* BindId writes remote_id, and only over NULL.
THEOREM IdsAreKept == Spec => RemoteIdKept
<1>1. ASSUME TypeInv, [Next]_vars
      PROVE  \A e \in Events : remoteId[e] # None => remoteId'[e] = remoteId[e]
  <2>1. ASSUME NEW synced \in BOOLEAN, BindId(synced)
        PROVE  \A e \in Events : remoteId[e] # None => remoteId'[e] = remoteId[e]
    <3>1. remoteId[at] = None /\ remoteId' = [remoteId EXCEPT ![at] = held]
      BY <1>1, <2>1 DEF BindId, TypeInv, HandInv
    <3> QED BY <1>1, <3>1 DEF TypeInv, TypeOK
  <2>2. ASSUME NEW synced \in BOOLEAN,
               \/ AppendEvent(synced) \/ MarkPending(synced) \/ MarkWritten(synced)
               \/ Checkpoint(synced) \/ RecordFailure(synced)
        PROVE  UNCHANGED remoteId
    BY <2>2 DEF AppendEvent, MarkPending, MarkWritten, Checkpoint, RecordFailure
  <2>3. CASE \/ Open \/ Close \/ Crash \/ IOError \/ Interrupt \/ Drain \/ TakeRow \/ BindRefused
             \/ Read \/ Create \/ CreateUnanswered \/ RemoteSilent \/ RemoteGarbled \/ Readback
             \/ DrainDone
    BY <2>3 DEF Open, Close, Crash, IOError, Interrupt, Drain, TakeRow, BindRefused, Read, Create,
                CreateUnanswered, RemoteSilent, RemoteGarbled, Readback, DrainDone, outbox
  <2>4. ASSUME NEW r \in RemoteIds,
               ReserveId(r) \/ Altered(r) \/ \E e \in Events : LateCreate(r, e)
        PROVE  UNCHANGED remoteId
    BY <2>4 DEF ReserveId, Altered, LateCreate, outbox
  <2>5. CASE UNCHANGED vars
    BY <2>5 DEF vars, outbox
  <2> QED BY <1>1, <2>1, <2>2, <2>3, <2>4, <2>5 DEF Next
<1> QED BY <1>1, TypeInvariant, PTL DEF Spec, RemoteIdKept

----------------------------------------------------------------------------
\* One file per event.

\* Files and creates under way change only under the drain's hand or by a
\* create the drain once sent.
LEMMA OneFileStep == TypeInv /\ OneFilePerEvent /\ [Next]_vars => OneFilePerEvent'
<1> SUFFICES ASSUME TypeInv, OneFilePerEvent, [Next]_vars PROVE OneFilePerEvent'
  OBVIOUS
<1> USE ReplicaAssumption
<1>1. ASSUME NEW synced \in BOOLEAN, BindId(synced) PROVE OneFilePerEvent'
  <2>1. at \in Events /\ held \in RemoteIds /\ remoteId[at] = None
    BY <1>1, RowIsEvent DEF BindId, Draining, TypeInv, HandInv
  <2>2. /\ remoteId' = [remoteId EXCEPT ![at] = held]
        /\ \A e \in Events : remoteId[e] # held
        /\ UNCHANGED remote
    BY <1>1 DEF BindId, Taken
  <2>3. \A r \in RemoteIds : files[r] \in Events => files[r] # at
    BY <2>1 DEF OneFilePerEvent
  <2>4. \A p \in late : p[2] \in Events /\ p[2] # at
    BY <2>1 DEF OneFilePerEvent, TypeInv, TypeOK
  <2> QED BY <2>1, <2>2, <2>3, <2>4 DEF OneFilePerEvent, TypeInv, TypeOK, remote
<1>2. CASE Create \/ CreateUnanswered
  <2>1. at \in Events /\ held \in RemoteIds /\ remoteId[at] = held
    BY <1>2, RowIsEvent DEF Create, CreateUnanswered, Draining, TypeInv, HandInv
  <2> QED
    BY <1>2, <2>1 DEF Create, CreateUnanswered, OneFilePerEvent, TypeInv, TypeOK, outbox
<1>3. ASSUME NEW r \in RemoteIds, NEW e \in Events, LateCreate(r, e) PROVE OneFilePerEvent'
  BY <1>3 DEF LateCreate, OneFilePerEvent, TypeInv, TypeOK, outbox
<1>4. ASSUME NEW r \in RemoteIds, Altered(r) PROVE OneFilePerEvent'
  BY <1>4 DEF Altered, OneFilePerEvent, TypeInv, TypeOK, outbox, Events
<1>5. ASSUME UNCHANGED <<remoteId, files, late>> PROVE OneFilePerEvent'
  BY <1>5 DEF OneFilePerEvent
<1>6. ASSUME NEW synced \in BOOLEAN,
             \/ AppendEvent(synced) \/ MarkPending(synced) \/ MarkWritten(synced)
             \/ Checkpoint(synced) \/ RecordFailure(synced)
      PROVE  OneFilePerEvent'
  BY <1>5, <1>6 DEF AppendEvent, MarkPending, MarkWritten, Checkpoint, RecordFailure, remote
<1>7. CASE \/ Open \/ Close \/ Crash \/ IOError \/ Interrupt \/ Drain \/ TakeRow \/ BindRefused
           \/ Read \/ RemoteSilent \/ RemoteGarbled \/ Readback \/ DrainDone \/ UNCHANGED vars
  BY <1>5, <1>7 DEF Open, Close, Crash, IOError, Interrupt, Drain, TakeRow, BindRefused, Read,
                    RemoteSilent, RemoteGarbled, Readback, DrainDone, outbox, remote, vars
<1>8. ASSUME NEW r \in RemoteIds, ReserveId(r) PROVE OneFilePerEvent'
  BY <1>5, <1>8 DEF ReserveId, outbox, remote
<1> QED BY <1>1, <1>2, <1>3, <1>4, <1>6, <1>7, <1>8 DEF Next

\* No retry, lost answer, late create or exit makes a second file of an event.
THEOREM OneFileHolds == Spec => []OneFilePerEvent
<1>1. Init => OneFilePerEvent
  BY ReplicaAssumption DEF Init, OneFilePerEvent, Events
<1> QED BY <1>1, OneFileStep, TypeInvariant, PTL DEF Spec

----------------------------------------------------------------------------
\* Claims of verification.

\* What this drain has checkpointed is verified and fresh, and lies behind
\* the row it is at; a row about to be checkpointed has just been read back.
ClaimInv ==
    /\ VerifiedIsFresh
    /\ pc = "checkpoint" => at \in fresh
    /\ pc \in Draining => \A e \in verified : e < at /\ state[e] = "READBACK_VERIFIED"

LEMMA ClaimStep == TypeInv /\ ClaimInv /\ [Next]_vars => ClaimInv'
<1> SUFFICES ASSUME TypeInv, ClaimInv, [Next]_vars PROVE ClaimInv'
  OBVIOUS
<1> USE DEF ClaimInv, VerifiedIsFresh
<1>1. CASE Open \/ Close \/ Crash \/ IOError \/ Interrupt
  BY <1>1 DEF Draining, Open, Close, Crash, IOError, Interrupt, outbox, drain
<1>2. ASSUME NEW synced \in BOOLEAN, AppendEvent(synced) PROVE ClaimInv'
  <2>1. pc' \in {"ready", "broken"}
    BY <1>2, OutcomesType DEF AppendEvent
  <2> QED BY <1>2, <2>1 DEF Draining, AppendEvent, drain
<1>3. CASE Drain \/ TakeRow \/ DrainDone \/ BindRefused \/ Read \/ RemoteSilent \/ RemoteGarbled
  BY <1>3 DEF Draining, Drain, TakeRow, DrainDone, BindRefused, Read, RemoteSilent, RemoteGarbled,
              outbox, drain
<1>4. CASE Create \/ CreateUnanswered
  BY <1>4 DEF Draining, Create, CreateUnanswered, outbox, drain
<1>5. CASE Readback
  BY <1>5 DEF Draining, Readback, outbox, drain
<1>6. ASSUME NEW synced \in BOOLEAN, BindId(synced) PROVE ClaimInv'
  <2>1. pc' \in {"mark", "broken"}
    BY <1>6, OutcomesType DEF BindId
  <2> QED BY <1>6, <2>1 DEF Draining, BindId, drain
<1>7. ASSUME NEW synced \in BOOLEAN, MarkPending(synced) \/ MarkWritten(synced) PROVE ClaimInv'
  <2>1. at \in Events /\ at \in Nat
    BY <1>7, RowIsEvent DEF MarkPending, MarkWritten, Draining, Events
  <2>2. pc' \in {"read", "readback", "broken"} /\ pc \in Draining
    BY <1>7, OutcomesType DEF MarkPending, MarkWritten, Draining
  <2>3. at \notin verified
    BY <2>1, <2>2
  <2> QED BY <1>7, <2>1, <2>2, <2>3 DEF TypeInv, TypeOK, MarkPending, MarkWritten, drain
<1>8. ASSUME NEW synced \in BOOLEAN, Checkpoint(synced) PROVE ClaimInv'
  <2>1. at \in Events /\ at \in Nat /\ Events \subseteq Nat
    BY <1>8, RowIsEvent DEF Checkpoint, Draining, Events
  <2>2. pc' \in {"row", "broken"} /\ pc \in Draining
    BY <1>8, OutcomesType DEF Checkpoint, Draining
  <2> QED BY <1>8, <2>1, <2>2 DEF TypeInv, TypeOK, Checkpoint
<1>9. ASSUME NEW synced \in BOOLEAN, RecordFailure(synced) PROVE ClaimInv'
  <2>1. at \in Events /\ at \in Nat /\ Events \subseteq Nat
    BY <1>9, RowIsEvent DEF RecordFailure, Draining, Events
  <2>2. pc' \in {"row", "broken"} /\ pc \in Draining
    BY <1>9, OutcomesType DEF RecordFailure, Draining
  <2> QED BY <1>9, <2>1, <2>2 DEF TypeInv, TypeOK, RecordFailure
<1>10. ASSUME NEW r \in RemoteIds,
              ReserveId(r) \/ Altered(r) \/ \E e \in Events : LateCreate(r, e)
       PROVE  ClaimInv'
  BY <1>10 DEF Draining, ReserveId, Altered, LateCreate, outbox, drain
<1>11. CASE UNCHANGED vars
  BY <1>11 DEF vars, outbox, drain
<1> QED
  BY <1>1, <1>2, <1>3, <1>4, <1>5, <1>6, <1>7, <1>8, <1>9, <1>10, <1>11 DEF Next

LEMMA ClaimInvariant == Spec => []ClaimInv
<1>1. Init => ClaimInv
  BY DEF Init, ClaimInv, VerifiedIsFresh, Draining
<1> QED BY <1>1, ClaimStep, TypeInvariant, PTL DEF Spec

\* READBACK_VERIFIED is said only of an event read back since its last
\* attempt began.
THEOREM VerifiedIsFreshHolds == Spec => []VerifiedIsFresh
BY ClaimInvariant, PTL DEF ClaimInv

\* A drain that reports READBACK_VERIFIED has checkpointed the whole journal:
\* as many distinct events as the journal holds, none beyond it.
THEOREM CompletionTruth == Spec => CompletionIsTrue
<1>1. ASSUME TypeInv, ClaimInv, DrainDone, Completion = "READBACK_VERIFIED"
      PROVE  \A e \in 1..length : state[e] = "READBACK_VERIFIED" /\ e \in fresh
  <2>1. pc \in Draining /\ highWater = length /\ at = length + 1 /\ length \in 0..MaxEvents
    BY <1>1, ReplicaAssumption DEF DrainDone, Draining, TypeInv, HandInv, TypeOK
  <2>2. verified \subseteq 1..length
    BY <1>1, <2>1 DEF TypeInv, TypeOK, ClaimInv, Events
  <2>3. Cardinality(verified) = length
    BY <1>1, <2>1 DEF Completion
  <2>4. IsFiniteSet(1..length) /\ Cardinality(1..length) = length
    BY <2>1, FS_Interval
  <2>5. verified = 1..length
    BY <2>2, <2>3, <2>4, FS_Subset
  <2>6. 1..length \subseteq Events
    BY <2>1, ReplicaAssumption DEF Events
  <2> QED BY <1>1, <2>1, <2>5, <2>6 DEF ClaimInv, VerifiedIsFresh
<1> QED BY <1>1, TypeInvariant, ClaimInvariant, PTL DEF Spec, CompletionIsTrue

----------------------------------------------------------------------------
\* No event is blocked by another, nor by an earlier attempt of its own: under
\* the id in the drain's hand there is its own event or none of the journal's.
THEOREM BlockedHolds == Spec => BlockedForCause
<1>1. ASSUME TypeInv, OneFilePerEvent, [Next]_vars, pc # "blocked", pc' = "blocked"
      PROVE  \/ RemoteGarbled
             \/ files[held] = Foreign
             \/ pc = "readback" /\ files[held] = None
  <2>1. CASE Read \/ Create \/ Readback
    <3>1. at \in Events /\ held \in RemoteIds /\ remoteId[at] = held
      BY <1>1, <2>1, RowIsEvent DEF Read, Create, Readback, Draining, TypeInv, HandInv
    <3>2. files[held] \in Events => files[held] = at
      BY <1>1, <3>1, ReplicaAssumption DEF OneFilePerEvent
    <3>3. files[held] \in Events \cup {None, Foreign}
      BY <1>1, <3>1 DEF TypeInv, TypeOK
    <3>4. files[held] # at /\ (files[held] = None => pc = "readback")
      BY <1>1, <2>1 DEF Read, Create, Readback
    <3> QED BY <3>2, <3>3, <3>4
  <2>2. CASE RemoteGarbled
    BY <2>2
  <2>3. ASSUME NEW synced \in BOOLEAN,
               \/ AppendEvent(synced) \/ BindId(synced) \/ MarkPending(synced)
               \/ MarkWritten(synced) \/ Checkpoint(synced) \/ RecordFailure(synced)
        PROVE  FALSE
    <3>1. pc' \in {"ready", "mark", "read", "readback", "row", "broken"}
      BY <1>1, <2>3, OutcomesType
         DEF AppendEvent, BindId, MarkPending, MarkWritten, Checkpoint, RecordFailure
    <3> QED BY <1>1, <3>1
  <2>4. CASE \/ Open \/ Close \/ Crash \/ IOError \/ Interrupt \/ Drain \/ TakeRow \/ BindRefused
             \/ CreateUnanswered \/ RemoteSilent \/ DrainDone \/ UNCHANGED vars
    BY <1>1, <2>4 DEF Open, Close, Crash, IOError, Interrupt, Drain, TakeRow, BindRefused,
                      CreateUnanswered, RemoteSilent, DrainDone, vars
  <2>5. ASSUME NEW r \in RemoteIds,
               ReserveId(r) \/ Altered(r) \/ \E e \in Events : LateCreate(r, e)
        PROVE  FALSE
    BY <1>1, <2>5 DEF ReserveId, Altered, LateCreate
  <2> QED BY <1>1, <2>1, <2>2, <2>3, <2>4, <2>5 DEF Next
<1> QED BY <1>1, TypeInvariant, OneFileHolds, PTL DEF Spec, BlockedForCause
=============================================================================
