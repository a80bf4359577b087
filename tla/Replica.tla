------------------------------ MODULE Replica ------------------------------
(***************************************************************************)
(* The journal's replica: drain_replica of companion_mind/journal/store.py *)
(* over a transport of companion_mind/journal/replica.py.  One drain walks *)
(* the outbox in journal order and gives every event one attempt: reserve  *)
(* a remote id, commit it, read, create, read back, checkpoint.  The       *)
(* remote may answer late, ambiguously or not at all, its files may be     *)
(* altered behind the journal's back, and the process may exit anywhere.   *)
(*                                                                         *)
(* An event is its journal offset; its canonical JSON is told apart from   *)
(* every other event's and from Foreign content.                           *)
(***************************************************************************)
EXTENDS Naturals, FiniteSets

CONSTANTS
    MaxEvents,  \* bound on the journal's length
    RemoteIds,  \* ids the remote may preallocate
    None,       \* SQL NULL; a file that does not exist
    Foreign,    \* content that is no event's canonical JSON
    MaxFaults   \* bound on everything that goes wrong in a behaviour

ASSUME ReplicaAssumption ==
    /\ MaxEvents \in Nat
    /\ MaxFaults \in Nat
    /\ None \notin RemoteIds
    /\ None \notin Nat
    /\ Foreign \notin Nat
    /\ Foreign # None

Events == 1..MaxEvents
State  == {"PENDING", "WRITTEN", "READBACK_VERIFIED", "RETRYABLE_FAILED",
           "PERMANENT_BLOCKED"}

VARIABLES
    length,    \* journal_offset of the newest event
    state,     \* replica_outbox.state
    remoteId,  \* replica_outbox.remote_id
    readback,  \* replica_outbox.readback_fingerprint is set: "1"
    pc,        \* where the open handle is
    highWater, \* the running drain's snapshot of length
    at,        \* the row being drained
    held,      \* the remote id in the drain's hand
    verified,  \* events this drain has checkpointed
    files,     \* the remote folder: id to content
    late,      \* creates sent, not answered, not yet carried out
    fresh,     \* events the remote showed intact since their last attempt began
    faults     \* faults so far

outbox == <<length, state, remoteId, readback>>
drain  == <<highWater, at, held, verified>>
remote == <<files, late>>
vars   == <<outbox, pc, drain, remote, fresh, faults>>

Draining == {"row", "reserve", "bind", "mark", "read", "create", "write",
             "readback", "checkpoint", "blocked", "retryable"}
PC == Draining \cup {"closed", "ready", "broken"}

TypeOK ==
    /\ length \in 0..MaxEvents
    /\ state \in [Events -> State]
    /\ remoteId \in [Events -> RemoteIds \cup {None}]
    /\ readback \in [Events -> {"0", "1"}]
    /\ pc \in PC
    /\ highWater \in 0..MaxEvents
    /\ at \in 1..(MaxEvents + 1)
    /\ held \in RemoteIds \cup {None}
    /\ verified \subseteq Events
    /\ files \in [RemoteIds -> Events \cup {None, Foreign}]
    /\ late \subseteq RemoteIds \X Events
    /\ fresh \subseteq Events
    /\ faults \in Nat

\* Rows beyond length do not exist yet; they hold their inserted values.
Init ==
    /\ length = 0
    /\ state = [e \in Events |-> "PENDING"]
    /\ remoteId = [e \in Events |-> None]
    /\ readback = [e \in Events |-> "0"]
    /\ pc = "closed"
    /\ highWater = 0
    /\ at = 1
    /\ held = None
    /\ verified = {}
    /\ files = [r \in RemoteIds |-> None]
    /\ late = {}
    /\ fresh = {}
    /\ faults = 0

Fault == faults < MaxFaults /\ faults' = faults + 1

\* A transaction returns, or its commit stands while the directory sync
\* fails and the handle is lost.
Outcomes(synced, next) ==
    IF synced THEN pc' = next /\ UNCHANGED faults ELSE pc' = "broken" /\ Fault

----------------------------------------------------------------------------
\* Life of the handle.

Open ==
    /\ pc = "closed"
    /\ pc' = "ready"
    /\ UNCHANGED <<outbox, drain, remote, fresh, faults>>

\* Any append puts an outbox row beside its event in the same transaction.
AppendEvent(synced) ==
    /\ pc = "ready"
    /\ length < MaxEvents
    /\ length' = length + 1
    /\ Outcomes(synced, "ready")
    /\ UNCHANGED <<state, remoteId, readback, drain, remote, fresh>>

Close ==
    /\ pc \in {"ready", "broken"}
    /\ pc' = "closed"
    /\ UNCHANGED <<outbox, drain, remote, fresh, faults>>

\* A process exit, F7 and F8 among them.
Crash ==
    /\ pc # "closed"
    /\ pc' = "closed"
    /\ Fault
    /\ UNCHANGED <<outbox, drain, remote, fresh>>

\* A transaction rolls back on an IO error.
IOError ==
    /\ pc \in {"ready", "bind", "mark", "write", "checkpoint", "blocked", "retryable"}
    /\ pc' = "broken"
    /\ Fault
    /\ UNCHANGED <<outbox, drain, remote, fresh>>

\* An exception that is no Exception abandons the drain, not the handle.
Interrupt ==
    /\ pc \in Draining
    /\ pc' = "ready"
    /\ Fault
    /\ UNCHANGED <<outbox, drain, remote, fresh>>

----------------------------------------------------------------------------
\* One drain.

Drain ==
    /\ pc = "ready"
    /\ pc' = "row"
    /\ highWater' = length
    /\ at' = 1
    /\ held' = None
    /\ verified' = {}
    /\ UNCHANGED <<outbox, remote, fresh, faults>>

\* Slips, here and below: the definition that follows as a plausible bug
\* would have it.  No action uses them; each breaks a property (README).
TakeRowReservesAgain ==
    /\ pc = "row"
    /\ at <= highWater
    /\ held' = remoteId[at]
    /\ pc' = IF state[at] # "READBACK_VERIFIED" THEN "reserve" ELSE "mark"
    /\ UNCHANGED <<outbox, highWater, at, verified, remote, fresh, faults>>

TakeRowSkipsBlocked ==
    /\ pc = "row"
    /\ at <= highWater
    /\ IF state[at] = "PERMANENT_BLOCKED"
       THEN at' = at + 1 /\ UNCHANGED <<pc, held>>
       ELSE /\ held' = remoteId[at]
            /\ pc' = IF remoteId[at] = None THEN "reserve" ELSE "mark"
            /\ UNCHANGED at
    /\ UNCHANGED <<outbox, highWater, verified, remote, fresh, faults>>

TakeRow ==
    /\ pc = "row"
    /\ at <= highWater
    /\ held' = remoteId[at]
    /\ pc' = IF remoteId[at] = None THEN "reserve" ELSE "mark"
    /\ UNCHANGED <<outbox, highWater, at, verified, remote, fresh, faults>>

Taken(r) == \E e \in Events : remoteId[e] = r

\* files.generateIds; an id some row already has is a fault of the remote.
ReserveId(r) ==
    /\ pc = "reserve"
    /\ held' = r
    /\ pc' = "bind"
    /\ IF Taken(r) THEN Fault ELSE UNCHANGED faults
    /\ UNCHANGED <<outbox, highWater, at, verified, remote, fresh>>

\* The id is durable before anything is created under it; remote_id is UNIQUE.
BindId(synced) ==
    /\ pc = "bind"
    /\ ~Taken(held)
    /\ remoteId' = [remoteId EXCEPT ![at] = held]
    /\ Outcomes(synced, "mark")
    /\ UNCHANGED <<length, state, readback, drain, remote, fresh>>

BindRefused ==
    /\ pc = "bind"
    /\ Taken(held)
    /\ pc' = "broken"
    /\ UNCHANGED <<outbox, drain, remote, fresh, faults>>

MarkSkipsVerified(synced) ==
    /\ pc = "mark"
    /\ state' = [state EXCEPT ![at] = IF @ = "READBACK_VERIFIED" THEN @ ELSE "PENDING"]
    /\ fresh' = fresh \ {at}
    /\ Outcomes(synced, "read")
    /\ UNCHANGED <<length, remoteId, readback, drain, remote>>

\* attempts + 1, state PENDING; an older readback_fingerprint stays.
MarkPending(synced) ==
    /\ pc = "mark"
    /\ state' = [state EXCEPT ![at] = "PENDING"]
    /\ fresh' = fresh \ {at}
    /\ Outcomes(synced, "read")
    /\ UNCHANGED <<length, remoteId, readback, drain, remote>>

\* Only an explicit not-found leads to a create.
Read ==
    /\ pc = "read"
    /\ pc' = CASE files[held] = None -> "create"
               [] files[held] = at   -> "write"
               [] OTHER              -> "blocked"
    /\ UNCHANGED <<outbox, drain, remote, fresh, faults>>

\* An answered create: made now, or found there (409) and compared.
Create ==
    /\ pc = "create"
    /\ IF files[held] = None
       THEN files' = [files EXCEPT ![held] = at] /\ pc' = "write"
       ELSE UNCHANGED files /\ pc' = IF files[held] = at THEN "write" ELSE "blocked"
    /\ UNCHANGED <<outbox, drain, late, fresh, faults>>

\* A create whose answer is lost: it may be carried out, later, or never.
CreateUnanswered ==
    /\ pc = "create"
    /\ pc' = "retryable"
    /\ late' \in {late, late \cup {<<held, at>>}}
    /\ Fault
    /\ UNCHANGED <<outbox, drain, files, fresh>>

\* A reservation or a read without an answer is not an absence.
RemoteSilent ==
    /\ pc \in {"reserve", "read", "readback"}
    /\ pc' = "retryable"
    /\ Fault
    /\ UNCHANGED <<outbox, drain, remote, fresh>>

\* An answer that is not what the file holds.
RemoteGarbled ==
    /\ pc \in {"read", "create", "readback"}
    /\ files[held] # None
    /\ pc' = "blocked"
    /\ Fault
    /\ UNCHANGED <<outbox, drain, remote, fresh>>

MarkWritten(synced) ==
    /\ pc = "write"
    /\ state' = [state EXCEPT ![at] = "WRITTEN"]
    /\ Outcomes(synced, "readback")
    /\ UNCHANGED <<length, remoteId, readback, drain, remote, fresh>>

Readback ==
    /\ pc = "readback"
    /\ IF files[held] = at
       THEN pc' = "checkpoint" /\ fresh' = fresh \cup {at}
       ELSE pc' = "blocked" /\ UNCHANGED fresh
    /\ UNCHANGED <<outbox, drain, remote, faults>>

Checkpoint(synced) ==
    /\ pc = "checkpoint"
    /\ state' = [state EXCEPT ![at] = "READBACK_VERIFIED"]
    /\ readback' = [readback EXCEPT ![at] = "1"]
    /\ verified' = verified \cup {at}
    /\ at' = at + 1
    /\ Outcomes(synced, "row")
    /\ UNCHANGED <<length, remoteId, highWater, held, remote, fresh>>

FailureCounted(synced) ==
    /\ pc \in {"blocked", "retryable"}
    /\ state' = [state EXCEPT ![at] =
                    IF pc = "blocked" THEN "PERMANENT_BLOCKED" ELSE "RETRYABLE_FAILED"]
    /\ readback' = [readback EXCEPT ![at] = "0"]
    /\ verified' = verified \cup {at}
    /\ at' = at + 1
    /\ Outcomes(synced, "row")
    /\ UNCHANGED <<length, remoteId, highWater, held, remote, fresh>>

\* The except clause: a classified failure, and on to the next row.
RecordFailure(synced) ==
    /\ pc \in {"blocked", "retryable"}
    /\ state' = [state EXCEPT ![at] =
                    IF pc = "blocked" THEN "PERMANENT_BLOCKED" ELSE "RETRYABLE_FAILED"]
    /\ readback' = [readback EXCEPT ![at] = "0"]
    /\ at' = at + 1
    /\ Outcomes(synced, "row")
    /\ UNCHANGED <<length, remoteId, highWater, held, verified, remote, fresh>>

Completion == IF Cardinality(verified) = highWater THEN "READBACK_VERIFIED" ELSE "INCOMPLETE"

DrainDone ==
    /\ pc = "row"
    /\ at > highWater
    /\ pc' = "ready"
    /\ UNCHANGED <<outbox, drain, remote, fresh, faults>>

----------------------------------------------------------------------------
\* The remote on its own.

LateCreate(r, e) ==
    /\ <<r, e>> \in late
    /\ late' = late \ {<<r, e>>}
    /\ files' = IF files[r] = None THEN [files EXCEPT ![r] = e] ELSE files
    /\ UNCHANGED <<outbox, pc, drain, fresh, faults>>

\* Somebody edits or deletes a file in the folder.
Altered(r) ==
    /\ files[r] # None
    /\ files' \in {[files EXCEPT ![r] = c] : c \in {None, Foreign}}
    /\ Fault
    /\ UNCHANGED <<outbox, pc, drain, late, fresh>>

----------------------------------------------------------------------------
Proceed ==
    \/ TakeRow \/ DrainDone \/ BindId(TRUE) \/ BindRefused \/ MarkPending(TRUE)
    \/ Read \/ Create \/ MarkWritten(TRUE) \/ Readback \/ Checkpoint(TRUE)
    \/ RecordFailure(TRUE)
    \/ \E r \in RemoteIds : ReserveId(r) /\ ~Taken(r)

Next ==
    \/ Open \/ Close \/ Crash \/ IOError \/ Interrupt
    \/ \E synced \in BOOLEAN :
          \/ AppendEvent(synced) \/ BindId(synced) \/ MarkPending(synced)
          \/ MarkWritten(synced) \/ Checkpoint(synced) \/ RecordFailure(synced)
    \/ Drain \/ TakeRow \/ BindRefused \/ Read \/ Create \/ CreateUnanswered
    \/ RemoteSilent \/ RemoteGarbled \/ Readback \/ DrainDone
    \/ \E r \in RemoteIds : ReserveId(r) \/ Altered(r)
    \/ \E r \in RemoteIds, e \in Events : LateCreate(r, e)

Spec == Init /\ [][Next]_vars

\* Drains are explicit and repeated: a lost handle is closed and reopened,
\* an idle one is drained again and again, and a drain runs to its end.
Fairness ==
    /\ WF_vars(Open)
    /\ WF_vars(pc = "broken" /\ Close)
    /\ SF_vars(Drain)
    /\ WF_vars(Proceed)

FairSpec == Spec /\ Fairness

----------------------------------------------------------------------------
\* What the replica promises.

\* Every file that holds an event, and every create still under way, is
\* under the one id that event's outbox row carries: no retry, lost answer or
\* exit ever makes a second file of an event.
OneFilePerEvent ==
    /\ \A r \in RemoteIds : files[r] \in Events => remoteId[files[r]] = r
    /\ \A p \in late : remoteId[p[2]] = p[1]
    /\ \A e, f \in Events : remoteId[e] = remoteId[f] /\ remoteId[e] # None => e = f

\* READBACK_VERIFIED is said only of an event the remote showed intact after
\* its last attempt began, across exits and repeated drains.
VerifiedIsFresh ==
    \A e \in Events : state[e] = "READBACK_VERIFIED" => e \in fresh /\ readback[e] = "1"

\* A completion receipt covers the journal's whole prefix as it is when the
\* drain returns: every event in it is checkpointed and was freshly read back.
CompletionIsTrue ==
    [][ (DrainDone /\ Completion = "READBACK_VERIFIED") =>
            \A e \in 1..length : state[e] = "READBACK_VERIFIED" /\ e \in fresh ]_vars

\* The id of an event is never changed or given up once it is durable.
RemoteIdKept ==
    [][ \A e \in Events : remoteId[e] # None => remoteId'[e] = remoteId[e] ]_vars

\* An attempt blocks its event only for what the remote shows: an answer nobody
\* can read, or a file somebody overwrote or, after it was written, removed.
\* Retries, exits and the journal's own creates, however late, block nothing
\* (store.py:396-419).
BlockedForCause ==
    [][ pc # "blocked" /\ pc' = "blocked" =>
            \/ RemoteGarbled
            \/ files[held] = Foreign
            \/ pc = "readback" /\ files[held] = None ]_vars

\* Once the faults stop, every event is verified, unless its file was altered.
EventuallyVerified ==
    \A e \in Events :
        (e <= length) ~>
            \/ state[e] = "READBACK_VERIFIED"
            \/ \E r \in RemoteIds : remoteId[e] = r /\ files[r] = Foreign
=============================================================================
