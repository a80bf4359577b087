# Companion Mind: specifications

TLA+ models of the parts of `companion_mind` whose correctness depends on the
order in which durable steps, process exits, retries and callers meet, with TLC
configurations for small instances and TLAPS proofs for all instances.
Paths below are relative to the repository root; `store.py:302` names a line.

## 1. Inventory

### Components, their state and how they interact

| Component | State it keeps | Operations | Talks to |
| --- | --- | --- | --- |
| **A019 evidence journal** `companion_mind/journal/store.py` | SQLite tables: log, outbox, attempt control, assistant spool, meta; one open handle under `flock` | constructor with local recovery, `append`/`ingest`/`correct`, `append_user_then_invoke_stub`, `export`, `close` | called by the owned home, the read-only session and the command-line seam |
| **Replica** `store.py:368`, `journal/replica.py` | outbox columns `state`, `remote_id`, `attempts`, `readback_fingerprint`; the Drive folder | `drain_replica`; `reserve_id`, `create`, `read` of a transport | journal tables, a remote that may answer late, ambiguously or not at all |
| **A019 codec** `journal/codec.py` | none | redact, canonicalise, fingerprint, size limit | journal |
| **A019 command line** `journal/__main__.py` | none | open, one operation, close | journal |
| **Canonical Event v1** `contracts/canonical_event_v1.py` | none | validation, uniqueness, correction and order rules over a stream | tests and exports |
| **Event runtime and closure guard** `runtime.py`, `models.py` | JSONL event file; in-memory state rebuilt by replay | `ingest`, `replay`, `evaluate`, closure guard | its own file only |
| **Owned home runtime** `owned_home/runtime.py` | none durable of its own | `submit`, `observe`, `resume`, tool, human and model flows | journal, action control, human control, adapter |
| **Tool action control** `owned_home/action_control.py` | one atomically replaced snapshot of all actions | `check`, `bind`, `advance`, `reauthorize` | owned home |
| **Synthetic tool adapter** `owned_home/tool_gateway.py` | snapshot of simulated resources and effect receipts | `execute`, `readback`, `probe` | owned home |
| **Permission** `owned_home/permission.py` | none | `evaluate_permission` | owned home |
| **Human control, continuation** `owned_home/human_control.py`, `continuation.py` | one snapshot of handover records | `bind`, `lookup`, `resume_decision`, `one_hop` | owned home |
| **Read-only session** `owned_home/readonly_session.py` | `control.json`: epochs and anchors | `turn`, `observe`, `resume`, `package_ingest`, `package_validate`, `source_view`, `session_state`, `safe_export` | journal, source pack |
| **Source pack** `owned_home/source_pack.py` | package directories and active pointers | `validate_grant`, `activate_bundle`, `load_active` | read-only session |
| **Authority router, context builder** `owned_home/router.py`, `context.py` | none | `route_authorities`, `build_context` | owned home |
| **Owned home contracts** `owned_home/contracts.py` | none | `permission`, `evaluate_wake`, shapes | owned home |
| **Model gateway** `owned_home/model_gateway.py` | registry passed in | `CapabilityRegistry.select`, stub adapter | owned home |
| **Index, trace** `owned_home/index.py`, `trace.py` | a derived SQLite table, rebuilt at each lookup | `rebuild`, `search`, redacted traces | owned home |
| **Shell, test port** `owned_home/shell.py`, `testport.py` | per browser page a handle and a turn number in `localStorage` | five pages that ask, check, resume, decide and let go; a single-threaded HTTP server; a JSON front end | owned home |
| **Browser sidecar** `browser_sidecar/` | none | parse, normalise, replay, reconcile, calibrate | none |
| **Conversation recovery** `chatgpt_recovery.py`, `tools/chatgpt_recovery_*` | none | active path, artifact verification, ledger reconciliation | files |

The journal is the only owner of canonical evidence. The owned home keeps two
mutable control snapshots beside it (tools, humans) and must keep three stores
in step (journal, control, adapter) with no transaction over more than one.

### Hard behaviours

* **Exits between transactions.** A turn of the journal is five kinds of
  transaction with the provider in the middle (fault points F1 to F5); the drain
  adds F6 to F8, the tool flow eight fault points over three stores, the human
  flow seven over two.
* **Commit without acknowledgement.** `_transaction` (`store.py:152`) syncs the
  directory after `COMMIT`; when the sync fails the change is durable, the
  caller gets an error and the handle is lost.
* **Reserved identities.** An open attempt owns an event id and a session slot
  that no log row holds yet (`store.py:202`).
* **Retries.** The same call may come back on the same handle, on a reopened
  store, under the same attempt or a new one, or with a different script.
* **A remote that lies by omission.** A create may have happened although it
  raised; only 404 means absent.
* **Lost requests and answers.** A page that hears nothing does not know whether
  its request is lost, still queued at the server, or carried out; a reload
  leaves it only the handle it wrote before it asked.
* **Decisions that age.** Grants, targets, owners and clocks change between the
  durable steps of one action.

### What makes each component correct

* Journal: append-only, unique identities, receipts that stay true, an attempt
  enters the provider at most once, a terminal event that tells the truth,
  recovery that ends and precedes every use.
* Replica: never two remote files for one event, `READBACK_VERIFIED` only after
  the remote was seen to hold the event, completion only for the whole prefix,
  progress once the remote answers.
* Tool flow: at most one effect per action over all exits, no effect without a
  current permission, no redispatch after an unknown outcome, journal evidence
  that agrees with the control snapshot.
* Human flow: at most one continuation per request, none without a unique
  owner's durable CONTINUE response, one terminal reason that does not change.
* Read-only session: no answer without a grant in force, epochs that never roll
  back, one package digest behind a key, turns in order, a pending turn that can
  be resumed.
* Event runtime: replay rebuilds the state that ingest produced; a parent is
  never DONE over an unfinished child.
* Pages: no turn of a page is lost from sight, none is refused for what the
  page did, and every handle comes to an end that is shown.
* Pure algorithms (router, context, model selection, active path,
  reconciliation): agree with a declarative definition.

## 2. Plan

Modules in the order they are written; those marked * exist.

1. `Journal`*, `EvidenceLog`* (abstract), `MCJournal`*, `JournalProofs`*.
2. `Replica`*, `MCReplica`*, `ReplicaProofs`*: `drain_replica` over a Drive
   with late and ambiguous answers.
3. `ToolAction`*, `MCToolAction`*, `ToolActionProofs`*: `tool_execute`,
   `tool_observe`, `_finish_tool`, the control snapshot, the adapter and the
   journal's two events, with exits; proof of at most one effect.
4. `HumanControl`*, `MCHumanControl`*, `HumanControlProofs`*: request, respond,
   observe, resume, cancel over the control snapshot and the evidence lane, with
   the clock; proof of at most one hop.
5. `OwnedTurn`*, `MCOwnedTurn`*, `OwnedTurnProofs`*: plain, context and model turns (`submit`,
   `_submit_context`, `_model_call`, `resume`, `observe`) with routing, context
   and profile selection, over the journal's promise.
6. `ReadonlySession`*, `MCReadonlySession`*, `ReadonlySessionProofs`*: the
   package store, grants and epochs, turns over the journal's attempts.
7. `EventRuntime`*, `MCEventRuntime`*, `EventRuntimeProofs`*: ingest, closure
   guard, JSONL store across exits; proof that a replay is what the log says.
8. `Workspace`*, `MCWorkspace`*, `WorkspaceProofs`*: the pages of the shell and
   the server they ask, with lost calls, reloads and exits.
9. Pure modules against reference definitions: `ActivePath`, `CaptureReplay`,
   `CanonicalOrder`.

Every state module has one type invariant, `TypeOK`. No run spends its time on
it: `TypeCorrect` proves it of every module, for every instance. Likewise
`AppendOnly` and `LogIdentity` of the journal, `RemoteIdKept` and
`BlockedForCause` of the replica, `InputFits` of the turns and `TerminalIsFinal` of
the tool and the human flow are only proved.

## 3. Journal

### Model

`Journal.tla` has one action per committed transaction or return of
`store.py`. Durable variables are table columns (`log` is
`canonical_event_log` by `journal_offset`; `rows`, `bound`, `phase`,
`external`, `pending` are `turn_attempt_control`; `spool` is
`assistant_spool`; `clean` is a `store_meta` row). `pc`, `cur` and `cursor` are
the handle: which call is running and how far. `receipts` is every durable
receipt that left the process, `invoked` counts entries into the provider.

| Action | Code |
| --- | --- |
| `Open`, `RecoverSkip`, `RecoverTerminalize`, `RecoverRefused`, `RecoverDone` | constructor and `_recover`, one control row at a time |
| `AppendEvent`, `AppendAgain` | `append`, `ingest`, `correct` through `_append_tx` |
| `BeginAttempt`, `ResumeAttempt`, `ReplayAttempt` | entry of `append_user_then_invoke_stub` for a new, an unsent and a closed attempt |
| `RecordIntent`, `InvokeProvider`, `StreamFrame`, `RecordOutcome`, `FinishAttempt`, `FinishRefused` | the rest of that call |
| `CloseClean`, `CloseBroken` | `close` |
| `IOError`, `Crash`, `Interrupt` | a rolled-back transaction, a process exit, any other exception |

A transaction action takes `synced`: FALSE is the commit that stands while the
directory sync fails. Calls that return an error without changing anything
(`IDENTITY_CONFLICT`, `NEEDS_DECISION`, a refused slot) are stuttering steps and
have no action.

Contents are abstract: a script frame is `blank` (invisible), `text` or `bulk`
(so large that the terminal event does not fit). Sanitising, fingerprints and
JSON are left out; equal events stand for equal fingerprints. Not modelled:
generation labels, redaction flags, a second process (the `flock` refuses it),
the fork check, `export` order. The outbox row inserted with each event belongs
to the replica.

Some definitions stand in front of the one they vary (`ReserversIgnored`
before `Reservers`, and so on). They are slips: the same definition with a
plausible bug, used by no action. Substituted for the original each makes TLC
refute the property it is listed with in `PROJECT.json`, which shows that the
property depends on that code.

`EvidenceLog.tla` is what callers rely on: evidence with an identity and a slot
of its own is stored once and stays, receipts name stored evidence, and each
turn is accepted, crosses and ends in that order. `Journal` implements it with
`log`, `receipts` and a phase abstraction as the refinement mapping.

### Runs

| Run | Question | Instance |
| --- | --- | --- |
| `journal` | all safety, action properties and the refinement; every crossed attempt is closed and every opening ends usable, as long as terminal events fit | one session, five slots; a USER and its reworded twin, an event that wants attempt 1's slot, two corrections with one id; attempt 1 with two scripts, attempt 2 in its own slot, with an oversized script, or wanting attempt 1's slot; two faults |
| `journal_bulk` | does every opening end usable: refuted by an oversized script | one call, one fault |

Two attempts are enough for every pairwise conflict (`_append_tx` compares an
event with one other at a time). Two faults reach a fault during the recovery
from a fault, and a third repeats a state already seen (recovery keeps nothing
but the tables).

**Fairness.** The command line opens the store, runs one operation to its end
and closes it; `FairSpec` is that cycle: opening, recovery, the running call and
close are weakly fair. Nothing makes a caller call, and faults are bounded by
`MaxFaults`, so liveness says: once the faults stop.

**Finding (`journal_bulk`).** A script of at most 524288 raw bytes is accepted,
but newlines or quotes double in JSON and the terminal event can exceed 1048576
bytes. `_terminalize` then raises `EVENT_TOO_LARGE` after `TERMINAL_PENDING` is
durable, and every later constructor meets the same refusal in `_recover` and
closes: the store can no longer be opened.

### Proofs

`JournalProofs.tla` proves, for every choice of the constants that satisfies
`JournalAssumption` (calls obey the contract `append_user_then_invoke_stub`
checks; slots are integers):

| Theorem | Inductive invariant |
| --- | --- |
| `TypeCorrect` | `TypeInv`: types, each control row is bound to a call of its own attempt, a running handle's `cur` is such a row in the matching phase |
| `LogAppendOnly`, `LogIdentityHolds` | `TypeInv`; every append goes through `Admissible` |
| `SlotsAreHeld` | `TypeInv` and the property itself; needs `LogIdentity` |
| `EndsAreFree` | `SlotsAreHeld`, and `RepliesApart`: no two control rows ask for one place in the log |
| `ProviderEnteredOnce` | `BoundaryInv`: the handle may be about to enter only while `invoked` is 0 |
| `TerminalEvidenceIsTrue` | `SpoolInv` (the spool is a prefix of the script, all of it once the outcome is recorded) and `SlotsAreHeld` |
| `RecoveryPrecedesUse` | `ScanInv`: rows before the cursor are closed or unsent, every present attempt has a row |
| `JournalImplementsEvidenceLog` | the above; every step maps to an `EvidenceLog` step or a stutter |

Only model-checked: the two liveness properties (fairness). Their safety half is
`EndsAreFree`: while terminal events fit, nothing in the log or in another
control row can make recovery, or the caller, fail to store one.

## 4. Replica

### Model

`Replica.tla` is `drain_replica` (`store.py:368`) over a transport of
`replica.py`. An event is its journal offset. `state`, `remoteId` and `readback`
are the `replica_outbox` columns; `highWater`, `at`, `held` and `verified` are
the running drain's locals; `files` is the remote folder and `late` holds creates
that were sent, not answered and not yet carried out. `fresh` is a history
variable: the events the remote showed intact since their last attempt began.

| Action | Code |
| --- | --- |
| `Drain`, `TakeRow`, `DrainDone` | the snapshot of the high water mark, the loop over rows, the completion |
| `ReserveId`, `BindId`, `BindRefused` | `reserve_id` and the transaction that makes the id durable (`remote_id` is UNIQUE) |
| `MarkPending`, `MarkWritten`, `Checkpoint`, `RecordFailure` | the four other transactions of an attempt |
| `Read`, `Create`, `Readback` | remote calls that are answered |
| `CreateUnanswered`, `RemoteSilent`, `RemoteGarbled`, `LateCreate`, `Altered` | the remote's faults |
| `Open`, `Close`, `AppendEvent`, `Crash`, `IOError`, `Interrupt` | the handle, as in `Journal` |

Left out: `attempts` and `last_error` (nothing reads them), the wording of
receipts, and OAuth. `GoogleDrive` and `OfflineDrive` are one remote; each fault
script of `OfflineDrive` is one of the fault actions. `verified` counts rows of
this drain only, as the local `complete` of the code does.

### Runs

| Run | Question | Instance |
| --- | --- | --- |
| `replica` | one file per event, no stale claim, true completions; repeated drains verify every event once the faults stop | two events, three ids, three faults |

Two events are the least with a first row that fails and a second that succeeds;
the third id is one left over from a reservation that was never bound. Three
faults are a lost create, an exit before its retry and a late or altered file.

**Fairness.** The user drains repeatedly (`drain` is an explicit command), so a
closed handle is opened, a lost one is closed, `Drain` is strongly fair because
appends and closes may keep interrupting it, and a started drain proceeds. A
file that somebody overwrote with foreign content stays blocked for ever, which
is what the code intends: `EventuallyVerified` excepts it.

### Proofs

`ReplicaProofs.tla`, under `ReplicaAssumption` only:

| Theorem | Inductive invariant |
| --- | --- |
| `TypeCorrect` | `TypeInv`: types and `HandInv`: nothing is appended while a drain runs, `at` stays within it, and past `bind` the drain holds the id its row carries |
| `IdsAreKept`, `OneFileHolds` | `TypeInv` and the property itself: a create happens only under the held id, which is durable |
| `BlockedHolds` | `OneFileHolds` and `HandInv`: what lies under the held id is this event, foreign or nothing, so no other event and no create of an earlier attempt can block a row (`BlockedForCause`) |
| `VerifiedIsFreshHolds`, `CompletionTruth` | `ClaimInv`: a row about to be checkpointed is fresh, and this drain's verified rows are below `at` and still say so |

Only model-checked: `EventuallyVerified` (fairness); `BlockedHolds` is its safety
half.

## 5. Tool actions

### Model

`ToolAction.tla` is the tool flow of `owned_home/runtime.py:776-923` over three
stores: `users` and `answers` are the journal's USER and terminal events,
`record` the control snapshot by idempotency key, `resource` the adapter's
snapshot. No transaction spans two of them. A request is a record of the fields
the flow compares: its id, action id, key, session, turn, tier, target, grant,
value and the simulated outcome. Equal records stand for equal fingerprints.

Every operation opens its own runtime, so the grants and targets of the opening
(a `World`) are fixed for one operation and change between two. A save that
fails ends the operation, which is an exit before or after that save. `call` is
the running operation: its action, the key of the record in its hand and its
opening. `executed` is a history variable: how often the adapter took effect.

| Action | Code |
| --- | --- |
| `NewCall`, `ResumeCall` | `tool_execute` up to the record, for a new request and for an explicit resume |
| `ObserveCall` | `_observe_tool`, through `observe`, `tool_observe` or a repeated `tool_execute`; the record is found by action id |
| `Bind`, `BindRefused`, `Authorize`, `Refuse` | `bind` with its limit, `reauthorize`, and the refusal |
| `RecordDispatch`, `RecordExecuting`, `RecordReceipt` | the three `advance` calls around the adapter |
| `Execute`, `ExecuteDrifted` | `SyntheticToolAdapter.execute` |
| `FinishUnknown`, `FinishReadback`, `FinishPlain`, `Publish` | `_finish_tool`, one save at a time |
| `Crash` | an exit, at any of `TOOL_FAULTS` or elsewhere |

Tiers: `pure`, `read`, `write` are P0 to P2; `human` is P3 and P4, which only a
human could allow; `closed` is everything no grant can open. `binding` is
`"stale"` when the caller sent an expected intent or decision that is not the
current one. Refused calls that change nothing (`IDEMPOTENCY_CONFLICT`,
`SESSION_SEQUENCE_CONFLICT` and so on) have no action. Left out: scopes other than
one, milestones, the adapter's counters, receipts' remaining fields, display. The
branch that returns `EXPLICIT_READBACK_REQUIRED` cannot be reached: `_finish_tool`
is called without `explicit` only with records in other states.

### Runs

| Run | Question | Instance |
| --- | --- | --- |
| `tool_action` | one authorised effect per action, evidence that agrees with all stores, turns in order | two sessions writing to one target, a reworded request, requests of another session that claim the first's key or action id, a second turn of every other tier; openings in force, revoked, redefined and without tools; limit 2; two exits |
| `tool_action_liveness` | accepted actions are answered unless shut out | two turns of one session, another session that claims the first's key, the same openings, two exits |

Two writes to one target are what a readback can be confused by; two exits allow
an exit in the operation that resumes after one. The limit of 2 makes
`ACTION_CONTROL_LIMIT` happen with three keys.

**Fairness.** A started operation runs to its end or exits (`WF(Proceed)`).
Recovery is explicit: nothing resumes on its own, so `EventuallyAnswered` assumes
that a pending request is resumed or observed again and again, infinitely often
with the target it was bound to (strong fairness, because other operations
come between). A request whose key or action id belongs to another, or that met
the limit, may never be answered and then blocks its session; `ShutOut` excepts it.

**Action ids.** `tool_execute` looks for the action id before the USER event and
claims it only after. When two sessions send one action id and the first exits
after its USER, the second binds the id; `_observe_tool` (`runtime.py:906`) takes
the control record of the action id without comparing it with the request, so
observing the first writes the second's outcome as the first's terminal event.
The instance has such a request (`StolenAction`). `Taken` names the case, and
`EvidenceIsOwn` and `OutcomeIsTrue` say what holds in it: the evidence is that of
the request that bound the id, true of that request, and the request it is
written for had no effect of its own. In every other case the evidence is the
request's own.

### Proofs

`ToolActionProofs.tla`, under `ToolAssumption` and `NoneAssumption`:

| Theorem | Inductive invariant |
| --- | --- |
| `TypeCorrect`, `TerminalHolds`, `EffectAuthorisedHolds` | `TypeInv`: types; `CallInv`, what the operation at each point knows of the record in its hand; `OwnedInv`, a record is under its request's key and no two records share an action id or request |
| `OneEffectHolds` | `EffectInv`: what took effect is named by a record past its dispatch, and the operation is not about to execute it again |
| `EvidenceHolds` | `StoresInv`: an operation that finishes a record finishes one with its request's action id, and `OwnedInv`: only one record has it |
| `OutcomeHolds` | `StoresInv`, and `TruthInv`: what each record says of the adapter agrees with `executed`; `EffectInv` for a request whose id is `Taken` |
| `TurnsHold` | `TypeInv` and the property itself |

Only model-checked: `EventuallyAnswered` (fairness).

## 6. Human control

### Model

`HumanControl.tla` is the human flow of `owned_home/runtime.py:540-732` over two
stores: `control`, the snapshot of `human_control.py` by `human_request_id`, and
`lane`, the request's evidence events in the journal in `sequence_no` order. As
in section 5 every operation opens its own runtime, with the owner fixtures and
the clock of that opening; nothing makes the clock go forward (`human_now` is the
wall clock in `shell.py:755`). Since no two operations run at once and each save
is the whole snapshot, the record in memory is the saved one at every step.

A request is a record of what the flow compares: id, request id, task (the pair
of goal and task), owner, lifetime, budget. A response is the request it names,
an id and a command; two responses with the same text but another id are
different responses. An owner is the part of the fixture roster that matches the
request, with multiplicities, because the code never removes duplicates. `Said`
is the payload of an evidence kind, from the record it is derived from.
`hops` is a history variable: how often `one_hop` ran.

| Action | Code |
| --- | --- |
| `NewRequest`, `SameRequest` | `human_request`, `human_wake` with `bind`'s conflicts and limit |
| `Respond`, `Observe`, `Resume` | the other entries up to `_human_recover`; `Resume` is `human_resume` and `human_cancel` |
| `RecordRequest`, `Wait`, `StopOnRollback`, `SeeClock`, `StopInRecovery`, `GoOn` | `_human_recover`, one save or event at a time |
| `RecordResponse`, `BindResponse`, `CancelAnswered` | `human_respond` |
| `CancelRequest`, `Reserve`, `RecordIntent`, `Hop`, `RecordContinuation`, `Complete` | `human_resume` |
| `Terminate`, `Publish`, `Finished` | `_human_finish`, which owes a TERMINAL record up to three events |
| `Reply` | every return that writes nothing |
| `Crash` | an exit, at any of `HUMAN_FAULTS` or elsewhere |

Left out: scopes other than one, goal and task as separate values, the text of a
response, the four dimensions of a budget (their costs are all covered or not),
the wake gate's checks (a candidate that fails them changes nothing), previews,
views and traces. Evidence that conflicts with what the lane holds would raise
`HUMAN_EVIDENCE_CONFLICT`; `EvidenceAgrees` shows that it never does.

### Runs

| Run | Question | Instance |
| --- | --- | --- |
| `human_control` | evidence, record and hop agree, in order; one hop per request, request id, task and wake, and only after an answer; every bound request is closed | a request, another of the same task under another id, and one under that id without budget; CONTINUE, CANCEL and HOLD answers; the owner bound and the owner under another fixture; one wake; clock 1 to 3 over a lifetime of 1 to 3; one exit |

Times 1 to 3 hold two instants within the lifetime and the expiry itself, so
that a clock can go back and forward within it. Requests of one task exclude
each other and operations run one at a time, so handovers of several tasks at
once add interleavings but no new states of one handover; the proofs hold for
any number of them, and of exits, owners and times.

**Fairness.** A started operation runs to its end or exits (`WF(Proceed)`) and
each request is observed again and again at or after its expiry (strong
fairness, since other operations come between). There is no worker in the code:
observation is the only recovery, and a request nobody asks about stays open.

**A disagreement without a run.** `_human_recover` stops with
`CLOCK_ROLLBACK` (`runtime.py:644`) before it looks for a RESPONSE event that is
durable and not bound, which the comment at line 648 says it recovers "at this
crash boundary". The terminal evidence of such a request has no response although
the journal holds one, and a repeat of that response is refused as
`INVALID_RESPONSE_LIFECYCLE` instead of being replayed.

### Proofs

`HumanControlProofs.tla`, under `HumanAssumption` and `NoneAssumption`. One
inductive invariant, `IInv`, in three parts: `StoreOk`, the types with
`RecordOk` (a record against the hops that ran) and `LaneOk` (the lane against
the record: what each event still says, one event of a kind, REQUEST first, all
that is owed before TERMINAL); `BoundOk`, two records share no task, request id
or wake; `CallOk`, how far the running operation is and what it may rely on.
`LaneOk` is what makes the others inductive: a save must not change what durable
evidence says. `LaneMoves` shows that no save does, `PutKeeps` that no event is
written twice or after TERMINAL.

| Theorem | From `IInv` |
| --- | --- |
| `TypeCorrect`, `CountHolds`, `EvidenceHolds` | its parts |
| `OneHopHolds` | `RecordOk` and `BoundOk` |
| `HopAnsweredHolds` | `HopsChange` (only `Hop` counts) and `CallOk` at that step |
| `TerminalHolds` | `SavesOne`, `BeginsOne` and the step lemmas |
| `LaneHolds` | `OrderKept` beside `IInv`: what each event's time is, and that a record's times agree with it |

Only model-checked: `EventuallyClosed` (fairness).

## 7. Event runtime

### Model

`EventRuntime.tla` is `runtime.py` from the event store to the commit. `log` is
the file, line by line: what a line holds, or `Garbage` when it is no record, and
whether it has its line end. `memory` is the state of each open runtime:
`parent` and `child` are `parent_status` and `child_state`, `agenda`, `processed`
and `tasks` the sets of the same names, `verdict` the decision traces. `told` is
a history variable: the first verdict `ingest` returned for an event.

| Action | Code |
| --- | --- |
| `Open` | `replay`, which raises if `read` refuses the file |
| `Ingest` | a whole `ingest`: append, state, closure task, guard, commit |
| `IngestFails` | `append` raises: nothing, a part, all but the line end, or the whole line (the `fsync` failed) is in the file and nothing is applied |
| `IngestCut` | the process ends in the middle of `append` or right after it |
| `Close` | the process ends between two calls |

A repeat of a processed event returns at once and is a stuttering step. An event
carries the `dedupe_key` of its task as a value of its own, so that an instance
can make two of them equal. Left out: deltas, belief candidates and counters,
which are functions of the same inputs; spelling and trimming of statuses and
names (the parent of an upsert is one that is written without blanks around it);
the loading of a mitigation spec, of which a model has one; the command line.

### Runs

| Run | Question | Instance |
| --- | --- | --- |
| `event_runtime` | is the state what the log defines, do verdicts stand, is anything lost that can still be read | two runtimes, four lines; an item that is done and moved to another parent while open, an optional one, a closure request of each parent, one with statuses of its own, both with one dedupe key; every append may fail or be cut off in every way |
| `event_runtime_retry` | can a log of whole lines be replayed: refuted | one runtime, two events, an append that raises with its line durable |

Four lines are enough for an upsert, a request, a change of the children and a
second request; damage can come before, between and after them. The runtimes are
symmetric. The system may stop: a log that is refused opens nothing, so these
runs do not check for deadlock.

`StateIsRight` compares the step by step computation of the code with a
definition that looks at lines as a whole (the last upsert of each item before a
request). It is stated for every open runtime and the lines whose events it has
processed (`Seen`). For one that has the whole log that is the whole log. One that
missed a line, because another runtime wrote it or because its own append raised
with the line durable, is in the state of the lines it has seen, and may decide
otherwise than a replay; nothing in the code tells it so.

`StateIsRight` says DONE if and only if a request was accepted. It does not say
that the children of a DONE parent are terminal: a child may be added or
reopened afterwards, and a request that brings its own children is decided on
those alone.

**Finding (`event_runtime_retry`).** The repeat of an event whose append raised
is appended again, and `read` refuses the duplicate id from then on.

Two smaller disagreements have no run. `Event` accepts an `event_id` that is only
white space and `Event.from_mapping` refuses it on every later read; the model's
events have other ids. Request `c` for parent `a:b` and request `b:c` for parent
`a` have one `dedupe_key`: the later is processed without a decision, which
`StateIsRight` states. It fails closed: no parent becomes DONE by it.

### Proofs

`EventRuntimeProofs.tla`, under `EventAssumption`, for any runtimes, events and
length of the log. What a replay leaves is a matter of induction over the lines,
and the induction theorems of the library take an operator, which the provers
cannot instantiate. So induction is stated of a set of numbers: `UpTo` says that
a set with 0 and with the successor of each of its numbers below N holds all up to
N, and follows from the least number of a set (`LeastNumber`, from the
well-foundedness of `<`). `Replayed` is a recursive function, that is, the choice
of one that satisfies its equation; `ReplayExists` shows by induction that there
is one, so that `ReplayStep` may use the equation.

`RightFor(m, lines)` says that memory `m` is what these lines of the log define:
the tasks taken, each child as its last upsert left it, the agenda, the verdicts,
the parents that are DONE. `RightStep` is the core: one event more keeps it, if
its line comes after the others. It carries the replay (`ReplayRight`) and each
`ingest` alike. The inductive invariant `IInv` is `TypeOK` with, while the log can
be read,

* `RuntimeOk`: an open runtime has processed events of the log only, and is right
  for their lines;
* `ToldOk`: a verdict that was told is the one the whole log gives that request.

`StateIsRight` alone is not inductive: it does not say which tasks are taken, nor
that the log holds what was processed, without which a new line could be one that
a runtime had already counted. `WriteIs` says what an append may leave: a log that
can be read afterwards could be read before, and has at most that one event more,
new to it. A step leaves the lines there are (`RightStays`), and a line at the end
changes nothing that was decided before it (`Growth`).

| Theorem | From `IInv` |
| --- | --- |
| `TypeCorrect` | its part |
| `FailsClosedHolds` | `RuntimeOk` and `ToldOk` |
| `VerdictsHold` | both, for a runtime that has seen every line |
| `StateHolds` | `RuntimeOk` and `LastIsOne`: no two last upserts are of one item |
| `DamageStays` | `WriteIs`; a property of steps, only proved |

All properties of the run are proved.

## 8. Read-only session and source pack

### Model

`ReadonlySession.tla` is `readonly_session.py` over `source_pack.py`. `epochs` and
`anchors` are the two parts of `control.json`; `stored` the published package
directories (a manifest, and whether the bytes are its own); `active` the
pointers; `users` and `attempts` what the journal holds of the profile: the USER
events, and per request the attempt row with its template and how far it is.
`call` is the running operation with the clock, bundle and grant its request
brought; `reply` the answer the last operation handed out.

The journal's `flock` lets one runtime at a time open a directory, and the
protocol seam runs one operation per runtime (`execute_readonly_request`), so
operations do not overlap. They stop anywhere: `Exit` is an exit or an IO error
between two durable writes, `Open` the next runtime, whose journal closes the
attempts that had crossed into the provider (section 3).

| Action | Code |
| --- | --- |
| `Begin` | the first `_checked_input` or `_active`: the one grant of the package, `validate_grant`, the epoch saved when it rose |
| `Publish`, `Point` | `activate_bundle`: stage, readback and rename; the pointer |
| `Ask` | `turn` up to the durable USER event, for a new turn and for a resume |
| `Bind`, `BindRefused` | the attempt row, or `ATTEMPT_IDENTITY_CONFLICT` |
| `Cross`, `Close` | provider intent; the terminal event |
| `Return` | the turn's own `observe(authorize=False)`, the anchor, the return |
| `Observe` | `observe`, also of a turn asked again |
| `Stop` | an inspection returns, or the operation is refused after `Begin` |

An operation refused in its first grant check changes nothing and has no action.
`Loads` is `_active` with `load_active`; the slips in front of definitions are
explained in section 3.

A request is its id; a session is the pair of task and session id. A package is
a key (id and version), a digest, its life and the first expiry of its sources; a
bundle holds its bytes or does not. The template of a reply is what can differ
between two operations on one turn: the clock, the grant and two counters.

Left out: scopes other than one; which evidence `_context` selects, and with it
whether an answer is READY or HOLD; the shape, size and path checks of a bundle;
`ro_info`; the digest of a grant. A bundle does not change while an operation
runs, except that what is staged may differ from what was validated, which the
readback catches (`Copy`; `CopyUnread` leaves it out). The shell's own setup,
which activates its demo bundle without opening the journal, is not modelled.

### Runs

| Run | Question | Instance |
| --- | --- | --- |
| `readonly` | does everything asked, answered and shown rest on one whole package and the highest epoch | two digests of one key, of which one expires at 2; epochs 1 and 2 of a grant, the later without `ro_observe` and expiring at 2, a revoked one beside the other package's grant, two grants offered at once; two turns of a session, one request id also over the other digest and for another task; clocks 1 and 2; two exits |
| `readonly_resume` | a resume with everything as it was concludes: refuted | one grant, one turn, one clock, one exit |

Two clocks separate a question from its resume and hold an expiry between them.
Two exits leave a turn pending and cut its resume off as well. Two turns are
enough for a session with one before the last, two digests for a conflict. The
model starts every operation that `Begin` allows in every idle state, so it never
comes to rest, and deadlock is checked.

No liveness is claimed: a pending turn is answered only by an explicit resume,
and the finding below shows one that no resume can answer.

**Finding (`readonly_resume`).** The reply template holds `safe_counters`
(`readonly_session.py:480`). A turn asked by `ro_turn` has validated no bundle; a
resume has validated one before it comes to the template. If the process exits
with the attempt row durable and the boundary not entered (F1, which
`docs/journal/phase1.md:98` wants resumed), every resume builds another template,
the journal refuses it, and the session accepts no further turn
(`PENDING_TURN_REQUIRES_RESUME`). No fault point of the owned home exits there.

Three more disagreements have no run of their own.

* The USER event holds the request's clock (`readonly_session.py:342`), so a
  resume at a later clock is refused with `IDENTITY_CONFLICT`. The shell brings a
  new clock with every request (`shell.py:633`) and cannot resume at all. The
  model has this in `Askable`; the property that rests on it is
  `AnswersAreGranted`.
* `validate_grant` refuses a revoked grant before `_grant` would save its epoch
  (`readonly_session.py:251`). An older copy, not revoked, is then accepted again
  unless some operation ran under a higher epoch. `EpochsHold` is therefore
  about the epochs operations ran under.
* The shell writes its demo bundle anew at each start (`shell.py:621`), with a new
  digest under the same key; over the same directory every activation then fails
  with `PACKAGE_KEY_DIGEST_CONFLICT`.

### Proofs

`ReadonlySessionProofs.tla`, under `ReadonlyAssumption` and `NoneAssumption`. The
inductive invariant
`IInv` adds three parts to the types and two of the properties. `CallKept`: what
the running operation was given stays true of the tables until it ends; its
grant's epoch is the remembered one, the turn it answers is asked at its clock,
the row it moves on carries its template. `StoreKept`: every published directory
is whole and alone under its key. `UsersStored`: whatever was asked was asked
over a published directory. The last is why `OneSource` holds although pointers
and bundles change: directories are never removed.

| Theorem | From `IInv` |
| --- | --- |
| `TypeCorrect`, `PointersAreWhole`, `RepliesAreGranted` | its parts |
| `SourcesAreOne` | `UsersStored` and `StoreKept` |
| `EpochsAreHeld` | `CallKept` and `Begin`, the only step that writes epochs |
| `RepliesHold` | `ReplyKept`: no reply is left over while an operation runs |
| `AnchorsAdvance` | `OrderKept`: a pending turn is the last of its session, an anchor is an answered turn |

## 9. Context and model turns

### Model

`OwnedTurn.tla` has the turns of `owned_home/runtime.py`: those of a topic, with
or without a model (`377-526`: `route_authorities`, `CapabilityRegistry.select`,
`build_context`), and plain ones, which name one source and version and no topic
(`180-300`); for all, the call through the journal, and `observe`. A turn without
topic is a plain one (`IsPlain`), as `_turn_type` has it. `users` holds the
USER events, `attempts` per request the attempt or the terminal event: its
template (the whole context) and how far it is. `call` is the running operation,
`reply` the answer shown last.

Fixtures, grants and profiles are arguments of the runtime's constructor. They
make up a `World`: each operation has the one of its opening, and the next may
have any other. Only the journal persists. One operation runs at a time, as the
journal's `flock` and the command seam of `testport.py` have it; `Exit` cuts it
off between two durable steps, `Open` closes what had crossed (section 3).

| Action | Code |
| --- | --- |
| `SubmitPlain`, `Submit` | `submit` and `_submit_context` for a new request up to the durable USER event |
| `Resume` | `resume`, which rebuilds the turn from its USER event |
| `Bind`, `Refused` | the attempt row of the journal, or `ATTEMPT_IDENTITY_CONFLICT` when the row has another template |
| `StopModel` | the terminal event of a model turn that stops before its call, ingested without an attempt |
| `Cross`, `Close` | provider intent, terminal event; what is between them is section 3 |
| `Return`, `Observe` | `observe` with `_observe_context` or, for a plain turn, the permission of that moment; at the end of a turn and on its own (`observe`, `session_state`, a repeated `submit`) |
| `Exit`, `Open` | exits and IO errors, the next runtime |

The template depends on the world through `Context`: sources found and chosen,
decisions, conflicts, what the topic's last context no longer stands for, recent
turns that still stand and fit, the profile, the reason to stop. It also depends on
the other USER events of the session: `Segments`, where the topic was taken up, and
`Rebuild`, whether this turn continues it. `Template` adds the
specification the caller expected, whose context was previewed before the turn was
asked, hence without the turns of higher numbers (`ContextThen`). Its field `rests` is a history field: the
sources whose text the input holds, directly or inside the answers of the recent
turns it repeats. It is derived from the other fields and decides nothing.
A plain turn's template (`PlainContext`) is the permission it met, the first
fixture listed of its source and version, and the reason to stop. `w.first` says
which fixtures of a world are listed first: revisions of one version may differ.

Data is abstract. Sources, versions and revisions are numbers because the code
sorts by them. Texts have a size in units of one recent turn, which is also the
size of a question without evidence. What a profile offers stands for
capabilities, output reserve, cost and latency limits alike; `rank` for the
order by cost, latency, key and version. Two templates are equal if and only if
their fingerprints are. Left out: tool turns in the same session, `observed_at`
(a resume takes it from the USER event), what working sets, boot packs, ledgers and traces have beside these fields (it
follows from them and from the topic's answered turns, which stay as they are
while a turn waits), previews as operations, the
five results of a stub script, the lexical index. Refused submissions change
nothing and have no action.

### Runs

| Run | Question | Instance |
| --- | --- | --- |
| `owned_turns` | is everything in an input and everything shown readable there and unchanged; are turns in order; which bound attempts can be resumed | four turns of a session over two topics, the third asked under another premise or of a model, with and without needs of their own; a plain turn beside the third, under its request id and with little budget; a plain turn of another session under the request id of the second, and a turn there under that of the fourth, with little budget; openings before and after a source is rewritten and doubled with the preferred profile gone, and after two sources are revoked or unknown with that profile down; one exit |

Two recent turns of four (`RecentTurns`) and two sources of five (`MaxEvidence`)
let the fourth turn leave out the first and make the limits bind; the budget of
6 holds a question, two sources and part of the rest. With these all six stop
reasons occur, also `MODEL_SPEC_INVALID`, a fallback profile, an input with a
recent turn that repeats a recent turn, and one that leaves out selected
evidence. One exit is enough: an unanswered turn is all that outlives it, and a
resume in another world is refused with or without a second. Every idle state
can be continued or observed, so deadlock is checked.

`InputIsReadable` and `ShownIsReadable` are stated over `rests`: a recent turn
carries the text of sources that the turn repeating it did not route. The code
admits a recent turn only if the snapshot of its own needs equals that of the
present turn's and the premise is the same; the properties say that this is
enough, also through several turns.
`RecentsUnchecked`, which relies on the topic's last context alone, breaks the
first.

No liveness is claimed: nothing resumes a turn on its own.

**What a reader should know.** A plain turn's answer is shown as long as its
source and version are permitted, also after the source was rewritten or
withdrawn: `observe` compares the permission only (`runtime.py:172-176`). So
`ShownIsReadable` asks of plain turns that the source may be read, and of the
others that it also says the same. Plain turns of a session come in any order
and leave each other pending (only the number must be free, `store.py:207`); one
that is pending still holds up the turns of topics.

They also get past a pending turn of a topic, and may make it unresumable for
ever. A template holds the segments of its topic and what its context was built
for, both read off all USER events of the session with the resumed turn put last
(`runtime.py:427-436`, `context.py:134`). Say turn 1 of topic A is answered, turn 2
of A is bound and the process exits, and the plain turn 3 is asked. Turn 2 was
bound with the segment that begins at turn 1, as `TURN_ADVANCED`; from now on it
begins a segment of its own, as `TOPIC_REACTIVATED`. No opening makes the bound
template again, every resume ends in `ATTEMPT_IDENTITY_CONFLICT`, and the session
takes no turn of a topic any more. A turn that took its topic up (the first of it,
or after one of another) is not harmed, nor is one that is bound only after it was
overtaken. `PendingIsResumable` has this as its exception, `Lost`, and says that
it is exact: a bound turn can be resumed if and only if it is not lost.

After an exit between the attempt row and the
provider intent, the resume must build the same template. In an opening with
other sources, decisions or profiles it is refused, and the session takes no
further turn (`PENDING_TURN_REQUIRES_RESUME`) until an opening like the first
comes back. `PendingIsResumable` says that such an opening exists, unless the turn
is lost, not that it comes. `resume(request_id)` passes no expected specification
(`runtime.py:207`), so a turn submitted with one may be resumed without it; the
model resumes with any.

### Proofs

`OwnedTurnProofs.tla`, under `OwnedAssumption`, in two layers. `IInv` is types,
`RowOk` (the running turn's attempt is as far as the turn), `TurnsInOrder` itself
and `UsersOk`: finitely many turns, no request twice, and every nonempty set of stored turns has a
last one, which holds by adding one turn and gives `Latest` a value without an
induction. `Kept` adds what the rows hold. `TemplateOk` says of a template that
its snapshot names all it rests on as it is, and that its policy permits it
(`Covers`). `Valid` shows that an answer that is not invalidated covers the same
under the new snapshot, `CoveredIsReadable` that what a snapshot of an opening
covers is readable there: together they carry a source through any chain of
recent turns.

| Theorem | From |
| --- | --- |
| `TypeCorrect`, `TurnsOrdered` | `IInv` |
| `ShownHolds` | `TemplateOk` of the rows and `ShownIs` |
| `InputHolds` | `CallOk`: what a bound row rests on is readable in the opening that runs it |
| `PendingHolds` | `BoundOk` and `TemplateStays`: a waiting turn of a topic is the only one of its session (`OnlyWaiting`), so the answers its context is made of are there and do not change. `SegmentsStay`: only plain turns are added meanwhile; under a turn of a topic there is always another turn, so one of a lower number begins no segment, and one of a higher number changes nothing for a turn that begins its own. `LostForEver` is the other direction |
| `FitsHolds` | `ContextFits`: what `StopReason` lets through fits when it is made; a row keeps its template |

All properties of the run are proved. `FitsHolds` is about what no run lists,
`InputFits`: sources and recent turns of an input fit together in the turn's
budget and in the profile, and each in its own limit (`MCOwnedTurn` agrees, and
refutes it when `Included` or `Fitting` takes all it is given). Both are recursive
functions: an item is taken on the strength of those taken before it. That such
a function exists for every finite set is `GreedyExists`: among the sets that are
closed downward and have one, a largest is the whole set, or its first missing
member could be added (`SmallestSet`, `FirstOf`). The last source taken was taken
with all the others in place, so all of them fit (`IncludedFits`), and so does the
oldest recent turn (`FittingFits`). Nothing is said of sizes but that they depend
on the sources and on the number of turns. The assumption asks for finite sets
of fixtures, for names that are numbered, and for profiles with an identity and
a rank of their own (`DUPLICATE_PROFILE_IDENTITY`, `model_gateway.py:197`).

## 10. Workspace pages

### Model

`Workspace.tla` is the browser side of `shell.py` together with the server it
asks: the scripts of "/" (`JS`), "/continuity", "/models", "/tools" and "/human",
and `make_server`. A behaviour is of one page (`page`), because pages share no
record, session or turn. `storage` is the page's `localStorage` record, `tab` the
running script: the same handle and number, the state it shows, what it is busy
with and whether that request is out. `wire` is the queue of requests, `turns`
what the stores hold of each handle, abstracted to a phase. `shown` is a history
variable: the turns whose end the page has shown. "Turn" stands for a turn, an
action or a decision request.

| Action | Code |
| --- | --- |
| `Submit`, `NewHandle` | the forms: a new handle, stored before the first call, or a second look at one that was not found |
| `Resume`, `Decide`, `NewTurn`, `Switch` | the buttons, in the states their `controls` offers them |
| `Send`, `Fail`, `Load` | a `fetch` goes out, fails, is abandoned by a reload |
| `ServeObserve`, `ServeTurn`, `ServeHandle`, with `Reply` and `Hear` | `do_POST` and the runtime's answer; `render` and the script's next call |
| `Reject` | content refused before a store is opened |
| `Cut`, `Exit` | the operation raises or the process exits half way; an exit between requests |

The server is an `HTTPServer`, single-threaded and without keep-alive, so it
serves connections in the order it accepted them, and a request whose page is
gone is served all the same. Each request opens the stores anew, which ends what
had crossed (section 3); what sections 3 to 9 show of the operations is taken
here as given and not modelled twice.

The five scripts are one model because they are one protocol; where they differ
(`Unresolved`, `Droppable`, `SessionPerTurn`, `Ends`, `First`) the definition
says so. `PROJECT.json` maps each definition to the script that shows it most
plainly. Abstracted: a ready-to-resume and an explicitly-reconcilable action are
both `AWAIT`; "Choose topic" of the models page is `NewTurn`; a rejected entry on
the tools page changes nothing and has no action. Left out: invalid or
unavailable storage, origin checks, texts, and the read-only page (see below).

### Runs

| Run | Question | Instance |
| --- | --- | --- |
| `workspace` | is every turn kept in sight, does the server take every turn it is sent, does every handle settle | each page in turn, three handles, four faults |

Two handles show a number that depends on an earlier answer, the third one whose
predecessor's answer was lost; four faults lose a request, its repeat, an answer
and cut an operation short. The user may stop, so deadlock is not checked.

**Fairness.** The script runs and a call whose connection is gone fails (the
browser), the server serves what it accepted, and the user presses Check or
Resume where the page offers it: nothing in the code does that by itself, so
`EventuallySettled` says that the buttons suffice, not that anyone uses them.
It has one exception: a decision request whose outcome the home does not
know (`RECOVERY_UNKNOWN`, `CLOCK_ROLLBACK`, `runtime.py:740`) has status UNKNOWN
for ever. The human page then offers only "Check request"; `next` needs STOP or
NOT_FOUND (`shell.py:548`) and `create` is disabled, so the page is of no further
use until its storage is cleared by hand.

Two cases are not covered, because a resume of a waiting turn always ends here
(`Outcomes`). On the tools page, an action that meets `ACTION_CONTROL_LIMIT` with
its USER event durable (`action_control.py:126`) is refused by every later resume
as well (section 5), so its handle never settles. And a server started again with
other sources, grants or profiles refuses the resume of a bound turn
(`ATTEMPT_IDENTITY_CONFLICT`, section 9) as long as it has them.

**What a reader should know.** None of these has a run.

* Two tabs of one page share the storage record but not the running script.
  The number of the tab that stays behind is refused with
  `SESSION_SEQUENCE_CONFLICT`. The model has one tab.
* The read-only page replaces its handle at every submission, also while the turn
  before is pending (`shell.py:57`), has one session for all of them, and
  resumes with another clock than it asked with; see section 8 for what that
  does. Its server refuses every `ro_source_view`: the handler reads
  `readonly_manifest` (`shell.py:740`), a local that only the branch of `ro_turn`
  binds (`shell.py:709`).

### Proofs

`WorkspaceProofs.tla`, under `WorkspaceAssumption` and `NoneAssumption`, for
every set of pages and any number of handles and faults. `IInv` rests on one
idea: an awaited request is the last in the queue (`AwaitedOk`), so when the page
hears an answer the queue is empty, and what it heard stays true until it asks
again. `AbsentOk` says so of "not found", `TurnOk` that a turn in the queue is
the only one and still new, `SeenOk` that what is stored and not shown is the
turn in hand, `NumberOk` that the page's number is its turn's, or the next one.

| Theorem | From `IInv` |
| --- | --- |
| `TypeCorrect`, `UnseenHeldHolds` | its parts |
| `TurnsFitHold` | `TurnOk`, `SeenOk` and `NumberOk`; `NumberIs` shows that the number above a set of turns is the only one that fits |

Only model-checked: `EventuallySettled` (fairness).
