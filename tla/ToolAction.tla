----------------------------- MODULE ToolAction -----------------------------
(***************************************************************************)
(* The permissioned tool flow of companion_mind/owned_home: tool_execute,  *)
(* tool_observe and _finish_tool of runtime.py over the control snapshot   *)
(* of action_control.py, the synthetic adapter of tool_gateway.py and the  *)
(* journal's USER and terminal events.  Three stores, no transaction over  *)
(* two of them, and an exit possible between any two durable steps.        *)
(*                                                                         *)
(* Every operation opens its own runtime, with the grants and targets of   *)
(* that opening: a World.  A save that fails ends the operation, so it is  *)
(* an exit before or after the snapshot is replaced.                       *)
(***************************************************************************)
EXTENDS Integers, FiniteSets

CONSTANTS
    Requests,    \* ActionRequests callers may send
    Worlds,      \* what an opening is given: targets and grants
    MaxActions,  \* 1024 in ToolActionControl.bind
    MaxExits,    \* bound on exits in a behaviour
    None         \* absent: record, receipt, answer, resource, target, reason

Tier    == {"pure", "read", "write", "human", "closed"}
Script  == {"SUCCESS", "FAILED", "PARTIAL", "UNKNOWN"}
Mode    == {"VERIFY", "MISMATCH", "UNAVAILABLE"}
Keys    == {q.key : q \in Requests}
Targets == {q.target : q \in Requests}
Grants  == {q.grant : q \in Requests}

\* "human" stands for P3 and P4, "closed" for every action that no grant can
\* open: an unknown skill, a false declaration, an irreversible write.  A
\* grant is the set of tiers it opens here; a revoked one opens none.
ASSUME ToolAssumption ==
    /\ \A q \in Requests :
          /\ q.tier \in Tier
          /\ q.script \in Script
          /\ q.mode \in Mode
          /\ q.turn \in Nat \ {0}
          /\ q.value \in Int
    /\ \A w \in Worlds :
          /\ DOMAIN w.fixture = Targets
          /\ w.grant \in [Grants -> SUBSET {"read", "write"}]
    /\ MaxActions \in Nat
    /\ MaxExits \in Nat

VARIABLES
    users,     \* journal: requests with a USER event
    answers,   \* journal: request to the evidence of its terminal event
    record,    \* control snapshot: actions by idempotency key
    resource,  \* adapter snapshot: target to value and fixture
    executed,  \* how often adapter.execute took effect for a request
    pc,        \* where the running operation is
    call,      \* its action, the key of the record in its hand, its opening
    exits      \* exits so far

journal == <<users, answers>>
vars    == <<users, answers, record, resource, executed, pc, call, exits>>

STATES == {"PERMISSION_ALLOWED", "DISPATCH_INTENT_DURABLE", "EXECUTING_OR_UNKNOWN",
           "RECEIPT_OBSERVED", "READBACK_VERIFIED", "TERMINAL"}
PC == {"idle", "bind", "authorize", "refuse", "dispatch", "executing", "effect",
       "receipt", "finish"}

----------------------------------------------------------------------------
\* What an opening makes of an action.

Intent(q, w) == [req |-> q, fixture |-> w.fixture[q.target]]

Verdict(q, w, binding) ==
    IF binding = "stale" THEN "DENY"
    ELSE CASE q.tier = "closed" -> "DENY"
           [] q.tier = "human"  -> "REQUIRE_HUMAN"
           [] q.tier = "pure"   -> "ALLOW"
           [] OTHER -> IF w.fixture[q.target] # None /\ q.tier \in w.grant[q.grant]
                       THEN "ALLOW" ELSE "DENY"

\* evaluate_permission; a decision is bound to its intent and to the grant
\* as it stood.  binding is "stale" when the caller sent an expected intent
\* or decision that is not the current one.
Decision(q, w, binding) ==
    [intent |-> Intent(q, w), grant |-> w.grant[q.grant], binding |-> binding,
     verdict |-> Verdict(q, w, binding)]

\* execution_receipt; outcome is what the adapter reported, UNKNOWN if nothing.
Receipt(q, outcome, readback) ==
    [outcome  |-> IF q.tier = "write" /\ outcome = "SUCCESS" /\ readback # "VERIFIED"
                  THEN "UNKNOWN" ELSE outcome,
     readback |-> IF q.tier = "write" THEN readback ELSE "NOT_REQUIRED"]

Intents   == {Intent(q, w) : q \in Requests, w \in Worlds}
Decisions == {Decision(q, w, b) : q \in Requests, w \in Worlds, b \in {"exact", "stale"}}
Receipts  == [outcome : Script,
              readback : {"NOT_REQUIRED", "NOT_VERIFIED", "VERIFIED", "MISMATCH", "UNAVAILABLE"}]
Reasons   == {None, "REFUSED", "UNKNOWN_NO_REDISPATCH", "P2_READBACK_NOT_VERIFIED"}
Evidence  == [intent : Intents, permission : Decisions, receipt : Receipts \cup {None},
              reason : Reasons]
Records   == [intent : Intents, permission : Decisions, receipt : Receipts \cup {None},
              reason : Reasons, state : STATES]
Fixtures  == {w.fixture[t] : w \in Worlds, t \in Targets}

ASSUME NoneAssumption == None \notin Records \cup Evidence \cup Receipts

\* What _publish_tool_evidence copies out of a record.
EvidenceOf(r) == [intent |-> r.intent, permission |-> r.permission,
                  receipt |-> r.receipt, reason |-> r.reason]

Outcome(e) == IF e.receipt # None THEN e.receipt.outcome ELSE e.permission.verdict

TypeOK ==
    /\ users \subseteq Requests
    /\ answers \in [Requests -> Evidence \cup {None}]
    /\ record \in [Keys -> Records \cup {None}]
    /\ resource \in [Targets -> [value : Int, fixture : Fixtures] \cup {None}]
    /\ executed \in [Requests -> Nat]
    /\ pc \in PC
    /\ call \in [req : Requests, key : Keys, world : Worlds,
                 binding : {"exact", "stale"}] \cup {None}
    /\ exits \in Nat

Init ==
    /\ users = {}
    /\ answers = [q \in Requests |-> None]
    /\ record = [k \in Keys |-> None]
    /\ resource = [t \in Targets |-> None]
    /\ executed = [q \in Requests |-> 0]
    /\ pc = "idle"
    /\ call = None
    /\ exits = 0

----------------------------------------------------------------------------
\* Entry of an operation.

Rec    == record[call.key]
Return == pc' = "idle" /\ call' = None
At(p)  == pc = p /\ UNCHANGED call

Starts(q, k, w, binding, next) ==
    /\ pc = "idle"
    /\ call' = [req |-> q, key |-> k, world |-> w, binding |-> binding]
    /\ pc' = next

\* Slips, here and below: the definition that follows as a plausible bug
\* would have it.  No action uses them; each breaks a property (README).
CheckIgnoresIntent(q, w) ==
    \A k \in Keys \ {q.key} :
        record[k] # None => /\ record[k].intent.req.action # q.action
                            /\ record[k].intent.req.id # q.id

\* A key means one intent; an action id and a request mean one key.
Check(q, w) ==
    /\ record[q.key] # None => record[q.key].intent = Intent(q, w)
    /\ \A k \in Keys \ {q.key} :
          record[k] # None => /\ record[k].intent.req.action # q.action
                              /\ record[k].intent.req.id # q.id

InSession(q) == {u \in users : u.session = q.session}

NewCallOverlaps(q, w, binding) ==
    /\ Check(q, w)
    /\ \A u \in users : u.id # q.id
    /\ \A u \in InSession(q) : u.turn < q.turn
    /\ q.turn = 1 \/ \E u \in InSession(q) : u.turn = q.turn - 1
    /\ Starts(q, q.key, w, binding, "bind")
    /\ users' = users \cup {q}
    /\ UNCHANGED <<answers, record, resource, executed, exits>>

\* A new request: its turn is the session's next, and none there is pending.
\* The USER event is durable before the key is claimed.
NewCall(q, w, binding) ==
    /\ Check(q, w)
    /\ \A u \in users : u.id # q.id
    /\ \A u \in InSession(q) : u.turn < q.turn /\ answers[u] # None
    /\ q.turn = 1 \/ \E u \in InSession(q) : u.turn = q.turn - 1
    /\ Starts(q, q.key, w, binding, "bind")
    /\ users' = users \cup {q}
    /\ UNCHANGED <<answers, record, resource, executed, exits>>

ResumeRedispatches(q, w, binding) ==
    /\ Check(q, w)
    /\ q \in users
    /\ answers[q] = None
    /\ \/ record[q.key] = None /\ Starts(q, q.key, w, binding, "bind")
       \/ /\ record[q.key] # None
          /\ record[q.key].state # "TERMINAL"
          /\ Starts(q, q.key, w, binding, "authorize")
    /\ UNCHANGED <<journal, record, resource, executed, exits>>

ResumeNeedsRecord(q, w, binding) ==
    /\ Check(q, w)
    /\ q \in users
    /\ answers[q] = None
    /\ record[q.key] # None
    /\ \/ /\ record[q.key].state = "PERMISSION_ALLOWED"
          /\ Starts(q, q.key, w, binding, "authorize")
       \/ /\ record[q.key].state \notin {"PERMISSION_ALLOWED", "TERMINAL"}
          /\ Starts(q, q.key, w, binding, "finish")
    /\ UNCHANGED <<journal, record, resource, executed, exits>>

\* An explicit resume.  Only a permission still undispatched goes on to the
\* adapter; any later state is finished from its record.
ResumeCall(q, w, binding) ==
    /\ Check(q, w)
    /\ q \in users
    /\ answers[q] = None
    /\ \/ record[q.key] = None /\ Starts(q, q.key, w, binding, "bind")
       \/ /\ record[q.key] # None
          /\ record[q.key].state = "PERMISSION_ALLOWED"
          /\ Starts(q, q.key, w, binding, "authorize")
       \/ /\ record[q.key] # None
          /\ record[q.key].state \notin {"PERMISSION_ALLOWED", "TERMINAL"}
          /\ Starts(q, q.key, w, binding, "finish")
    /\ UNCHANGED <<journal, record, resource, executed, exits>>

\* An observation, by whatever handle: the record is found by action id.
ObserveCall(q, w) ==
    /\ q \in users
    /\ \E k \in Keys :
          /\ record[k] # None
          /\ record[k].intent.req.action = q.action
          /\ record[k].state \notin {"PERMISSION_ALLOWED", "RECEIPT_OBSERVED"}
          /\ Starts(q, k, w, "exact", "finish")
    /\ UNCHANGED <<journal, record, resource, executed, exits>>

\* An exit, at a fault point of TOOL_FAULTS or anywhere else.
Crash ==
    /\ pc # "idle"
    /\ exits < MaxExits
    /\ exits' = exits + 1
    /\ Return
    /\ UNCHANGED <<journal, record, resource, executed>>

----------------------------------------------------------------------------
\* tool_execute up to the adapter.

CallDecision == Decision(call.req, call.world, call.binding)
Bound == {k \in Keys : record[k] # None}

Bind ==
    /\ At("bind")
    /\ Cardinality(Bound) < MaxActions
    /\ record' = [record EXCEPT ![call.key] =
          [intent |-> Intent(call.req, call.world), permission |-> CallDecision,
           receipt |-> None,
           reason |-> IF CallDecision.verdict = "ALLOW" THEN None ELSE "REFUSED",
           state |-> IF CallDecision.verdict = "ALLOW" THEN "PERMISSION_ALLOWED" ELSE "TERMINAL"]]
    /\ pc' = IF CallDecision.verdict = "ALLOW" THEN "authorize" ELSE "finish"
    /\ UNCHANGED <<journal, resource, executed, exits>>

\* ACTION_CONTROL_LIMIT; the USER event stays.
BindRefused ==
    /\ pc = "bind"
    /\ Cardinality(Bound) >= MaxActions
    /\ Return
    /\ UNCHANGED <<journal, record, resource, executed, exits>>

AuthorizedForEver ==
    /\ At("authorize")
    /\ pc' = IF Rec.permission.verdict = "ALLOW" THEN "dispatch" ELSE "refuse"
    /\ UNCHANGED <<journal, record, resource, executed, exits>>

\* reauthorize: the decision of this opening replaces the recorded one.
Authorize ==
    /\ At("authorize")
    /\ record' = [record EXCEPT ![call.key].permission = CallDecision]
    /\ pc' = IF CallDecision.verdict = "ALLOW" THEN "dispatch" ELSE "refuse"
    /\ UNCHANGED <<journal, resource, executed, exits>>

Refuse ==
    /\ At("refuse")
    /\ record' = [record EXCEPT ![call.key].state = "TERMINAL",
                                ![call.key].reason = "REFUSED"]
    /\ pc' = "finish"
    /\ UNCHANGED <<journal, resource, executed, exits>>

RecordDispatch ==
    /\ At("dispatch")
    /\ record' = [record EXCEPT ![call.key].state = "DISPATCH_INTENT_DURABLE"]
    /\ pc' = "executing"
    /\ UNCHANGED <<journal, resource, executed, exits>>

RecordExecuting ==
    /\ At("executing")
    /\ record' = [record EXCEPT ![call.key].state = "EXECUTING_OR_UNKNOWN"]
    /\ pc' = "effect"
    /\ UNCHANGED <<journal, resource, executed, exits>>

----------------------------------------------------------------------------
\* The adapter.

Touches(q) == q.tier \in {"read", "write"} /\ q.script # "FAILED"

\* The target was first touched under another fixture.
Drifted(q, w) ==
    resource[q.target] # None /\ resource[q.target].fixture # w.fixture[q.target]

\* A new resource starts from the fixture's initial value, 0 here.
Execute ==
    /\ At("effect")
    /\ Touches(call.req) => ~Drifted(call.req, call.world)
    /\ resource' = IF ~Touches(call.req) THEN resource
                   ELSE [resource EXCEPT ![call.req.target] =
                           [value   |-> IF call.req.tier = "write" THEN call.req.value
                                        ELSE IF @ = None THEN 0 ELSE @.value,
                            fixture |-> call.world.fixture[call.req.target]]]
    /\ executed' = [executed EXCEPT ![call.req] = @ + 1]
    /\ pc' = "receipt"
    /\ UNCHANGED <<journal, record, exits>>

\* SYNTHETIC_TARGET_FIXTURE_DRIFT is raised out of the operation.
ExecuteDrifted ==
    /\ pc = "effect"
    /\ Touches(call.req)
    /\ Drifted(call.req, call.world)
    /\ Return
    /\ UNCHANGED <<journal, record, resource, executed, exits>>

RecordReceipt ==
    /\ At("receipt")
    /\ record' = [record EXCEPT ![call.key].state = "RECEIPT_OBSERVED",
          ![call.key].receipt = Receipt(call.req, call.req.script, "NOT_VERIFIED")]
    /\ pc' = "finish"
    /\ UNCHANGED <<journal, resource, executed, exits>>

Readback(q) ==
    IF q.mode = "UNAVAILABLE" \/ resource[q.target] = None THEN "UNAVAILABLE"
    ELSE IF resource[q.target].value + (IF q.mode = "MISMATCH" THEN 1 ELSE 0) = q.value
         THEN "VERIFIED" ELSE "MISMATCH"

----------------------------------------------------------------------------
\* _finish_tool, one save at a time.

FinishAsFailed ==
    /\ At("finish")
    /\ Rec.state \in {"DISPATCH_INTENT_DURABLE", "EXECUTING_OR_UNKNOWN"}
    /\ record' = [record EXCEPT ![call.key].state = "TERMINAL",
          ![call.key].receipt = Receipt(Rec.intent.req, "FAILED", "NOT_VERIFIED"),
          ![call.key].reason = "UNKNOWN_NO_REDISPATCH"]
    /\ UNCHANGED <<journal, resource, executed, pc, exits>>

\* Dispatched, and no receipt: nobody knows, and nobody tries again.
FinishUnknown ==
    /\ At("finish")
    /\ Rec.state \in {"DISPATCH_INTENT_DURABLE", "EXECUTING_OR_UNKNOWN"}
    /\ record' = [record EXCEPT ![call.key].state = "TERMINAL",
          ![call.key].receipt = Receipt(Rec.intent.req, "UNKNOWN", "NOT_VERIFIED"),
          ![call.key].reason = "UNKNOWN_NO_REDISPATCH"]
    /\ UNCHANGED <<journal, resource, executed, pc, exits>>

NeedsReadback == Rec.intent.req.tier = "write" /\ Rec.intent.req.script = "SUCCESS"

\* The adapter is asked only if intent and decision are still the current ones.
FinishReadback ==
    /\ At("finish")
    /\ Rec.state = "RECEIPT_OBSERVED"
    /\ NeedsReadback
    /\ LET same == /\ Rec.intent = Intent(call.req, call.world)
                   /\ Rec.permission = Decision(call.req, call.world, "exact")
           seen == IF same THEN Readback(call.req) ELSE "UNAVAILABLE"
       IN  record' = [record EXCEPT
              ![call.key].receipt = Receipt(Rec.intent.req, "SUCCESS", seen),
              ![call.key].state   = IF seen = "VERIFIED" THEN "READBACK_VERIFIED" ELSE "TERMINAL",
              ![call.key].reason  = IF seen = "VERIFIED" THEN @ ELSE "P2_READBACK_NOT_VERIFIED"]
    /\ UNCHANGED <<journal, resource, executed, pc, exits>>

FinishPlain ==
    /\ At("finish")
    /\ \/ Rec.state = "RECEIPT_OBSERVED" /\ ~NeedsReadback
       \/ Rec.state = "READBACK_VERIFIED"
    /\ record' = [record EXCEPT ![call.key].state = "TERMINAL", ![call.key].reason = None]
    /\ UNCHANGED <<journal, resource, executed, pc, exits>>

\* The terminal event is the request's, the evidence the record's.  The
\* journal takes one event per identity: the same again is a replay, another
\* is IDENTITY_CONFLICT.
Publish ==
    /\ pc = "finish"
    /\ Rec.state = "TERMINAL"
    /\ answers' = [answers EXCEPT ![call.req] = IF @ = None THEN EvidenceOf(Rec) ELSE @]
    /\ Return
    /\ UNCHANGED <<users, record, resource, executed, exits>>

----------------------------------------------------------------------------
Proceed ==
    \/ Bind \/ BindRefused \/ Authorize \/ Refuse \/ RecordDispatch \/ RecordExecuting
    \/ Execute \/ ExecuteDrifted \/ RecordReceipt
    \/ FinishUnknown \/ FinishReadback \/ FinishPlain \/ Publish

Next ==
    \/ Proceed
    \/ Crash
    \/ \E q \in Requests, w \in Worlds :
          \/ \E binding \in {"exact", "stale"} :
                NewCall(q, w, binding) \/ ResumeCall(q, w, binding)
          \/ ObserveCall(q, w)

Spec == Init /\ [][Next]_vars

\* An operation runs to its end, and a pending request is resumed and
\* observed again and again, now and then with the target it was bound to.
Resumption(q) == \E w \in Worlds : ResumeCall(q, w, "exact") \/ ObserveCall(q, w)

Fairness == WF_vars(Proceed) /\ \A q \in Requests : SF_vars(Resumption(q))

FairSpec == Spec /\ Fairness

----------------------------------------------------------------------------
\* What the flow promises.

\* Over all exits, resumes, observations and rewordings, an effect happens at
\* most once per request, per idempotency key and per action id.
OneEffect ==
    /\ \A q \in Requests : executed[q] <= 1
    /\ \A p, q \in Requests :
          /\ executed[p] > 0
          /\ executed[q] > 0
          /\ p.key = q.key \/ p.action = q.action \/ p.id = q.id
          => p = q

\* The adapter takes effect only for an action whose durable record names it,
\* says EXECUTING_OR_UNKNOWN and carries the decision of this very opening.
EffectIsAuthorised ==
    [][ \A q \in Requests : executed'[q] # executed[q] =>
            /\ record[q.key] # None
            /\ record[q.key].state = "EXECUTING_OR_UNKNOWN"
            /\ record[q.key].permission = Decision(q, call.world, "exact")
            /\ record[q.key].permission.verdict = "ALLOW" ]_vars

\* Another request has bound q's action id.  The id is looked at before the
\* USER event and claimed only after it (runtime.py:812, 837), so a request of
\* another session may find it taken when its USER is durable; from then on it
\* is never bound, and _observe_tool takes the other's record for its own.
Taken(q) ==
    \E k \in Keys : /\ record[k] # None
                    /\ record[k].intent.req.action = q.action
                    /\ record[k].intent.req # q

\* A terminal event agrees with the adapter on the request its evidence names,
\* which is its own request, or, where the action id is Taken, one that never
\* had an effect of its own: a refusal had no effect and never will, any
\* reported outcome is of an effect that happened.
OutcomeIsTrue ==
    \A q \in users : answers[q] # None =>
        LET r == answers[q].intent.req  o == Outcome(answers[q]) IN
        /\ r # q => Taken(q) /\ executed[q] = 0
        /\ o \in {"DENY", "REQUIRE_HUMAN"} => executed[r] = 0
        /\ o \in {"SUCCESS", "PARTIAL", "FAILED"} => executed[r] = 1 /\ r.script = o

\* A terminal event says what a TERMINAL record of the control snapshot says,
\* for ever, and of the action the request asked for.  The exception: where
\* the action id is Taken it is the evidence of the request that took it.
EvidenceIsOwn ==
    \A q \in users : answers[q] # None =>
        \E k \in Keys :
            /\ record[k] # None
            /\ record[k].state = "TERMINAL"
            /\ answers[q] = EvidenceOf(record[k])
            /\ IF Taken(q) THEN record[k].intent.req.action = q.action
               ELSE record[k].intent.req = q

\* Nothing that comes later, a late resume, an observation with other grants or
\* a reworded request, touches a record that has reached TERMINAL.
TerminalIsFinal ==
    [][ \A k \in Keys :
            record[k] # None /\ record[k].state = "TERMINAL" => record'[k] = record[k] ]_vars

\* A session is one turn at a time.
TurnsInOrder ==
    \A u, v \in users : u.session = v.session /\ u # v =>
        /\ u.turn # v.turn
        /\ u.turn < v.turn => answers[u] # None

\* A request that cannot be bound any more: its key or action id is another's,
\* or the limit is met.
ShutOut(q) ==
    \/ Taken(q)
    \/ record[q.key] # None /\ record[q.key].intent.req # q
    \/ record[q.key] = None /\ Cardinality(Bound) >= MaxActions

\* Once exits stop, every accepted request is answered, unless it is shut out.
EventuallyAnswered ==
    \A q \in Requests : (q \in users) ~> (answers[q] # None \/ ShutOut(q))
=============================================================================
