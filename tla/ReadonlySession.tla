-------------------------- MODULE ReadonlySession ---------------------------
(***************************************************************************)
(* The read-only profile of companion_mind/owned_home: readonly_session.py *)
(* over the package store of source_pack.py and the A019 journal.          *)
(*                                                                         *)
(* Every request opens the runtime (the journal's flock: one at a time),   *)
(* brings its own clock, grants and bundle directory, runs one operation   *)
(* and closes.  An operation is a few actions, one per durable write; the  *)
(* process may exit, or an IO error end the operation, between any two.    *)
(***************************************************************************)
EXTENDS Integers, FiniteSets

CONSTANTS
    Times,     \* clocks a request may bring (readonly_now)
    Packages,  \* manifests: key (id and version), digest, task, life, source expiry
    Grants,    \* grants the trusted setup may offer
    Offers,    \* the sets of grants it offers together
    Turns,     \* turns clients may ask: request, task, session, number, package
    None,      \* absent
    MaxExits   \* bound on exits and IO errors per behaviour

Keys     == {p.key : p \in Packages}
GrantIds == {g.id : g \in Grants}
Requests == {t.request : t \in Turns}
SessionOf(t) == <<t.task, t.session>>
Sessions == {SessionOf(t) : t \in Turns}

Inspections == {"ro_package_validate", "ro_source_view", "ro_session_state", "ro_safe_export"}
Ops   == Inspections \cup {"ro_package_ingest", "ro_turn", "ro_observe", "ro_resume"}
Asks  == {"ro_turn", "ro_resume"}
Phase == {"bound", "crossed", "closed"}

ASSUME ReadonlyAssumption ==
    /\ Times \subseteq Nat
    /\ \A p \in Packages : {p.from, p.until, p.fresh} \subseteq Nat
    /\ \A g \in Grants : /\ g.package \in Packages
                         /\ {g.epoch, g.from, g.until} \subseteq Nat
    /\ \A t \in Turns : t.package \in Packages /\ t.no \in Nat \ {0}
    /\ \A o \in Offers : o \subseteq Grants
    /\ None \notin Packages \cup Turns \cup Nat
    /\ MaxExits \in Nat

VARIABLES
    epochs,    \* control.json: per grant id the highest revocation epoch seen
    anchors,   \* control.json: per session the turn last remembered
    stored,    \* published package directories: the manifest, and if the bytes are its own
    active,    \* per package key the manifest its active pointer names
    users,     \* USER events in the journal: the turn and its clock
    attempts,  \* per request the journal's attempt row: template, phase
    pc,        \* where the running operation is
    call,      \* the running operation and what it was given
    reply,     \* the answer the last operation handed to its client
    exits      \* exits and IO errors so far

control == <<epochs, anchors>>
store   == <<stored, active>>
journal == <<users, attempts>>
vars    == <<control, store, journal, pc, call, reply, exits>>

Template == [turn : Turns, at : Times, grant : Grants, validations : {0, 1}, writes : {0, 1}]
Call == [op : Ops, turn : Turns \cup {None}, now : Times, package : Packages, whole : BOOLEAN,
         grant : Grants, validations : {0, 1}, writes : {0, 1}]

ASSUME NoneAssumption == None \notin [template : Template, phase : Phase]

TypeOK ==
    /\ epochs \in [GrantIds -> Nat \cup {None}]
    /\ anchors \in [Sessions -> Turns \cup {None}]
    /\ stored \subseteq [package : Packages, whole : BOOLEAN]
    /\ active \in [Keys -> Packages \cup {None}]
    /\ users \subseteq [turn : Turns, at : Times]
    /\ attempts \in [Requests -> [template : Template, phase : Phase] \cup {None}]
    /\ pc \in {"idle", "granted", "published", "asked", "bound", "crossed", "closed", "down"}
    /\ call \in Call \cup {None}
    /\ reply \in [turn : Turns, grant : Grants, now : Times] \cup {None}
    /\ exits \in Nat

Init ==
    /\ epochs = [i \in GrantIds |-> None]
    /\ anchors = [s \in Sessions |-> None]
    /\ stored = {}
    /\ active = [k \in Keys |-> None]
    /\ users = {}
    /\ attempts = [r \in Requests |-> None]
    /\ pc = "idle"
    /\ call = None
    /\ reply = None
    /\ exits = 0

----------------------------------------------------------------------------
\* Grants and packages.

InForce(g, as, now) ==
    /\ ~g.revoked
    /\ g.from <= now /\ now < g.until
    /\ g.package.from <= now /\ now < g.package.until
    /\ as \in g.ops

\* validate_grant, with the epoch remembered for the grant as its minimum.
Valid(g, as, now) ==
    /\ InForce(g, as, now)
    /\ epochs[g.id] # None => g.epoch >= epochs[g.id]

\* The bundle directory passes validate_bundle, for the operations that begin
\* with _checked_input; ro_turn and ro_source_view do not look at its payload.
BundlePasses(c) == c.whole /\ c.now < c.package.fresh
Passed == call.validations = 1 => BundlePasses(call)

\* _active for the package p: the configured bundle, the active pointer and
\* the published directory behind it all are p, and the grant allows it.
Loads(p, as) ==
    /\ call.package = p
    /\ Valid(call.grant, as, call.now)
    /\ active[p.key] = p
    /\ [package |-> p, whole |-> TRUE] \in stored
    /\ call.now < p.fresh

----------------------------------------------------------------------------
\* The journal's turns.

Asked(request)    == \E u \in users : u.turn.request = request
Answered(request) == attempts[request] # None /\ attempts[request].phase = "closed"
InSession(s)      == {u.turn : u \in {v \in users : SessionOf(v.turn) = s}}

\* Slips, here and below: the definition that follows as a plausible bug
\* would have it.  No action uses them; each breaks a property (README).
NextInSessionUnanswered(t) ==
    LET earlier == InSession(SessionOf(t)) IN
    IF earlier = {} THEN t.no = 1
    ELSE \E v \in earlier : t.no = v.no + 1 /\ \A w \in earlier : w.no <= v.no

\* A new turn follows the highest of its session, all of which are answered.
NextInSession(t) ==
    LET earlier == InSession(SessionOf(t)) IN
    /\ IF earlier = {} THEN t.no = 1
       ELSE \E v \in earlier : t.no = v.no + 1 /\ \A w \in earlier : w.no <= v.no
    /\ \A v \in earlier : Answered(v.request)

\* What the reply template of the running turn is made of: the event's clock,
\* the grant's reference and the counters of this operation go into it.
TemplateOf(c) ==
    [turn |-> c.turn, at |-> c.now, grant |-> c.grant,
     validations |-> c.validations, writes |-> c.writes]

----------------------------------------------------------------------------
\* An operation begins: the one grant of the configured package is validated
\* and a higher epoch of it remembered.  What is refused here leaves no trace.

Given(op, turn, b, offer, g, now) ==
    /\ pc = "idle"
    /\ op = "ro_turn" => turn \in Turns /\ turn.package = b.package
    /\ op \in {"ro_observe", "ro_resume"} => \E u \in users : u.turn = turn
    /\ op \notin Asks \cup {"ro_observe"} => turn = None
    /\ {h \in offer : h.package = b.package} = {g}
    /\ Valid(g, op, now)
    /\ call' = [op |-> op, turn |-> turn, now |-> now, package |-> b.package, whole |-> b.whole,
                grant |-> g,
                validations |-> IF op \in {"ro_turn", "ro_source_view"} THEN 0 ELSE 1,
                writes |-> IF epochs[g.id] = g.epoch THEN 0 ELSE 1]
    /\ pc' = "granted"
    /\ reply' = None
    /\ UNCHANGED <<anchors, store, journal, exits>>

BeginKeepsFirstEpoch(op, turn, b, offer, g, now) ==
    /\ Given(op, turn, b, offer, g, now)
    /\ epochs' = [epochs EXCEPT ![g.id] = IF @ = None THEN g.epoch ELSE @]

Begin(op, turn, b, offer, g, now) ==
    /\ Given(op, turn, b, offer, g, now)
    /\ epochs' = [epochs EXCEPT ![g.id] = g.epoch]

----------------------------------------------------------------------------
\* ro_package_ingest.

SiblingsIgnored(p) == TRUE

\* No other digest of the package's key is published.
NoSibling(p) == \A s \in stored : s.package.key = p.key => s.package = p

MayPublish == call.op = "ro_package_ingest" /\ Passed /\ NoSibling(call.package)

CopyUnread(p) == stored' \in {stored \cup {[package |-> p, whole |-> w]} : w \in BOOLEAN}

\* What was copied is read back and validated before it is published; a
\* directory published already is validated again.
Copy(p) ==
    /\ \A s \in stored : s.package = p => s.whole
    /\ stored' = stored \cup {[package |-> p, whole |-> TRUE]}

Publish ==
    /\ pc = "granted"
    /\ MayPublish
    /\ Copy(call.package)
    /\ pc' = "published"
    /\ UNCHANGED <<control, active, journal, call, reply, exits>>

Point ==
    /\ pc = "published"
    /\ active' = [active EXCEPT ![call.package.key] = call.package]
    /\ pc' = "idle"
    /\ call' = None
    /\ UNCHANGED <<control, stored, journal, reply, exits>>

----------------------------------------------------------------------------
\* ro_turn and ro_resume.

Accepted ==
    /\ call.op \in Asks
    /\ Passed
    /\ Loads(call.turn.package, "ro_turn")
    /\ call.turn.task = call.package.task

AskableAtAnyTime ==
    \/ call.op = "ro_turn" /\ ~Asked(call.turn.request) /\ NextInSession(call.turn)
    \/ /\ call.op = "ro_resume"
       /\ ~Answered(call.turn.request)
       /\ \E u \in users : u.turn = call.turn

\* A new turn in its place, or the resume of a pending one whose USER event,
\* clock included, is built again as it stands in the journal.
Askable ==
    \/ call.op = "ro_turn" /\ ~Asked(call.turn.request) /\ NextInSession(call.turn)
    \/ /\ call.op = "ro_resume"
       /\ ~Answered(call.turn.request)
       /\ [turn |-> call.turn, at |-> call.now] \in users

MayAsk == Accepted /\ Askable

Ask ==
    /\ pc = "granted"
    /\ MayAsk
    /\ users' = IF Asked(call.turn.request) THEN users
                ELSE users \cup {[turn |-> call.turn, at |-> call.now]}
    /\ pc' = "asked"
    /\ UNCHANGED <<control, store, attempts, call, reply, exits>>

\* The attempt row is new, or its template is this one.
Bind ==
    /\ pc = "asked"
    /\ attempts[call.turn.request] \in
           {None, [template |-> TemplateOf(call), phase |-> "bound"]}
    /\ attempts' = [attempts EXCEPT ![call.turn.request] =
                        [template |-> TemplateOf(call), phase |-> "bound"]]
    /\ pc' = "bound"
    /\ UNCHANGED <<control, store, users, call, reply, exits>>

\* ATTEMPT_IDENTITY_CONFLICT: the attempt is bound to another template.
BindRefused ==
    /\ pc = "asked"
    /\ attempts[call.turn.request] # None
    /\ attempts[call.turn.request].template # TemplateOf(call)
    /\ pc' = "idle"
    /\ call' = None
    /\ UNCHANGED <<control, store, journal, reply, exits>>

\* Provider intent, then the terminal event (Journal has what is between).
Cross ==
    /\ pc = "bound"
    /\ attempts' = [attempts EXCEPT ![call.turn.request].phase = "crossed"]
    /\ pc' = "crossed"
    /\ UNCHANGED <<control, store, users, call, reply, exits>>

Close ==
    /\ pc = "crossed"
    /\ attempts' = [attempts EXCEPT ![call.turn.request].phase = "closed"]
    /\ pc' = "closed"
    /\ UNCHANGED <<control, store, users, call, reply, exits>>

Reply(t) == [turn |-> t, grant |-> call.grant, now |-> call.now]

ShownUnasked(t) == IF Answered(t.request) THEN Reply(t) ELSE None

\* observe's answer: HOLD, AWAIT_EXPLICIT_RESUME, or what the terminal holds.
Shown(t) == IF Loads(t.package, "ro_observe") /\ Answered(t.request) THEN Reply(t) ELSE None

Anchor(t) == [anchors EXCEPT ![SessionOf(t)] = t]

\* The turn's own observe, the anchor, the return.
Return ==
    /\ pc = "closed"
    /\ reply' = Shown(call.turn)
    /\ anchors' = Anchor(call.turn)
    /\ pc' = "idle"
    /\ call' = None
    /\ UNCHANGED <<epochs, store, journal, exits>>

----------------------------------------------------------------------------
\* ro_observe, also as what ro_turn and ro_resume do of a turn they know.

Repeated ==
    /\ Accepted
    /\ \E u \in users : u.turn = call.turn
    /\ call.op = "ro_turn" \/ Answered(call.turn.request)
    /\ Valid(call.grant, "ro_observe", call.now)
    /\ BundlePasses(call)

MayObserve == (call.op = "ro_observe" /\ Passed) \/ Repeated

Observe ==
    /\ pc = "granted"
    /\ MayObserve
    /\ reply' = Shown(call.turn)
    /\ pc' = "idle"
    /\ call' = None
    /\ UNCHANGED <<control, store, journal, exits>>

\* An inspection returns, or the operation is refused.
Stop ==
    /\ pc = "granted"
    /\ ~MayPublish /\ ~MayAsk /\ ~MayObserve
    /\ pc' = "idle"
    /\ call' = None
    /\ UNCHANGED <<control, store, journal, reply, exits>>

----------------------------------------------------------------------------
\* The process exits, or an IO error closes the runtime.
Exit ==
    /\ pc \notin {"idle", "down"}
    /\ exits < MaxExits
    /\ exits' = exits + 1
    /\ pc' = "down"
    /\ call' = None
    /\ UNCHANGED <<control, store, journal, reply>>

\* The next runtime opens the journal, which closes what had crossed.
Open ==
    /\ pc = "down"
    /\ attempts' = [r \in Requests |->
                        IF attempts[r] # None /\ attempts[r].phase = "crossed"
                        THEN [attempts[r] EXCEPT !.phase = "closed"] ELSE attempts[r]]
    /\ pc' = "idle"
    /\ UNCHANGED <<control, store, users, call, reply, exits>>

Next ==
    \/ \E op \in Ops, turn \in Turns \cup {None}, now \in Times, offer \in Offers,
          b \in [package : Packages, whole : BOOLEAN] :
              \E g \in offer : Begin(op, turn, b, offer, g, now)
    \/ Publish \/ Point
    \/ Ask \/ Bind \/ BindRefused \/ Cross \/ Close \/ Return
    \/ Observe \/ Stop
    \/ Exit \/ Open

Spec == Init /\ [][Next]_vars

----------------------------------------------------------------------------
\* What the read-only profile promises.

\* An active pointer names a published directory whose bytes are the
\* manifest's own, whatever the exits between staging, publishing and pointing
\* (source_pack.py:402-426).
PointerIsWhole ==
    \A k \in Keys : active[k] # None =>
        /\ active[k].key = k
        /\ [package |-> active[k], whole |-> TRUE] \in stored

\* A package id and version stands for one digest for ever: turns answered
\* under the same key, before and after any re-ingest, cite the same snapshot
\* (source_pack.py:397-399, readonly_session.py:268-278).
OneSource ==
    \A u, v \in users : u.turn.package.key = v.turn.package.key => u.turn.package = v.turn.package

\* Whoever ends a turn, the call that asked it or a later resume, its reply is
\* made at the question's own clock, under a grant of the question's package
\* that was in force then (readonly_session.py:549-594).
AnswersAreGranted ==
    \A r \in Requests : attempts[r] # None =>
        LET t == attempts[r].template IN
        /\ t.turn.request = r
        /\ [turn |-> t.turn, at |-> t.at] \in users
        /\ t.grant.package = t.turn.package
        /\ InForce(t.grant, "ro_turn", t.at)

\* The epoch under which an operation runs is the highest of its grant that
\* any operation ran under, exits included.
EpochsHold ==
    [][ /\ \A i \in GrantIds : epochs[i] # None => epochs'[i] # None /\ epochs'[i] >= epochs[i]
        /\ call' # None => epochs'[call'.grant.id] = call'.grant.epoch ]_vars

\* A session's anchor moves forward only, and only to an answered turn
\* (readonly_session.py:493-512).
AnchorAdvances ==
    [][ \A s \in Sessions : anchors'[s] # anchors[s] =>
            /\ anchors'[s] \in InSession(s)
            /\ Answered(anchors'[s].request)
            /\ anchors[s] # None => anchors[s].no < anchors'[s].no ]_vars

\* A client sees an answer only when it is durable, its package is still the
\* active one and the grant offered allows ro_observe now: asking a turn does
\* not imply seeing its answer (readonly_session.py:596-599, 623-636).
RepliesAreAllowed ==
    reply # None =>
        /\ Answered(reply.turn.request)
        /\ active[reply.turn.package.key] = reply.turn.package
        /\ reply.grant.package = reply.turn.package
        /\ InForce(reply.grant, "ro_observe", reply.now)
        /\ reply.grant.epoch = epochs[reply.grant.id]

\* A pending turn is resumed when it is resumed: with its USER event as it
\* was and the grant in force, the journal does not refuse the attempt.
ResumeConcludes ==
    [][ (pc = "asked" /\ pc' = "idle") => Answered(call.turn.request) ]_vars
=============================================================================
