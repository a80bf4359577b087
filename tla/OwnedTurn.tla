------------------------------ MODULE OwnedTurn -----------------------------
(***************************************************************************)
(* The turns of companion_mind/owned_home, plain, of a topic and of a      *)
(* model: submit, _submit_context, _model_call, resume and observe of      *)
(* runtime.py with the routing of router.py, the context of context.py and *)
(* the profile selection of model_gateway.py, over the A019 journal.       *)
(*                                                                         *)
(* Every operation opens the runtime with the fixtures, grants and model   *)
(* profiles of that moment (its world); nothing but the journal persists.  *)
(***************************************************************************)
EXTENDS Integers, FiniteSetsExt

CONSTANTS
    Turns,       \* turns clients may ask
    Worlds,      \* what the trusted setup may bring: fixtures, grants, profiles
    Bytes,       \* size of each text, in units of a recent turn
    RecentTurns, \* recent exact turns a context may hold (4 in context.py)
    MaxEvidence, \* sources a context may hold (5 in context.py)
    None,        \* absent
    MaxExits     \* bound on exits and IO errors per behaviour

Requests == {t.request : t \in Turns}
Fixtures == UNION {w.fixtures : w \in Worlds}
Needs    == {t.needs : t \in Turns} \ {{}}

\* Turns as they are stored: one that names no needs takes over its topic's.
Stored == {[t EXCEPT !.needs = n] : t \in Turns, n \in Needs}

SameVersion(f, h) == f.source = h.source /\ f.version = h.version

ASSUME OwnedAssumption ==
    /\ \A t \in Turns :
          /\ t = [request |-> t.request, session |-> t.session, no |-> t.no, topic |-> t.topic,
                  premise |-> t.premise, needs |-> t.needs, budget |-> t.budget, intent |-> t.intent]
          /\ t.no \in Nat \ {0} /\ t.budget \in Nat
    /\ \A w \in Worlds : \A f, h \in w.fixtures :
          <<f.source, f.version, f.revision>> = <<h.source, h.version, h.revision>> => f = h
    \* No two profiles have one identity, which their rank ends with.
    /\ \A w \in Worlds : /\ IsFiniteSet(w.fixtures)
                         /\ \A p \in w.profiles : p.rank \in Int
                         /\ \A p, q \in w.profiles : p.id = q.id \/ p.rank = q.rank => p = q
    \* w.first: of each source and version, the fixture that is listed first.
    /\ \A w \in Worlds : /\ w.first \subseteq w.fixtures
                         /\ \A f \in w.fixtures : \E h \in w.first : SameVersion(f, h)
                         /\ \A f, h \in w.first : SameVersion(f, h) => f = h
    \* A plain turn names one source and version, and no topic.
    /\ \A t \in Turns : t.topic = None =>
          /\ t.intent = None /\ t.needs # {}
          /\ \A n, m \in t.needs : n = m /\ n.route = "EXACT"
    /\ \A f \in Fixtures :
          /\ f = [source |-> f.source, version |-> f.version, revision |-> f.revision,
                  status |-> f.status, text |-> f.text]
          /\ {f.source, f.version, f.revision} \subseteq Int
          /\ Bytes[f.text] \in Nat
    /\ {RecentTurns, MaxEvidence, MaxExits} \subseteq Nat
    /\ None \notin Turns \cup Worlds \cup Stored
    /\ None \notin {"PERMISSION_DENIED", "MODEL_SPEC_INVALID", "NO_COMPATIBLE_PROFILE",
                   "CONTEXT_BUDGET_EXCEEDED", "AUTHORITY_CONFLICT", "AUTHORITY_SOURCE_UNAVAILABLE"}

VARIABLES
    users,     \* USER events in the journal: the stored turns
    attempts,  \* per request the attempt or terminal: template and phase
    pc,        \* where the running operation is
    call,      \* its stored turn, world and expected call specification
    reply,     \* the answer shown last: the turn and the world it was shown in
    exits      \* exits and IO errors so far

journal == <<users, attempts>>
vars    == <<journal, pc, call, reply, exits>>

NoRow == [template |-> None, phase |-> "none"]

TypeOK ==
    /\ users \subseteq Stored
    /\ \A r \in Requests :
          \/ attempts[r] = NoRow
          \/ /\ attempts[r].template.turn \in users
             /\ attempts[r].phase \in {"bound", "crossed", "closed"}
    /\ pc \in {"idle", "asked", "bound", "crossed", "closed", "down"}
    /\ pc \notin {"idle", "down"} => call.turn \in users
    /\ exits \in Nat

Init ==
    /\ users = {}
    /\ attempts = [r \in Requests |-> NoRow]
    /\ pc = "idle"
    /\ call = None
    /\ reply = None
    /\ exits = 0

Least(a, b) == IF a <= b THEN a ELSE b

----------------------------------------------------------------------------
\* route_authorities: what a turn's needs reach in a world.

Decision(w, s, v) ==
    [source |-> s, version |-> v,
     states |-> {g.decision : g \in {h \in w.grants : h.source = s /\ h.version = v}}]
Allowed(w, s, v) == Decision(w, s, v).states = {"ALLOW"}

\* An exact need never widens to another version; the others reach the
\* versions some grant names.
Versions(w, n) ==
    IF n.route = "EXACT" THEN {n.version}
    ELSE {g.version : g \in {h \in w.grants : h.source = n.source}}

Permitted(w, n) == {v \in Versions(w, n) : Allowed(w, n.source, v)}

Candidates(w, n) == {f \in w.fixtures : f.source = n.source /\ f.version \in Permitted(w, n)}

Matching(w, n) ==
    {f \in Candidates(w, n) :
        IF n.route = "EXACT" THEN n.revision \in {None, f.revision} ELSE f.status = n.route}

Ambiguous(w, n) == n.route # "HISTORY" /\ Cardinality(Matching(w, n)) > 1

Selected(w, n) == IF Ambiguous(w, n) THEN {} ELSE Matching(w, n)

\* A history source that says something else than the current one.
Outdated(w, n) ==
    {f \in Candidates(w, n) : /\ n.route = "CURRENT" /\ f.status = "HISTORY"
                              /\ \E h \in Selected(w, n) : h.text # f.text}

\* What a need found in conflict: sources it cannot choose between, or those
\* the current one overrides.
Conflict(w, n) ==
    [need |-> n, ambiguous |-> IF Ambiguous(w, n) THEN Matching(w, n) ELSE {},
     outdated |-> Outdated(w, n)]

Route(w, n) ==
    [need |-> n, permitted |-> Permitted(w, n) # {}, ambiguous |-> Ambiguous(w, n),
     selected |-> Selected(w, n)]

Snapshot(w, needs) ==
    [sources |-> UNION {Candidates(w, n) : n \in needs},
     policy  |-> UNION {{Decision(w, n.source, v) : v \in Versions(w, n)} : n \in needs},
     routes  |-> {Route(w, n) : n \in needs}]

Evidence(snapshot) == UNION {r.selected : r \in snapshot.routes}

\* Whether a source a reply rests on may still be read, and is still the same.
Readable(w, f) == f \in w.fixtures /\ Allowed(w, f.source, f.version)

----------------------------------------------------------------------------
\* CapabilityRegistry.select: the profile of a model turn.

Registered(w, id) == {p \in w.profiles : p.id = id}

Compatible(w, t) ==
    {p \in w.profiles : /\ p.id \in t.intent.allowed
                        /\ p.up
                        /\ t.intent.required \subseteq p.offers
                        /\ Least(t.budget, p.usable) >= t.intent.minimum}

\* The first by cost, latency, key and version.
Cheapest(profiles) ==
    {p \in profiles : \A q \in profiles : p.rank <= q.rank}

Chosen(w, t) ==
    LET wanted == t.intent.preferred IN
    IF wanted = None THEN Cheapest(Compatible(w, t))
    ELSE IF wanted \notin t.intent.allowed \/ Registered(w, wanted) = {} THEN {}
    ELSE IF Registered(w, wanted) \subseteq Compatible(w, t) THEN Registered(w, wanted)
    ELSE IF t.intent.fallback THEN Cheapest(Compatible(w, t)) ELSE {}

IsModel(t)    == t.intent # None
Profile(w, t) == IF IsModel(t) THEN Chosen(w, t) ELSE {}
Limit(w, t)   ==
    IF ~IsModel(t) THEN t.budget
    ELSE IF Profile(w, t) = {} THEN 0
    ELSE Least(t.budget, (CHOOSE p \in Profile(w, t) : TRUE).usable)

----------------------------------------------------------------------------
\* _context: what a plain turn makes of the one source it names.

IsPlain(t) == t.topic = None

\* The first fixture of its source and version, looked up only if permitted.
Source(t, w) ==
    {f \in w.first : \E n \in t.needs : SameVersion(f, n) /\ Allowed(w, n.source, n.version)}

PlainStop(t, w, sources) ==
    IF \E n \in t.needs : ~Allowed(w, n.source, n.version) THEN "PERMISSION_DENIED"
    ELSE IF sources = {} THEN "AUTHORITY_SOURCE_UNAVAILABLE"
    ELSE IF \E f \in sources : 1 + Bytes[f.text] > t.budget THEN "CONTEXT_BUDGET_EXCEEDED"
    ELSE None

PlainContext(t, w) ==
    LET stop == PlainStop(t, w, Source(t, w)) IN
    [turn |-> t, policy |-> {Decision(w, n.source, n.version) : n \in t.needs}, stop |-> stop,
     sources |-> Source(t, w), rests |-> IF stop = None THEN Source(t, w) ELSE {}]

----------------------------------------------------------------------------
\* The session as _session_events reads it from the journal.

Answered(r)   == attempts[r].phase = "closed"
InSession(t)  == {u \in users : u.session = t.session}
AnswerOf(u)   == attempts[u.request].template
Latest(turns) == CHOOSE u \in turns : \A v \in turns : v.no <= u.no

\* Another turn of the topic that has its terminal event.
Earlier(t) == {u \in InSession(t) : u.topic = t.topic /\ u.request # t.request /\ Answered(u.request)}

\* The other turns of the session, plain ones included.
Others(t) == {u \in InSession(t) : u.request # t.request}

\* Slips, here and below: the definition that follows as a plausible bug
\* would have it.  No action uses them; each breaks a property (README).
NextUnanswered(t) == t.no = 1 + (IF InSession(t) = {} THEN 0 ELSE Latest(InSession(t)).no)

\* A new turn follows the highest of its session, all of which are answered.
NextInSession(t) ==
    /\ t.no = 1 + (IF InSession(t) = {} THEN 0 ELSE Latest(InSession(t)).no)
    /\ \A u \in InSession(t) : Answered(u.request)

\* A plain turn is only refused the number of another: the journal's sequence
\* numbers are unique within a session.
FreeNumber(t) == \A u \in InSession(t) : u.no # t.no

\* Its evidence needs are its own or those of the topic's last turn.
WithNeeds(t) == IF t.needs # {} THEN t ELSE [t EXCEPT !.needs = Latest(Earlier(t)).needs]

----------------------------------------------------------------------------
\* build_context.

Revisions(sources)  == {<<f.source, f.version, f.revision, f.text>> : f \in sources}
Lifecycles(sources) == {<<f.source, f.version, f.revision, f.status>> : f \in sources}

\* Why a context built over the snapshot old no longer stands.
Invalidation(old, new, premiseThen, premiseNow) ==
    LET seen == {c \in {"ACL_SCOPE_CHANGED", "SOURCE_REVISION_CHANGED", "LIFECYCLE_CHANGED"} :
                    \/ c = "ACL_SCOPE_CHANGED" /\ old.policy # new.policy
                    \/ c = "SOURCE_REVISION_CHANGED" /\ Revisions(old.sources) # Revisions(new.sources)
                    \/ c = "LIFECYCLE_CHANGED" /\ Lifecycles(old.sources) # Lifecycles(new.sources)}
    IN  seen \cup (IF seen = {} /\ old.routes # new.routes THEN {"AUTHORITY_ROUTE_CHANGED"} ELSE {})
             \cup (IF premiseThen # premiseNow THEN {"PREMISE_CHANGED"} ELSE {})

Stale(u, snapshot, premise) ==
    Invalidation(AnswerOf(u).snapshot, snapshot, u.premise, premise) # {}

\* What the topic's last context no longer stands for.
Reasons(t, snapshot) ==
    IF Earlier(t) = {} THEN {}
    ELSE LET last == Latest(Earlier(t)) IN
         Invalidation(AnswerOf(last).snapshot, snapshot, last.premise, t.premise)

Before(f, h) ==
    \/ f.source < h.source
    \/ f.source = h.source /\ f.version < h.version
    \/ f.source = h.source /\ f.version = h.version /\ f.revision < h.revision

\* The cognition input in units of a recent turn; the question itself is one.
Size(sources, recents) ==
    1 + MapThenSumSet(LAMBDA f : Bytes[f.text], sources) + Cardinality(recents)

\* Sources in order, each whole or not at all.
Included(evidence, limit) ==
    LET takes[f \in evidence] ==
            LET got == {h \in evidence : Before(h, f) /\ takes[h]} IN
            Size(got \cup {f}, {}) <= limit /\ Cardinality(got) < MaxEvidence
    IN  {f \in evidence : limit >= 1 /\ takes[f]}

\* Of some recent turns those that fit, the newest first.
Fitting(recents, sources, limit) ==
    LET takes[u \in recents] ==
            Size(sources, {v \in recents : v.no > u.no /\ takes[v]} \cup {u}) <= limit
    IN  {u \in recents : takes[u]}

\* The topic's last turns, nothing of a history that no longer stands.
RecentTail(t, snapshot, limit) ==
    IF limit < 1 \/ Reasons(t, snapshot) # {} THEN {}
    ELSE {u \in Earlier(t) : Cardinality({v \in Earlier(t) : v.no > u.no}) < RecentTurns}

RecentsUnchecked(t, snapshot, sources, limit) ==
    Fitting(RecentTail(t, snapshot, limit), sources, limit)

Recents(t, snapshot, sources, limit) ==
    Fitting({u \in RecentTail(t, snapshot, limit) : ~Stale(u, snapshot, t.premise)}, sources, limit)

\* Why a turn is answered by a stop.
StopReason(t, w, snapshot, sources) ==
    IF IsModel(t) /\ Profile(w, t) = {} THEN "NO_COMPATIBLE_PROFILE"
    ELSE IF Limit(w, t) < 1 THEN "CONTEXT_BUDGET_EXCEEDED"
    ELSE IF sources # {} THEN None
    ELSE IF \E r \in snapshot.routes : r.ambiguous THEN "AUTHORITY_CONFLICT"
    ELSE IF \A r \in snapshot.routes : ~r.permitted THEN "PERMISSION_DENIED"
    ELSE IF Evidence(snapshot) # {} THEN "CONTEXT_BUDGET_EXCEEDED"
    ELSE "AUTHORITY_SOURCE_UNAVAILABLE"

\* Whether the last of some turns is of this one's topic.
Continues(t, turns) == turns # {} /\ Latest(turns).topic = t.topic

\* Where the topic was taken up, the turn itself coming last of all: those of
\* its turns that do not follow one of the topic.
Segments(t, others) ==
    {u \in others : u.topic = t.topic /\ ~Continues(t, {v \in others : v.no < u.no})}
        \cup (IF Continues(t, others) THEN {} ELSE {t})

\* What a context is said to be built for.
Rebuild(t, w, reasons, others) ==
    (IF reasons # {} THEN reasons
     ELSE IF Earlier(t) = {} THEN {"INITIAL_BUILD"}
     ELSE IF Continues(t, others) THEN {"TURN_ADVANCED"} ELSE {"TOPIC_REACTIVATED"})
    \cup
    (IF IsModel(t) /\ Earlier(t) # {} /\ AnswerOf(Latest(Earlier(t))).profile # Profile(w, t)
     THEN {"MODEL_PROFILE_CHANGED"} ELSE {})

\* The context of a turn among the others of its session.  What the code has
\* besides (links to the recent turns, the ledger of what is left out, the
\* bytes required, the previous fingerprint) follows from these fields and from
\* the answers of Earlier(t), which stay as they are while t waits.  rests, what
\* its input rests on also through the recent turns it holds, follows as well.
Context(t, w, others) ==
    LET snapshot == Snapshot(w, t.needs)
        sources  == Included(Evidence(snapshot), Limit(w, t))
        recents  == Recents(t, snapshot, sources, Limit(w, t))
        stop     == StopReason(t, w, snapshot, sources)
        Kept(S)  == IF stop = None THEN S ELSE {}
    IN  [turn |-> t, snapshot |-> snapshot, reasons |-> Reasons(t, snapshot), stop |-> stop,
         conflicts |-> {Conflict(w, n) : n \in t.needs}, segments |-> Segments(t, others),
         rebuild |-> Rebuild(t, w, Reasons(t, snapshot), others),
         sources |-> Kept(sources), recents |-> Kept({u.request : u \in recents}),
         registry |-> IF IsModel(t) THEN w.profiles ELSE {}, profile |-> Profile(w, t),
         rests |-> Kept(sources \cup UNION {AnswerOf(u).rests : u \in recents})]

\* call_spec: profile and context pack, which has refs of the sources its
\* routes selected or found in conflict, but not of all they consulted.
CallSpec(c) ==
    [profile |-> c.profile, policy |-> c.snapshot.policy, routes |-> c.snapshot.routes,
     sources |-> c.sources, recents |-> c.recents, reasons |-> c.reasons,
     conflicts |-> c.conflicts, rebuild |-> c.rebuild]

\* The context of a turn as the session is now, and as it was when the turn was
\* previewed: before it was asked, so without the turns of higher numbers.
ContextNow(t, w)  == Context(t, w, Others(t))
ContextThen(t, w) == Context(t, w, {u \in Others(t) : u.no < t.no})

\* A model call is not made when the caller expected another specification.
AsExpected(t, w, expected) ==
    \/ expected = None
    \/ /\ ContextNow(t, w).stop = None
       /\ ContextThen(t, expected).stop = None
       /\ CallSpec(ContextNow(t, w)) = CallSpec(ContextThen(t, expected))

Template(t, w, expected) ==
    IF IsPlain(t) THEN PlainContext(t, w)
    ELSE IF AsExpected(t, w, expected) THEN ContextNow(t, w)
    ELSE [ContextNow(t, w) EXCEPT !.stop = "MODEL_SPEC_INVALID", !.rests = {}]

----------------------------------------------------------------------------
\* One turn.

\* An expected specification means something to a model turn only.
Start(s, w, expected) ==
    /\ expected = None \/ IsModel(s)
    /\ call' = [turn |-> s, world |-> w, expected |-> expected]
    /\ reply' = None
    /\ pc' = "asked"

\* A new plain turn.  Here and below USER is durable before any lookup.
SubmitPlain(t, w) ==
    /\ pc = "idle"
    /\ IsPlain(t)
    /\ \A u \in users : u.request # t.request
    /\ FreeNumber(t)
    /\ users' = users \cup {t}
    /\ Start(t, w, None)
    /\ UNCHANGED <<attempts, exits>>

\* A new turn of a topic.
Submit(t, w, expected) ==
    /\ pc = "idle"
    /\ ~IsPlain(t)
    /\ \A u \in users : u.request # t.request
    /\ t.needs # {} \/ Earlier(t) # {}
    /\ NextInSession(t)
    /\ users' = users \cup {WithNeeds(t)}
    /\ Start(WithNeeds(t), w, expected)
    /\ UNCHANGED <<attempts, exits>>

\* An explicit resume of a turn without terminal, rebuilt from its USER event.
Resume(u, w, expected) ==
    /\ pc = "idle"
    /\ ~Answered(u.request)
    /\ Start(u, w, expected)
    /\ UNCHANGED <<journal, exits>>

Row      == attempts[call.turn.request]
Made     == Template(call.turn, call.world, call.expected)
CallAlways == TRUE
IsCall   == ~IsModel(call.turn) \/ Made.stop = None
SetRow(template, phase) ==
    attempts' = [attempts EXCEPT ![call.turn.request] = [template |-> template, phase |-> phase]]

\* The attempt row is new, or its template is this one.
Bind ==
    /\ pc = "asked"
    /\ IsCall
    /\ Row \in {NoRow, [template |-> Made, phase |-> "bound"]}
    /\ SetRow(Made, "bound")
    /\ pc' = "bound"
    /\ UNCHANGED <<users, call, reply, exits>>

\* A model turn that stops before the call has no attempt: its terminal event
\* is ingested.
StopModel ==
    /\ pc = "asked"
    /\ ~IsCall
    /\ Row = NoRow
    /\ SetRow(Made, "closed")
    /\ pc' = "closed"
    /\ UNCHANGED <<users, call, reply, exits>>

\* ATTEMPT_IDENTITY_CONFLICT, or ATTEMPT_SLOT_RESERVED for a stop: the attempt
\* is bound to what another world made of the turn.
Refused ==
    /\ pc = "asked"
    /\ Row # NoRow
    /\ IsCall => Row.template # Made
    /\ pc' = "idle"
    /\ call' = None
    /\ UNCHANGED <<journal, reply, exits>>

\* Provider intent, then the terminal event (Journal has what is between).
Cross ==
    /\ pc = "bound"
    /\ SetRow(Row.template, "crossed")
    /\ pc' = "crossed"
    /\ UNCHANGED <<users, call, reply, exits>>

Close ==
    /\ pc = "crossed"
    /\ SetRow(Row.template, "closed")
    /\ pc' = "closed"
    /\ UNCHANGED <<users, call, reply, exits>>

\* The last answered turn of the topic decides on the premise.
PremiseOf(u) == Latest({u} \cup Earlier(u)).premise

ShownAsStored(u, w) == IF Answered(u.request) THEN [turn |-> u, world |-> w] ELSE None

\* An answer made with permission is shown while there is permission.
StillPermitted(u, w) ==
    AnswerOf(u).stop = "PERMISSION_DENIED" \/ \A n \in u.needs : Allowed(w, n.source, n.version)

\* _observe_context: an answer is shown while its context still stands.
StillStands(u, w) == ~Stale(u, Snapshot(w, u.needs), PremiseOf(u))

Shown(u, w) ==
    IF Answered(u.request) /\ (IF IsPlain(u) THEN StillPermitted(u, w) ELSE StillStands(u, w))
    THEN [turn |-> u, world |-> w] ELSE None

Return ==
    /\ pc = "closed"
    /\ reply' = Shown(call.turn, call.world)
    /\ pc' = "idle"
    /\ call' = None
    /\ UNCHANGED <<journal, exits>>

\* observe, session_state, and a submit or resume of an answered turn.
Observe(u, w) ==
    /\ pc = "idle"
    /\ reply' = Shown(u, w)
    /\ UNCHANGED <<journal, pc, call, exits>>

----------------------------------------------------------------------------
\* The process exits, or an IO error closes the runtime.
Exit ==
    /\ pc \notin {"idle", "down"}
    /\ exits < MaxExits
    /\ exits' = exits + 1
    /\ pc' = "down"
    /\ call' = None
    /\ UNCHANGED <<journal, reply>>

\* The next runtime opens the journal, which closes what had crossed.
Open ==
    /\ pc = "down"
    /\ attempts' = [r \in Requests |->
                        IF attempts[r].phase = "crossed"
                        THEN [template |-> attempts[r].template, phase |-> "closed"] ELSE attempts[r]]
    /\ pc' = "idle"
    /\ UNCHANGED <<users, call, reply, exits>>

Next ==
    \/ \E t \in Turns, w \in Worlds : SubmitPlain(t, w)
    \/ \E t \in Turns, w \in Worlds, e \in Worlds \cup {None} : Submit(t, w, e)
    \/ \E u \in users, w \in Worlds, e \in Worlds \cup {None} : Resume(u, w, e)
    \/ \E u \in users, w \in Worlds : Observe(u, w)
    \/ Bind \/ StopModel \/ Refused \/ Cross \/ Close \/ Return
    \/ Exit \/ Open

Spec == Init /\ [][Next]_vars

----------------------------------------------------------------------------
\* What a turn promises.

\* When the provider is entered, everything the input rests on, also through
\* earlier turns whose answers it repeats, may be read in that opening and
\* still says the same (runtime.py:420-445, context.py:96-110).
InputIsReadable ==
    [][ \A r \in Requests :
           attempts'[r].phase = "crossed" /\ attempts'[r] # attempts[r] =>
               \A f \in attempts'[r].template.rests : Readable(call.world, f) ]_vars

\* An answer is shown only where all it rests on may be read and, but for a
\* plain turn, still says the same (_observe_context, runtime.py:170-177, 320).
ShownIsReadable ==
    reply # None =>
        \A f \in AnswerOf(reply.turn).rests :
            IF IsPlain(reply.turn) THEN Allowed(reply.world, f.source, f.version)
            ELSE Readable(reply.world, f)

\* No two turns of a session have one number.  One of a topic follows a turn,
\* and has no unanswered turn of a topic before it (runtime.py:403-410,
\* store.py:207): plain turns, which come in any order, do not disturb this.
TurnsInOrder ==
    \A u \in users :
        /\ ~IsPlain(u) /\ u.no > 1 => \E v \in InSession(u) : v.no = u.no - 1
        /\ \A v \in InSession(u) \ {u} :
              /\ v.no # u.no
              /\ v.no > u.no /\ ~IsPlain(u) /\ ~IsPlain(v) => Answered(u.request)

\* A turn of a topic that was bound as one that continues it, and overtaken
\* since by a turn of a higher number.
Lost(u) ==
    /\ ~IsPlain(u)
    /\ u \notin AnswerOf(u).segments
    /\ \E v \in InSession(u) : v.no > u.no

\* A turn whose attempt is bound and did not cross stays resumable, some opening
\* making the same template again, whatever happened in between, unless it is
\* lost: then no opening ever does (store.py:322, the attempt's signature;
\* runtime.py:427-436, where a later plain turn starts another segment).
PendingIsResumable ==
    \A u \in users : pc = "idle" /\ attempts[u.request] # NoRow /\ ~Answered(u.request) =>
        (Lost(u) <=> \A w \in Worlds : Template(u, w, None) # AnswerOf(u))

\* Sources and recent turns of a template fit together in what its turn asked
\* for and what the one chosen profile can take, and each in its own limit.
FitsLimits(c) ==
    /\ ~IsModel(c.turn) => Size(c.sources, c.recents) <= c.turn.budget
    /\ IsModel(c.turn) =>
          \E p \in c.profile :
              c.profile = {p} /\ Size(c.sources, c.recents) <= Least(c.turn.budget, p.usable)
    /\ c.sources # {} /\ Cardinality(c.sources) <= MaxEvidence
    /\ Cardinality(c.recents) <= RecentTurns

\* The input of a turn of a topic fits, whatever openings, other turns and
\* other profiles went before (context.py:84-103, model_gateway.py:247).
InputFits ==
    \A r \in Requests :
        LET c == attempts[r].template IN
        attempts[r] # NoRow /\ ~IsPlain(c.turn) /\ c.stop = None => FitsLimits(c)

=============================================================================
