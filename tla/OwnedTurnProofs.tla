---------------------------- MODULE OwnedTurnProofs ----------------------------
(***************************************************************************)
(* The turns of OwnedTurn, for every set of turns and worlds.  First types *)
(* and the order of turns (IInv); then, on top of it (Kept), what contexts *)
(* rest on, what is shown and what can be resumed.                         *)
(***************************************************************************)
EXTENDS OwnedTurn, FiniteSetTheorems, TLAPS

----------------------------------------------------------------------------
\* The inductive invariant.

\* Every request was asked once, and any of the turns have a last one.
UsersOk ==
    /\ IsFiniteSet(users)
    /\ \A u, v \in users : u.request = v.request => u = v
    /\ \A S \in SUBSET users : S # {} => \E u \in S : \A v \in S : v.no <= u.no

\* The attempt of the running turn is as far as the turn.
RowOk == pc \in {"bound", "crossed", "closed"} => Row.phase = pc

IInv ==
    /\ TypeOK
    /\ attempts = [r \in Requests |-> attempts[r]]
    /\ RowOk
    /\ UsersOk
    /\ TurnsInOrder

----------------------------------------------------------------------------
\* Turns as they are stored.

LEMMA TurnIs ==
    ASSUME NEW t \in Turns, NEW n
    PROVE  /\ [t EXCEPT !.needs = n].request = t.request
           /\ [t EXCEPT !.needs = n].session = t.session
           /\ [t EXCEPT !.needs = n].no = t.no
           /\ [t EXCEPT !.needs = n].topic = t.topic
           /\ [t EXCEPT !.needs = n].needs = n
           /\ [t EXCEPT !.needs = t.needs] = t
<1> DEFINE s == [request |-> t.request, session |-> t.session, no |-> t.no, topic |-> t.topic,
                 premise |-> t.premise, needs |-> t.needs, budget |-> t.budget, intent |-> t.intent]
<1>1. t = s
  BY OwnedAssumption
<1>2. /\ [s EXCEPT !.needs = n].request = s.request
      /\ [s EXCEPT !.needs = n].session = s.session
      /\ [s EXCEPT !.needs = n].no = s.no
      /\ [s EXCEPT !.needs = n].topic = s.topic
      /\ [s EXCEPT !.needs = n].needs = n
      /\ [s EXCEPT !.needs = s.needs] = s
  OBVIOUS
<1> HIDE DEF s
<1> QED BY <1>1, <1>2

LEMMA StoredIs ==
    ASSUME NEW u \in Stored
    PROVE  /\ u.request \in Requests /\ u.no \in Nat /\ u.no > 0
           /\ u.needs \in Needs
<1>1. PICK t \in Turns, n \in Needs : u = [t EXCEPT !.needs = n]
  BY DEF Stored
<1>2. u.request = t.request /\ u.no = t.no /\ u.needs = n
  BY <1>1, TurnIs
<1> QED BY <1>1, <1>2, OwnedAssumption DEF Requests

LEMMA NeedsOf ==
    ASSUME NEW t \in Turns, NEW n \in Needs
    PROVE  [t EXCEPT !.needs = n] \in Stored
BY DEF Stored

LEMMA OwnNeeds ==
    ASSUME NEW t \in Turns, t.needs # {}
    PROVE  t \in Stored
<1>1. t = [t EXCEPT !.needs = t.needs]
  BY TurnIs
<1>2. t.needs \in Needs
  BY DEF Needs
<1> QED BY <1>1, <1>2, NeedsOf

LEMMA LatestIs ==
    ASSUME UsersOk, NEW S \in SUBSET users, S # {}
    PROVE  Latest(S) \in S /\ \A v \in S : v.no <= Latest(S).no
<1>1. \E u \in S : \A v \in S : v.no <= u.no
  BY DEF UsersOk
<1> QED BY <1>1 DEF Latest

\* A turn with the needs of its topic is the same turn otherwise.
LEMMA WithNeedsIs ==
    ASSUME IInv, NEW t \in Turns, t.needs # {} \/ Earlier(t) # {}
    PROVE  /\ WithNeeds(t) \in Stored
           /\ WithNeeds(t).request = t.request /\ WithNeeds(t).session = t.session
           /\ WithNeeds(t).no = t.no /\ WithNeeds(t).topic = t.topic
<1>1. CASE t.needs # {}
  BY <1>1, OwnNeeds DEF WithNeeds
<1>2. CASE t.needs = {}
  <2> DEFINE n == Latest(Earlier(t)).needs
  <2>1. Earlier(t) \in SUBSET users
    BY DEF Earlier, InSession
  <2>2. Latest(Earlier(t)) \in Stored
    BY <1>2, <2>1, LatestIs DEF IInv, TypeOK
  <2>3. n \in Needs
    BY <2>2, StoredIs
  <2>4. WithNeeds(t) = [t EXCEPT !.needs = n]
    BY <1>2 DEF WithNeeds
  <2>5. [t EXCEPT !.needs = n] \in Stored
    <3> HIDE DEF n
    <3> QED BY <2>3, NeedsOf
  <2> HIDE DEF n
  <2> QED BY <2>4, <2>5, TurnIs
<1> QED BY <1>1, <1>2

\* A template is of its turn.
LEMMA TemplateIs ==
    ASSUME NEW t, NEW w, NEW e
    PROVE  Template(t, w, e).turn = t
<1>1. PlainContext(t, w).turn = t
  BY DEF PlainContext
<1>2. ContextNow(t, w).turn = t
  BY DEF ContextNow, Context
<1>3. [ContextNow(t, w) EXCEPT !.stop = "MODEL_SPEC_INVALID", !.rests = {}].turn = t
  BY <1>2 DEF ContextNow, Context
<1> QED BY <1>1, <1>2, <1>3 DEF Template

----------------------------------------------------------------------------
\* A new turn.

LEMMA UsersGrow ==
    ASSUME IInv, NEW t, t \in Stored, users' = users \cup {t},
           \A u \in users : u.request # t.request
    PROVE  UsersOk'
<1>1. \A u \in users \cup {t} : u.no \in Nat
  BY StoredIs DEF IInv, TypeOK
<1>2. ASSUME NEW S \in SUBSET (users \cup {t}), S # {}
      PROVE  \E u \in S : \A v \in S : v.no <= u.no
  <2>1. CASE S \ {t} = {}
    BY <1>1, <1>2, <2>1
  <2>2. CASE S \ {t} # {}
    <3>1. PICK m \in S \ {t} : \A v \in S \ {t} : v.no <= m.no
      <4>1. S \ {t} \in SUBSET users
        OBVIOUS
      <4> QED BY <2>2, <4>1 DEF IInv, UsersOk
    <3>2. CASE t \in S /\ m.no <= t.no
      BY <1>1, <3>1, <3>2
    <3>3. CASE ~(t \in S /\ m.no <= t.no)
      BY <1>1, <3>1, <3>3
    <3> QED BY <3>2, <3>3
  <2> QED BY <2>1, <2>2
<1> QED BY <1>2, FS_AddElement DEF IInv, UsersOk

LEMMA StartStep ==
    ASSUME IInv, NEW s \in Stored, NEW w, NEW e, Start(s, w, e),
           users' = users \cup {s}, UNCHANGED <<attempts, exits>>
    PROVE  TypeOK'
BY DEF IInv, TypeOK, Start, Requests

LEMMA PlainStep ==
    ASSUME IInv, NEW t \in Turns, NEW w, SubmitPlain(t, w)
    PROVE  IInv'
<1>1. t \in Stored
  BY OwnNeeds, OwnedAssumption DEF SubmitPlain, IsPlain
<1>2. /\ TypeOK' /\ UsersOk' /\ UNCHANGED attempts
      /\ users' = users \cup {t} /\ IsPlain(t) /\ \A u \in users : u.session = t.session => u.no # t.no
  BY <1>1, StartStep, UsersGrow DEF SubmitPlain, FreeNumber, InSession
<1>3. TurnsInOrder'
  BY <1>2 DEF IInv, TurnsInOrder, InSession, IsPlain, Answered
<1>4. RowOk'
  BY DEF SubmitPlain, Start, RowOk
<1> QED BY <1>2, <1>3, <1>4 DEF IInv

LEMMA TopicStep ==
    ASSUME IInv, NEW t \in Turns, NEW w, NEW e, Submit(t, w, e)
    PROVE  IInv'
<1> DEFINE s == WithNeeds(t)
<1>1. /\ s \in Stored
      /\ s.request = t.request /\ s.session = t.session /\ s.no = t.no /\ s.topic = t.topic
  BY WithNeedsIs DEF Submit
<1>2. /\ users' = users \cup {s} /\ UNCHANGED <<attempts, exits>> /\ Start(s, w, e)
      /\ \A u \in users : u.request # s.request
      /\ NextInSession(t) /\ ~IsPlain(t)
  BY <1>1 DEF Submit
<1> HIDE DEF s
<1>3. TypeOK' /\ UsersOk'
  BY <1>1, <1>2, StartStep, UsersGrow
<1>4. /\ s.no \in Nat /\ \A u \in users : u.no \in Nat
  BY <1>1, StoredIs DEF IInv, TypeOK
<1>5. /\ \A u \in users : u.session = s.session => u.no < s.no /\ Answered(u.request)
      /\ s.no > 1 => \E v \in users : v.session = s.session /\ v.no = s.no - 1
  <2>1. InSession(t) \in SUBSET users
    BY DEF InSession
  <2>2. CASE InSession(t) = {}
    BY <1>1, <1>2, <2>2 DEF NextInSession, InSession
  <2>3. CASE InSession(t) # {}
    <3>1. Latest(InSession(t)) \in InSession(t)
          /\ \A v \in InSession(t) : v.no <= Latest(InSession(t)).no
      BY <2>1, <2>3, LatestIs DEF IInv
    <3>2. /\ s.no = 1 + Latest(InSession(t)).no
          /\ \A u \in InSession(t) : Answered(u.request)
      BY <1>1, <1>2, <2>3 DEF NextInSession
    <3> DEFINE m == Latest(InSession(t))
    <3>3. /\ m \in users /\ m.session = s.session /\ m.no \in Nat /\ s.no = 1 + m.no
          /\ \A u \in users : u.session = s.session => u.no <= m.no /\ Answered(u.request)
      BY <1>1, <1>4, <3>1, <3>2 DEF InSession
    <3> HIDE DEF m
    <3>4. s.no - 1 = m.no
      BY <3>3
    <3>5. \A u \in users : u.session = s.session => u.no < s.no
      BY <1>4, <3>3
    <3> QED BY <3>3, <3>4, <3>5
  <2> QED BY <2>2, <2>3
<1>6. TurnsInOrder'
  BY <1>1, <1>2, <1>4, <1>5 DEF IInv, TurnsInOrder, InSession, IsPlain, Answered
<1>7. RowOk'
  BY <1>2 DEF Start, RowOk
<1> QED BY <1>2, <1>3, <1>6, <1>7 DEF IInv

----------------------------------------------------------------------------
\* The other steps add no turn.

LEMMA OrderStands ==
    ASSUME IInv, UNCHANGED users, \A r \in Requests : Answered(r) => Answered(r)'
    PROVE  UsersOk' /\ TurnsInOrder'
<1>1. \A u \in users : u.request \in Requests
  BY StoredIs DEF IInv, TypeOK
<1> QED BY <1>1 DEF IInv, UsersOk, TurnsInOrder, InSession, IsPlain

\* A step of the running turn's attempt.
LEMMA RowStep ==
    ASSUME IInv, pc \notin {"idle", "down"}, NEW template, template.turn \in users,
           NEW phase \in {"bound", "crossed", "closed"}, SetRow(template, phase),
           Answered(call.turn.request) => phase = "closed",
           pc' = phase, UNCHANGED <<users, call, exits>>
    PROVE  IInv'
<1> DEFINE id == call.turn.request
<1>1. call.turn \in users /\ id \in Requests
  BY StoredIs DEF IInv, TypeOK
<1>2. /\ attempts' = [r \in Requests |-> attempts'[r]]
      /\ attempts'[id] = [template |-> template, phase |-> phase]
      /\ \A r \in Requests : r # id => attempts'[r] = attempts[r]
  BY <1>1 DEF IInv, SetRow
<1>3. TypeOK'
  BY <1>1, <1>2 DEF IInv, TypeOK
<1>4. \A r \in Requests : Answered(r) => Answered(r)'
  BY <1>1, <1>2 DEF Answered
<1> QED BY <1>2, <1>3, <1>4, OrderStands DEF IInv, RowOk, Row

LEMMA InvStep == IInv /\ [Next]_vars => IInv'
<1> SUFFICES ASSUME IInv, [Next]_vars PROVE IInv'
  OBVIOUS
<1>1. CASE UNCHANGED vars
  BY <1>1 DEF IInv, TypeOK, RowOk, Row, UsersOk, TurnsInOrder, InSession, IsPlain, Answered, vars, journal
<1>2. CASE \E t \in Turns, w \in Worlds : SubmitPlain(t, w)
  BY <1>2, PlainStep
<1>3. CASE \E t \in Turns, w \in Worlds, e \in Worlds \cup {None} : Submit(t, w, e)
  BY <1>3, TopicStep
<1>4. ASSUME \/ \E u \in users, w \in Worlds, e \in Worlds \cup {None} : Resume(u, w, e)
             \/ \E u \in users, w \in Worlds : Observe(u, w)
             \/ Refused \/ Return \/ Exit
      PROVE  IInv'
  <2>1. UNCHANGED journal /\ TypeOK'
    BY <1>4 DEF IInv, TypeOK, Resume, Start, Observe, Refused, Return, Exit, journal
  <2>2. UsersOk' /\ TurnsInOrder'
    BY <2>1, OrderStands DEF journal, Answered
  <2>3. RowOk'
    BY <1>4 DEF IInv, RowOk, Row, Resume, Start, Observe, Refused, Return, Exit, journal
  <2> QED BY <2>1, <2>2, <2>3 DEF IInv, journal
<1>5. CASE Bind \/ StopModel
  <2>1. /\ pc = "asked" /\ UNCHANGED <<users, call, exits>>
        /\ ~Answered(call.turn.request)
    BY <1>5 DEF Bind, StopModel, Row, NoRow, Answered
  <2>2. Made.turn \in users
    BY <2>1, TemplateIs DEF Made, IInv, TypeOK
  <2> QED BY <1>5, <2>1, <2>2, RowStep DEF Bind, StopModel
<1>6. CASE Cross \/ Close
  <2>1. /\ call.turn.request \in Requests /\ Row.phase = pc /\ pc \in {"bound", "crossed"}
        /\ UNCHANGED <<users, call, exits>>
    BY <1>6, StoredIs DEF IInv, TypeOK, RowOk, Cross, Close
  <2>2. Row.template.turn \in users /\ ~Answered(call.turn.request)
    BY <2>1 DEF IInv, TypeOK, Row, NoRow, Answered
  <2> QED BY <1>6, <2>1, <2>2, RowStep DEF Cross, Close
<1>7. CASE Open
  <2>1. /\ UNCHANGED <<users, call, exits>> /\ pc' = "idle"
        /\ attempts' = [r \in Requests |-> attempts'[r]]
        /\ \A r \in Requests : attempts'[r] = IF attempts[r].phase = "crossed"
                                   THEN [template |-> attempts[r].template, phase |-> "closed"] ELSE attempts[r]
    BY <1>7 DEF Open
  <2>2. \A r \in Requests : /\ Answered(r) => Answered(r)'
                            /\ attempts[r] = NoRow => attempts'[r] = NoRow
    BY <2>1 DEF Answered, NoRow
  <2>3. ASSUME NEW r \in Requests, attempts[r].phase = "crossed"
        PROVE  attempts'[r].template.turn \in users /\ attempts'[r].phase = "closed"
    BY <2>1, <2>3 DEF IInv, TypeOK, NoRow
  <2>4. TypeOK'
    BY <2>1, <2>2, <2>3 DEF IInv, TypeOK
  <2> QED BY <2>1, <2>2, <2>4, OrderStands DEF IInv, RowOk
<1> QED BY <1>1, <1>2, <1>3, <1>4, <1>5, <1>6, <1>7 DEF Next

LEMMA InvHolds == Spec => []IInv
<1>1. Init => IInv
  BY OwnedAssumption, FS_EmptySet DEF Init, IInv, TypeOK, RowOk, UsersOk, TurnsInOrder
<1> QED BY <1>1, InvStep, PTL DEF Spec

\* Every reachable state is well typed: what the journal holds, and that a
\* running operation is about a stored turn (runtime.py:245-264, 377-412).
THEOREM TypeCorrect == Spec => []TypeOK
<1>1. IInv => TypeOK
  BY DEF IInv
<1> QED BY <1>1, InvHolds, PTL

\* The turns of a session are in order, whatever its plain turns, refused
\* resumes and exits (runtime.py:403-410, store.py:207).
THEOREM TurnsOrdered == Spec => []TurnsInOrder
<1>1. IInv => TurnsInOrder
  BY DEF IInv
<1> QED BY <1>1, InvHolds, PTL

----------------------------------------------------------------------------
\* What a template rests on.

\* A snapshot names this source as it is, and its policy permits it.
Covers(snapshot, f) ==
    /\ <<f.source, f.version, f.revision, f.text>> \in Revisions(snapshot.sources)
    /\ <<f.source, f.version, f.revision, f.status>> \in Lifecycles(snapshot.sources)
    /\ \E d \in snapshot.policy :
          d.source = f.source /\ d.version = f.version /\ d.states = {"ALLOW"}

TemplateOk(c) ==
    \A f \in c.rests :
        /\ f \in Fixtures
        /\ IF IsPlain(c.turn) THEN c.stop = None /\ \E n \in c.turn.needs : SameVersion(f, n)
           ELSE Covers(c.snapshot, f)

\* Nothing is invalidated only if policy and sources are what they were.
LEMMA Valid ==
    ASSUME NEW old, NEW new, NEW p, NEW q, Invalidation(old, new, p, q) = {}, NEW f
    PROVE  Covers(old, f) <=> Covers(new, f)
<1>1. /\ old.policy = new.policy
      /\ Revisions(old.sources) = Revisions(new.sources)
      /\ Lifecycles(old.sources) = Lifecycles(new.sources)
  BY DEF Invalidation
<1> QED BY <1>1 DEF Covers

LEMMA CoveredIsReadable ==
    ASSUME NEW w \in Worlds, NEW needs, NEW f \in Fixtures, Covers(Snapshot(w, needs), f)
    PROVE  Readable(w, f)
<1> DEFINE sources == UNION {Candidates(w, n) : n \in needs}
           policy  == UNION {{Decision(w, n.source, v) : v \in Versions(w, n)} : n \in needs}
<1>1. Snapshot(w, needs).sources = sources /\ Snapshot(w, needs).policy = policy
  BY DEF Snapshot
<1>2. sources \subseteq w.fixtures
  BY DEF Candidates
<1> HIDE DEF sources
<1>3. PICK g \in sources :
          g.source = f.source /\ g.version = f.version /\ g.revision = f.revision /\ g.text = f.text
  BY <1>1 DEF Covers, Revisions
<1>4. PICK h \in sources :
          h.source = f.source /\ h.version = f.version /\ h.revision = f.revision /\ h.status = f.status
  BY <1>1 DEF Covers, Lifecycles
<1>5. g = h
  BY <1>2, <1>3, <1>4, OwnedAssumption
<1>6. g \in Fixtures
  BY <1>2 DEF Fixtures
<1>7. g = f
  BY <1>3, <1>4, <1>5, <1>6, OwnedAssumption
<1>8. Allowed(w, f.source, f.version)
  <2>1. PICK d \in policy : d.source = f.source /\ d.version = f.version /\ d.states = {"ALLOW"}
    BY <1>1 DEF Covers
  <2>2. PICK s, v : d = Decision(w, s, v)
    BY <2>1
  <2>3. s = f.source /\ v = f.version
    BY <2>1, <2>2 DEF Decision
  <2> QED BY <2>1, <2>2, <2>3 DEF Allowed
<1> QED BY <1>2, <1>7, <1>8 DEF Readable

\* A source that is selected is one of the snapshot's, and permitted.
LEMMA SelectedIsCovered ==
    ASSUME NEW w \in Worlds, NEW needs, NEW f \in Evidence(Snapshot(w, needs))
    PROVE  f \in Fixtures /\ Covers(Snapshot(w, needs), f)
<1>1. PICK n \in needs : f \in Selected(w, n)
  BY DEF Evidence, Snapshot, Route
<1>2. f \in Candidates(w, n)
  BY <1>1 DEF Selected, Matching
<1>3. f \in w.fixtures /\ f.source = n.source /\ f.version \in Permitted(w, n)
  BY <1>2 DEF Candidates
<1>4. /\ f \in Snapshot(w, needs).sources
      /\ Decision(w, f.source, f.version) \in Snapshot(w, needs).policy
  BY <1>2, <1>3 DEF Snapshot, Permitted
<1>5. /\ Decision(w, f.source, f.version).source = f.source
      /\ Decision(w, f.source, f.version).version = f.version
      /\ Decision(w, f.source, f.version).states = {"ALLOW"}
  BY <1>3 DEF Permitted, Allowed, Decision
<1>6. f \in Fixtures
  BY <1>3 DEF Fixtures
<1> QED BY <1>4, <1>5, <1>6 DEF Covers, Revisions, Lifecycles

LEMMA ContextHas ==
    ASSUME NEW t, NEW w
    PROVE  LET snapshot == Snapshot(w, t.needs)
               sources  == Included(Evidence(snapshot), Limit(w, t))
               recents  == Recents(t, snapshot, sources, Limit(w, t)) IN
           /\ ContextNow(t, w).turn = t
           /\ ContextNow(t, w).snapshot = snapshot
           /\ ContextNow(t, w).rests \subseteq sources \cup UNION {AnswerOf(u).rests : u \in recents}
BY DEF ContextNow, Context

\* A context rests on what its own snapshot covers.
LEMMA ContextIsOk ==
    ASSUME NEW t, NEW w \in Worlds,
           \A u \in Earlier(t) : \A f \in AnswerOf(u).rests :
               f \in Fixtures /\ Covers(AnswerOf(u).snapshot, f),
           NEW f \in ContextNow(t, w).rests
    PROVE  f \in Fixtures /\ Covers(ContextNow(t, w).snapshot, f)
<1> DEFINE snapshot == Snapshot(w, t.needs)
           sources  == Included(Evidence(snapshot), Limit(w, t))
           recents  == Recents(t, snapshot, sources, Limit(w, t))
<1>1. /\ ContextNow(t, w).snapshot = snapshot
      /\ f \in sources \cup UNION {AnswerOf(u).rests : u \in recents}
  BY ContextHas
<1>2. CASE f \in sources
  <2>1. f \in Evidence(snapshot)
    BY <1>2 DEF Included
  <2> QED BY <1>1, <2>1, SelectedIsCovered
<1>3. CASE f \notin sources
  <2>1. PICK u \in recents : f \in AnswerOf(u).rests
    BY <1>1, <1>3
  <2>2. u \in Earlier(t) /\ ~Stale(u, snapshot, t.premise)
    BY <2>1 DEF Recents, Fitting, RecentTail
  <2>3. f \in Fixtures /\ Covers(AnswerOf(u).snapshot, f)
    BY <2>1, <2>2
  <2> QED BY <1>1, <2>2, <2>3, Valid DEF Stale
<1> QED BY <1>2, <1>3

\* What a plain turn's answer rests on.
LEMMA PlainIsOk ==
    ASSUME NEW t \in users, NEW w \in Worlds, users \subseteq Stored,
           NEW f \in PlainContext(t, w).rests
    PROVE  /\ f \in Fixtures /\ Readable(w, f)
           /\ PlainContext(t, w).stop = None /\ \E n \in t.needs : SameVersion(f, n)
<1>1. f \in Source(t, w) /\ PlainContext(t, w).stop = None
  BY DEF PlainContext
<1>2. f \in w.fixtures /\ \E n \in t.needs : SameVersion(f, n) /\ Allowed(w, n.source, n.version)
  BY <1>1, OwnedAssumption DEF Source
<1>3. Readable(w, f) /\ f \in Fixtures
  BY <1>2 DEF Readable, SameVersion, Fixtures
<1> QED BY <1>1, <1>2, <1>3

----------------------------------------------------------------------------
\* What is kept of the journal's rows, the running turn and the answer shown.

RowsOk ==
    \A r \in Requests : attempts[r] # NoRow =>
        attempts[r].template.turn.request = r /\ TemplateOk(attempts[r].template)

CallOk ==
    /\ pc \notin {"idle", "down"} =>
          call.world \in Worlds /\ (call.expected = None \/ IsModel(call.turn))
    /\ pc = "bound" => \A f \in Row.template.rests : Readable(call.world, f)
    /\ \A r \in Requests : attempts[r].phase = "crossed" =>
          pc = "down" \/ (pc = "crossed" /\ r = call.turn.request)

ShownOk ==
    reply # None => pc = "idle" /\ reply.turn \in users /\ Answered(reply.turn.request) /\ ShownIsReadable

BoundOk ==
    \A u \in users : attempts[u.request].phase = "bound" =>
        Lost(u) \/ \E w \in Worlds : Template(u, w, None) = AnswerOf(u)

Kept == IInv /\ RowsOk /\ CallOk /\ ShownOk /\ BoundOk

LEMMA Rows ==
    ASSUME IInv, RowsOk, NEW u \in users, attempts[u.request] # NoRow
    PROVE  AnswerOf(u).turn = u /\ TemplateOk(AnswerOf(u))
<1>1. u.request \in Requests
  BY StoredIs DEF IInv, TypeOK
<1>2. /\ AnswerOf(u).turn \in users /\ AnswerOf(u).turn.request = u.request
      /\ TemplateOk(AnswerOf(u))
  BY <1>1 DEF IInv, TypeOK, RowsOk, AnswerOf
<1> QED BY <1>2 DEF IInv, UsersOk

\* Earlier turns of a topic are stored and answered.
LEMMA EarlierIs ==
    ASSUME IInv, NEW t, ~IsPlain(t), NEW u \in Earlier(t)
    PROVE  u \in users /\ ~IsPlain(u) /\ attempts[u.request] # NoRow /\ Answered(u.request)
BY DEF Earlier, InSession, IsPlain, Answered, NoRow

\* What a turn's template rests on may be read where it was made.
LEMMA TemplateIsOk ==
    ASSUME IInv, RowsOk, NEW t \in users, NEW w \in Worlds, NEW e
    PROVE  /\ TemplateOk(Template(t, w, e))
           /\ \A f \in Template(t, w, e).rests : Readable(w, f)
<1> DEFINE c == Template(t, w, e)
<1> SUFFICES TemplateOk(c) /\ \A f \in c.rests : Readable(w, f)
  OBVIOUS
<1>1. CASE IsPlain(t)
  <2>1. c = PlainContext(t, w) /\ c.turn = t
    BY <1>1, TemplateIs DEF Template
  <2> HIDE DEF c
  <2> QED BY <1>1, <2>1, PlainIsOk DEF TemplateOk, IInv, TypeOK
<1>2. CASE ~IsPlain(t)
  <2>1. \A u \in Earlier(t) : \A f \in AnswerOf(u).rests :
            f \in Fixtures /\ Covers(AnswerOf(u).snapshot, f)
    BY <1>2, EarlierIs, Rows DEF TemplateOk
  <2>2. \A f \in ContextNow(t, w).rests : f \in Fixtures /\ Covers(ContextNow(t, w).snapshot, f)
    BY <2>1, ContextIsOk
  <2>3. c.turn = t /\ c.rests \subseteq ContextNow(t, w).rests /\ (c.rests # {} => c = ContextNow(t, w))
    <3>1. CASE AsExpected(t, w, e)
      BY <1>2, <3>1, TemplateIs DEF Template
    <3>2. CASE ~AsExpected(t, w, e)
      <4>1. c = [ContextNow(t, w) EXCEPT !.stop = "MODEL_SPEC_INVALID", !.rests = {}]
        BY <1>2, <3>2 DEF Template
      <4>2. [ContextNow(t, w) EXCEPT !.stop = "MODEL_SPEC_INVALID", !.rests = {}].rests = {}
        BY DEF ContextNow, Context
      <4> HIDE DEF c
      <4>3. c.rests = {}
        BY <4>1, <4>2
      <4> QED BY <4>3, TemplateIs DEF c
    <3> QED BY <3>1, <3>2
  <2>4. ContextNow(t, w).snapshot = Snapshot(w, t.needs)
    BY ContextHas
  <2> HIDE DEF c
  <2> QED BY <1>2, <2>2, <2>3, <2>4, CoveredIsReadable DEF TemplateOk
<1> QED BY <1>1, <1>2

\* What is shown may be read where it is shown.
LEMMA ShownIs ==
    ASSUME IInv, RowsOk, NEW u \in users, NEW w \in Worlds, Shown(u, w) # None
    PROVE  /\ Shown(u, w) = [turn |-> u, world |-> w] /\ Answered(u.request)
           /\ \A f \in AnswerOf(u).rests :
                  IF IsPlain(u) THEN Allowed(w, f.source, f.version) ELSE Readable(w, f)
<1>1. /\ Shown(u, w) = [turn |-> u, world |-> w] /\ Answered(u.request)
      /\ IF IsPlain(u) THEN StillPermitted(u, w) ELSE StillStands(u, w)
  BY DEF Shown
<1>2. AnswerOf(u).turn = u /\ TemplateOk(AnswerOf(u))
  BY <1>1, Rows DEF Answered, NoRow
<1>3. ASSUME IsPlain(u), NEW f \in AnswerOf(u).rests
      PROVE  Allowed(w, f.source, f.version)
  <2>1. AnswerOf(u).stop = None /\ \E n \in u.needs : SameVersion(f, n)
    BY <1>2, <1>3 DEF TemplateOk
  <2> QED BY <1>1, <1>3, <2>1, OwnedAssumption DEF StillPermitted, SameVersion
<1>4. ASSUME ~IsPlain(u), NEW f \in AnswerOf(u).rests
      PROVE  Readable(w, f)
  <2>1. f \in Fixtures /\ Covers(AnswerOf(u).snapshot, f)
    BY <1>2, <1>4 DEF TemplateOk
  <2>2. Covers(Snapshot(w, u.needs), f)
    BY <1>1, <1>4, <2>1, Valid DEF StillStands, Stale
  <2> QED BY <2>1, <2>2, CoveredIsReadable
<1> QED BY <1>1, <1>3, <1>4

----------------------------------------------------------------------------
\* A pending turn's template is made again as it was.

LEMMA ContextStays ==
    ASSUME NEW t, NEW w, Earlier(t)' = Earlier(t),
           \A u \in Earlier(t) : AnswerOf(u)' = AnswerOf(u),
           Earlier(t) # {} => Latest(Earlier(t)) \in Earlier(t),
           Segments(t, Others(t))' = Segments(t, Others(t)),
           Continues(t, Others(t))' <=> Continues(t, Others(t))
    PROVE  ContextNow(t, w)' = ContextNow(t, w)
<1>1. ASSUME NEW s PROVE Reasons(t, s)' = Reasons(t, s)
  BY DEF Reasons
<1>2. ASSUME NEW s, NEW l
      PROVE  /\ RecentTail(t, s, l)' = RecentTail(t, s, l)
             /\ RecentTail(t, s, l) \subseteq Earlier(t)
  BY <1>1 DEF RecentTail
<1>3. ASSUME NEW s, NEW x, NEW l
      PROVE  /\ Recents(t, s, x, l)' = Recents(t, s, x, l)
             /\ Recents(t, s, x, l) \subseteq Earlier(t)
  <2> DEFINE good == {u \in RecentTail(t, s, l) : ~Stale(u, s, t.premise)}
  <2>1. good' = good /\ good \subseteq Earlier(t)
    BY <1>2 DEF Stale
  <2>2. Recents(t, s, x, l) = Fitting(good, x, l) /\ Recents(t, s, x, l)' = Fitting(good', x, l)
    BY DEF Recents
  <2>3. Fitting(good, x, l) \subseteq good
    BY DEF Fitting
  <2> HIDE DEF good
  <2> QED BY <2>1, <2>2, <2>3
<1> DEFINE snapshot == Snapshot(w, t.needs)
           sources  == Included(Evidence(snapshot), Limit(w, t))
           recents  == Recents(t, snapshot, sources, Limit(w, t))
<1>4. recents' = recents /\ recents \subseteq Earlier(t) /\ Reasons(t, snapshot)' = Reasons(t, snapshot)
  BY <1>1, <1>3
<1>5. UNION {AnswerOf(u).rests : u \in recents}' = UNION {AnswerOf(u).rests : u \in recents}
  BY <1>4
<1>6. ASSUME NEW r PROVE Rebuild(t, w, r, Others(t))' = Rebuild(t, w, r, Others(t))
  BY DEF Rebuild
<1> QED BY <1>4, <1>5, <1>6 DEF ContextNow, Context

\* A turn of a topic that waits is the only one of its session.
LEMMA OnlyWaiting ==
    ASSUME IInv, NEW t \in users, NEW u \in users, ~IsPlain(t), ~IsPlain(u), u # t,
           u.session = t.session, ~Answered(t.request)
    PROVE  Answered(u.request)
<1>1. u.no \in Nat /\ t.no \in Nat
  BY StoredIs DEF IInv, TypeOK
<1>2. u.no # t.no /\ (t.no > u.no => Answered(u.request)) /\ (u.no > t.no => Answered(t.request))
  BY DEF IInv, TurnsInOrder, InSession
<1> QED BY <1>1, <1>2

\* The last of some turns of a session is of the topic or not as before, when
\* turns of no topic are added before some of them, or after one of another.
LEMMA ContinuesStays ==
    ASSUME NEW t, NEW A, NEW B, A \subseteq B,
           \A v \in B \ A : v.topic # t.topic,
           \A v \in B : v.no \in Nat,
           \A u, v \in B : u.no = v.no => u = v,
           \A S \in SUBSET B : S # {} => \E u \in S : \A v \in S : v.no <= u.no,
           ~Continues(t, A) \/ \A v \in B \ A : \E x \in A : v.no < x.no
    PROVE  Continues(t, B) <=> Continues(t, A)
<1>1. ASSUME NEW S \in SUBSET B, S # {}
      PROVE  Latest(S) \in S /\ \A v \in S : v.no <= Latest(S).no
  BY <1>1 DEF Latest
<1>2. CASE B = {}
  BY <1>2
<1>3. CASE B # {}
  <2> DEFINE m == Latest(B)
             n == Latest(A)
  <2>1. m \in B /\ \A v \in B : v.no <= m.no
    BY <1>1, <1>3
  <2>2. A # {} => n \in A /\ \A v \in A : v.no <= n.no
    BY <1>1
  <2>3. Continues(t, B) <=> m.topic = t.topic
    BY <1>3 DEF Continues
  <2>4. Continues(t, A) <=> A # {} /\ n.topic = t.topic
    BY DEF Continues
  <2> HIDE DEF m, n
  <2>5. CASE m \in A
    <3>1. m.no <= n.no /\ n.no <= m.no /\ n \in B
      BY <2>1, <2>2, <2>5
    <3>2. m = n
      BY <2>1, <3>1
    <3> QED BY <2>3, <2>4, <2>5, <3>2
  <2>6. CASE m \notin A
    <3>1. m.topic # t.topic
      BY <2>1, <2>6
    <3>2. ~\E x \in A : m.no < x.no
      BY <2>1
    <3>3. ~Continues(t, A)
      BY <2>1, <2>6, <3>2
    <3> QED BY <2>3, <3>1, <3>3
  <2> QED BY <2>5, <2>6
<1> QED BY <1>2, <1>3

\* Whatever is asked while a turn of a topic waits, its segments stay: only
\* plain turns are added, which come below a turn that some other turn is
\* between, unless they come last; and then the turn does not continue its topic.
LEMMA SegmentsStay ==
    ASSUME IInv, IInv', NEW t \in users, ~IsPlain(t), ~Answered(t.request), ~Answered(t.request)',
           users \subseteq users', \A u \in users' \ users : ~Answered(u.request)',
           t \in Segments(t, Others(t)) \/ \A v \in InSession(t)' : ~(v.no > t.no)
    PROVE  /\ Segments(t, Others(t))' = Segments(t, Others(t))
           /\ Continues(t, Others(t))' <=> Continues(t, Others(t))
<1> DEFINE A == Others(t)
           B == Others(t)'
           Below(S, x) == {v \in S : v.no < x.no}
<1>1. /\ A = {v \in users : v.session = t.session /\ v.request # t.request}
      /\ B = {v \in users' : v.session = t.session /\ v.request # t.request}
  BY DEF Others, InSession
<1>2. A \subseteq B /\ B \subseteq users'
  BY <1>1
<1>3. \A v \in users' : v.no \in Nat /\ v.no > 0
  BY StoredIs DEF IInv, TypeOK
<1>4. /\ \A u, v \in users' : u.session = v.session /\ u # v => u.no # v.no
      /\ \A u, v \in users' : u.session = v.session /\ u # v /\ v.no > u.no
              /\ ~IsPlain(u) /\ ~IsPlain(v) => Answered(u.request)'
  BY DEF IInv, TurnsInOrder, InSession, IsPlain
<1>5. /\ \A u, v \in users : u.session = v.session /\ u # v /\ v.no > u.no
              /\ ~IsPlain(u) /\ ~IsPlain(v) => Answered(u.request)
      /\ \A u \in users : ~IsPlain(u) /\ u.no > 1 =>
              \E v \in users : v.session = u.session /\ v.no = u.no - 1
  BY DEF IInv, TurnsInOrder, InSession
<1>6. \A S \in SUBSET B : S # {} => \E u \in S : \A v \in S : v.no <= u.no
  <2>1. \A S \in SUBSET users' : S # {} => \E u \in S : \A v \in S : v.no <= u.no
    BY DEF IInv, UsersOk
  <2> QED BY <1>2, <2>1
<1>7. \A u, v \in users : u.request = v.request => u = v
  BY DEF IInv, UsersOk
<1>8. ASSUME NEW v \in B \ A
      PROVE  v.topic # t.topic
  <2>1. v \in users' \ users /\ v.session = t.session /\ v # t /\ t \in users'
    BY <1>1
  <2>2. v.no > t.no \/ t.no > v.no
    BY <1>3, <1>4, <2>1
  <2>3. IsPlain(v)
    BY <1>4, <2>1, <2>2
  <2> QED BY <2>3 DEF IsPlain
\* Under a turn of a topic there is another before any that is added.
<1>9. ASSUME NEW x \in users, ~IsPlain(x), x.session = t.session, NEW v \in B \ A, v.no < x.no
      PROVE  \E y \in users : y.session = t.session /\ y.no < x.no /\ v.no < y.no
  <2>1. v \in users' \ users /\ v.session = t.session
    BY <1>1
  <2>2. x.no \in Nat /\ x.no > 1 /\ v.no \in Nat
    BY <1>2, <1>3, <1>9, <2>1
  <2>3. PICK y \in users : y.session = t.session /\ y.no = x.no - 1
    BY <1>5, <1>9, <2>2
  <2>4. v.no # y.no /\ y.no \in Nat
    BY <1>3, <1>4, <2>1, <2>3
  <2> QED BY <1>9, <2>2, <2>3, <2>4
<1>10. ASSUME NEW x \in A, x.topic = t.topic
       PROVE  Continues(t, Below(B, x)) <=> Continues(t, Below(A, x))
  <2>1. x \in users /\ x.session = t.session /\ x # t /\ ~IsPlain(x)
    BY <1>1, <1>10 DEF IsPlain
  <2>2. ASSUME NEW v \in Below(B, x) \ Below(A, x)
        PROVE  \E y \in Below(A, x) : v.no < y.no
    <3>1. v \in B \ A /\ v.no < x.no
      OBVIOUS
    <3>2. PICK y \in users : y.session = t.session /\ y.no < x.no /\ v.no < y.no
      BY <1>9, <2>1, <3>1
    <3>3. y # t
      BY <1>5, <2>1, <3>2
    <3>4. y \in A
      BY <1>1, <1>7, <3>2, <3>3
    <3> QED BY <3>2, <3>4
  <2>3. /\ Below(A, x) \subseteq Below(B, x) /\ Below(B, x) \subseteq B
        /\ \A v \in Below(B, x) \ Below(A, x) : v \in B \ A
    BY <1>2
  <2>4. \A S \in SUBSET Below(B, x) : S # {} => \E u \in S : \A v \in S : v.no <= u.no
    BY <1>6, <2>3
  <2>5. /\ \A v \in Below(B, x) : v.no \in Nat
        /\ \A u, v \in Below(B, x) : u.no = v.no => u = v
        /\ \A v \in Below(B, x) \ Below(A, x) : v.topic # t.topic
    BY <1>1, <1>2, <1>3, <1>4, <1>8, <2>3
  <2> HIDE DEF A, B, Below
  <2> QED BY <2>2, <2>3, <2>4, <2>5, ContinuesStays
<1>11. Continues(t, B) <=> Continues(t, A)
  <2>1. /\ \A v \in B : v.no \in Nat
        /\ \A u, v \in B : u.no = v.no => u = v
    BY <1>1, <1>3, <1>4
  <2>2. CASE t \in Segments(t, Others(t))
    <3>1. ~Continues(t, A)
      BY <1>1, <2>2 DEF Segments
    <3> HIDE DEF A, B
    <3> QED BY <1>2, <1>6, <1>8, <2>1, <3>1, ContinuesStays
  <2>3. CASE \A v \in InSession(t)' : ~(v.no > t.no)
    <3>1. ASSUME NEW v \in B \ A
          PROVE  \E y \in A : v.no < y.no
      <4>1. v \in users' /\ v.session = t.session /\ v # t /\ t \in users'
        BY <1>1
      <4>2. v.no < t.no
        BY <1>3, <1>4, <2>3, <4>1 DEF InSession
      <4>3. PICK y \in users : y.session = t.session /\ y.no < t.no /\ v.no < y.no
        BY <1>9, <4>2
      <4>4. y # t
        BY <1>3, <4>3
      <4> QED BY <1>1, <1>7, <4>3, <4>4
    <3> HIDE DEF A, B
    <3> QED BY <1>2, <1>6, <1>8, <2>1, <3>1, ContinuesStays
  <2> QED BY <2>2, <2>3
<1>12. /\ Segments(t, Others(t)) = {x \in A : x.topic = t.topic /\ ~Continues(t, Below(A, x))}
                                     \cup (IF Continues(t, A) THEN {} ELSE {t})
       /\ Segments(t, Others(t))' = {x \in B : x.topic = t.topic /\ ~Continues(t, Below(B, x))}
                                     \cup (IF Continues(t, B) THEN {} ELSE {t})
       /\ Continues(t, Others(t))' <=> Continues(t, B)
  BY DEF Segments, Continues
<1> HIDE DEF A, B, Below
<1>13. {x \in B : x.topic = t.topic /\ ~Continues(t, Below(B, x))}
           = {x \in A : x.topic = t.topic /\ ~Continues(t, Below(A, x))}
  BY <1>2, <1>8, <1>10
<1>14. Continues(t, Others(t)) <=> Continues(t, A)
  BY DEF A
<1> QED BY <1>11, <1>12, <1>13, <1>14

\* Whatever becomes of the others, the template of a turn that is not answered
\* stays as it is: the answers it is made of are there and do not change.
LEMMA TemplateStays ==
    ASSUME IInv, IInv', NEW t \in users, ~Answered(t.request), ~Answered(t.request)', NEW w,
           users \subseteq users', \A u \in users' \ users : ~Answered(u.request)',
           \A r \in Requests : Answered(r) => attempts'[r] = attempts[r],
           \/ IsPlain(t)
           \/ t \in Segments(t, Others(t))
           \/ \A v \in InSession(t)' : ~(v.no > t.no)
    PROVE  Template(t, w, None)' = Template(t, w, None)
<1>1. CASE IsPlain(t)
  <2>1. PlainContext(t, w)' = PlainContext(t, w)
    OBVIOUS
  <2> QED BY <1>1, <2>1 DEF Template, IsPlain
<1>2. CASE ~IsPlain(t)
  <2>1. /\ \A u \in users : u.request \in Requests
        /\ \A u \in users : u.request = t.request => u = t
    BY StoredIs DEF IInv, TypeOK, UsersOk
  <2>2. Earlier(t) = {u \in users : u.session = t.session /\ u.topic = t.topic
                                    /\ u.request # t.request /\ Answered(u.request)}
    BY DEF Earlier, InSession
  <2>3. Earlier(t)' = {u \in users' : u.session = t.session /\ u.topic = t.topic
                                      /\ u.request # t.request /\ Answered(u.request)'}
    BY DEF Earlier, InSession
  <2>4. \A u \in users : Answered(u.request) => Answered(u.request)'
    BY <2>1 DEF Answered
  <2>5. Earlier(t)' = Earlier(t)
    <3>1. \A u \in users : u # t /\ u.topic = t.topic /\ u.session = t.session => Answered(u.request)
      BY <1>2, OnlyWaiting DEF IsPlain
    <3> QED BY <2>1, <2>2, <2>3, <2>4, <3>1
  <2>6. \A u \in Earlier(t) : AnswerOf(u)' = AnswerOf(u)
    BY <2>1, <2>2 DEF AnswerOf
  <2>7. Earlier(t) # {} => Latest(Earlier(t)) \in Earlier(t)
    BY <2>2, LatestIs DEF IInv
  <2>8. /\ Segments(t, Others(t))' = Segments(t, Others(t))
        /\ Continues(t, Others(t))' <=> Continues(t, Others(t))
    BY <1>2, SegmentsStay
  <2>9. ContextNow(t, w)' = ContextNow(t, w)
    BY <2>5, <2>6, <2>7, <2>8, ContextStays
  <2> QED BY <1>2, <2>9 DEF Template, AsExpected, IsPlain
<1> QED BY <1>1, <1>2

\* A template's segments, for a turn of a topic.
LEMMA SegmentsOf ==
    ASSUME NEW t, ~IsPlain(t), NEW w
    PROVE  Template(t, w, None).segments = Segments(t, Others(t))
<1>1. Template(t, w, None) = ContextNow(t, w)
  BY DEF Template, AsExpected
<1> QED BY <1>1 DEF ContextNow, Context

\* A turn that is lost does not continue its topic any more, in any opening.
LEMMA LostForEver ==
    ASSUME IInv, NEW u \in users, ~Answered(u.request), Lost(u), NEW w
    PROVE  Template(u, w, None) # AnswerOf(u)
<1>1. PICK v \in users : v.session = u.session /\ v.no > u.no
  BY DEF Lost, InSession
<1>2. \A x \in users : x.no \in Nat
  BY StoredIs DEF IInv, TypeOK
<1>3. v.request # u.request
  BY <1>1, <1>2 DEF IInv, UsersOk
<1> DEFINE last == Latest(Others(u))
<1>4. v \in Others(u) /\ Others(u) \in SUBSET users
  BY <1>1, <1>3 DEF Others, InSession
<1>5. last \in Others(u) /\ \A x \in Others(u) : x.no <= last.no
  BY <1>4, LatestIs DEF IInv
<1>6. last \in users /\ last.session = u.session /\ last.no > u.no
  BY <1>1, <1>2, <1>4, <1>5 DEF Others, InSession
<1>7. IsPlain(last)
  <2> HIDE DEF last
  <2>1. last # u
    BY <1>2, <1>6
  <2> QED BY <1>6, <2>1 DEF IInv, TurnsInOrder, InSession, Lost
<1>8. ~Continues(u, Others(u))
  BY <1>7 DEF Continues, Lost, IsPlain
<1>9. u \in Segments(u, Others(u))
  BY <1>8 DEF Segments
<1> QED BY <1>9, SegmentsOf DEF Lost

\* Pending turns after a step: those whose row it wrote, and the others.
LEMMA BoundStays ==
    ASSUME IInv, IInv', BoundOk, users \subseteq users',
           \A u \in users' \ users : attempts'[u.request].phase \notin {"bound", "closed"},
           \A r \in Requests : Answered(r) => attempts'[r] = attempts[r],
           \A u \in users : attempts'[u.request].phase = "bound" =>
               \/ attempts'[u.request] = attempts[u.request]
               \/ ~Answered(u.request) /\ \E w \in Worlds : Template(u, w, None) = AnswerOf(u)'
    PROVE  BoundOk'
<1> SUFFICES ASSUME NEW u \in users', attempts'[u.request].phase = "bound", ~Lost(u)'
             PROVE  \E w \in Worlds : Template(u, w, None)' = AnswerOf(u)'
  BY DEF BoundOk
<1>1. u \in users
  OBVIOUS
<1>2. Lost(u) /\ AnswerOf(u)' = AnswerOf(u) => Lost(u)'
  BY DEF Lost, InSession, IsPlain
<1>3. ~Answered(u.request) /\ ~Answered(u.request)'
  BY <1>1 DEF Answered
<1>4. PICK w \in Worlds : Template(u, w, None) = AnswerOf(u)'
  BY <1>1, <1>2 DEF BoundOk, AnswerOf
<1>5. \A v \in users' \ users : ~Answered(v.request)'
  BY DEF Answered
<1>6. \/ IsPlain(u)
      \/ u \in Segments(u, Others(u))
      \/ \A v \in InSession(u)' : ~(v.no > u.no)
  BY <1>4, SegmentsOf DEF Lost, IsPlain
<1>7. Template(u, w, None)' = Template(u, w, None)
  BY <1>1, <1>3, <1>5, <1>6, TemplateStays
<1> QED BY <1>4, <1>7

----------------------------------------------------------------------------
\* The steps.

\* Only turns that were asked have rows.
LEMMA NoRowYet ==
    ASSUME IInv, RowsOk, NEW r \in Requests, \A u \in users : u.request # r
    PROVE  attempts[r] = NoRow
BY DEF IInv, TypeOK, RowsOk

LEMMA AskKeeps ==
    ASSUME Kept, IInv', NEW s \in Stored, NEW w \in Worlds, NEW e, Start(s, w, e), pc = "idle",
           users' = users \cup {s}, UNCHANGED attempts,
           s \in users \/ \A u \in users : u.request # s.request
    PROVE  RowsOk' /\ CallOk' /\ ShownOk' /\ BoundOk'
<1>1. RowsOk'
  BY DEF Kept, RowsOk
<1>2. ShownOk'
  BY DEF Start, ShownOk
<1>3. CallOk'
  BY DEF Kept, CallOk, Start
<1>4. \A u \in users' \ users : attempts'[u.request].phase \notin {"bound", "closed"}
  BY StoredIs, NoRowYet DEF Kept, NoRow
<1> QED BY <1>1, <1>2, <1>3, <1>4, BoundStays DEF Kept

LEMMA WaitKeeps ==
    ASSUME Kept, IInv', UNCHANGED journal, CallOk', ShownOk'
    PROVE  RowsOk' /\ BoundOk'
<1>1. RowsOk'
  BY DEF Kept, RowsOk, journal
<1> QED BY <1>1, BoundStays DEF Kept, journal

LEMMA ObserveKeeps ==
    ASSUME Kept, NEW u \in users, NEW w \in Worlds, UNCHANGED journal,
           reply' = Shown(u, w), pc' = "idle"
    PROVE  ShownOk'
<1>1. CASE Shown(u, w) = None
  BY <1>1 DEF ShownOk
<1>2. CASE Shown(u, w) # None
  BY <1>2, ShownIs DEF Kept, ShownOk, ShownIsReadable, journal, Answered, AnswerOf
<1> QED BY <1>1, <1>2

\* The row of the running turn is written.
LEMMA WriteKeeps ==
    ASSUME Kept, IInv', pc \notin {"idle", "down"}, ~Answered(call.turn.request),
           NEW template, NEW phase \in {"bound", "crossed", "closed"}, SetRow(template, phase),
           template.turn = call.turn, TemplateOk(template),
           phase = "bound" => \E w \in Worlds : Template(call.turn, w, None) = template,
           phase = "bound" => \A f \in template.rests : Readable(call.world, f),
           pc' = phase, UNCHANGED <<users, call, reply>>
    PROVE  RowsOk' /\ CallOk' /\ ShownOk' /\ BoundOk'
<1> DEFINE id == call.turn.request
<1>1. call.turn \in users /\ id \in Requests
  BY StoredIs DEF Kept, IInv, TypeOK
<1>2. /\ attempts'[id] = [template |-> template, phase |-> phase]
      /\ \A r \in Requests : r # id => attempts'[r] = attempts[r]
  BY <1>1 DEF Kept, IInv, SetRow
<1>3. RowsOk'
  BY <1>1, <1>2 DEF Kept, RowsOk
<1>4. ShownOk'
  BY DEF Kept, ShownOk
<1>5. CallOk'
  BY <1>1, <1>2 DEF Kept, CallOk, Row
<1>6. \A r \in Requests : Answered(r) => attempts'[r] = attempts[r]
  BY <1>2
<1>7. ASSUME NEW u \in users, attempts'[u.request].phase = "bound"
      PROVE  \/ attempts'[u.request] = attempts[u.request]
             \/ ~Answered(u.request) /\ \E w \in Worlds : Template(u, w, None) = AnswerOf(u)'
  <2>1. CASE u.request = id
    <3>1. u = call.turn /\ phase = "bound"
      BY <1>1, <1>2, <1>7, <2>1 DEF Kept, IInv, UsersOk
    <3> QED BY <1>2, <2>1, <3>1 DEF AnswerOf
  <2>2. CASE u.request # id
    BY <1>2, <2>2, StoredIs DEF Kept, IInv, TypeOK
  <2> QED BY <2>1, <2>2
<1>8. BoundOk'
  BY <1>6, <1>7, BoundStays DEF Kept
<1> QED BY <1>3, <1>4, <1>5, <1>8

\* The expected specification does not matter to a call that is made.
LEMMA MadeIs ==
    ASSUME Kept, pc = "asked", IsCall
    PROVE  Made = Template(call.turn, call.world, None)
<1>1. ~AsExpected(call.turn, call.world, call.expected) /\ ~IsPlain(call.turn) => FALSE
  <2> SUFFICES ASSUME ~AsExpected(call.turn, call.world, call.expected), ~IsPlain(call.turn)
               PROVE  FALSE
    OBVIOUS
  <2>1. Made = [ContextNow(call.turn, call.world) EXCEPT !.stop = "MODEL_SPEC_INVALID", !.rests = {}]
    BY DEF Made, Template
  <2>2. [ContextNow(call.turn, call.world) EXCEPT !.stop = "MODEL_SPEC_INVALID", !.rests = {}].stop
            = "MODEL_SPEC_INVALID"
    BY DEF ContextNow, Context
  <2>3. Made.stop # None
    BY <2>1, <2>2, OwnedAssumption
  <2>4. IsModel(call.turn)
    BY DEF Kept, CallOk, AsExpected
  <2> QED BY <2>3, <2>4 DEF IsCall
<1> QED BY <1>1 DEF Made, Template, AsExpected

LEMMA KeptStep == Kept /\ [Next]_vars => Kept'
<1> SUFFICES ASSUME Kept, [Next]_vars PROVE Kept'
  OBVIOUS
<1>0. IInv'
  BY InvStep DEF Kept
<1>1. CASE UNCHANGED vars
  <2>1. CallOk' /\ ShownOk'
    BY <1>1 DEF Kept, CallOk, ShownOk, ShownIsReadable, Row, Answered, AnswerOf, vars, journal
  <2> QED BY <1>0, <1>1, <2>1, WaitKeeps DEF Kept, vars
<1>2. CASE \E t \in Turns, w \in Worlds : SubmitPlain(t, w)
  <2>1. PICK t \in Turns, w \in Worlds : SubmitPlain(t, w)
    BY <1>2
  <2>2. t \in Stored
    BY <2>1, OwnNeeds, OwnedAssumption DEF SubmitPlain, IsPlain
  <2> QED BY <1>0, <2>1, <2>2, AskKeeps DEF SubmitPlain, Kept
<1>3. CASE \E t \in Turns, w \in Worlds, e \in Worlds \cup {None} : Submit(t, w, e)
  <2>1. PICK t \in Turns, w \in Worlds, e \in Worlds \cup {None} : Submit(t, w, e)
    BY <1>3
  <2>2. WithNeeds(t) \in Stored /\ WithNeeds(t).request = t.request
    BY <2>1, WithNeedsIs DEF Submit, Kept
  <2> QED BY <1>0, <2>1, <2>2, AskKeeps DEF Submit, Kept
<1>4. CASE \E u \in users, w \in Worlds, e \in Worlds \cup {None} : Resume(u, w, e)
  <2>1. PICK u \in users, w \in Worlds, e \in Worlds \cup {None} : Resume(u, w, e)
    BY <1>4
  <2>2. u \in Stored /\ users' = users \cup {u} /\ UNCHANGED attempts
    BY <2>1 DEF Resume, journal, Kept, IInv, TypeOK
  <2> QED BY <1>0, <2>1, <2>2, AskKeeps DEF Resume, Kept
<1>5. CASE (\E u \in users, w \in Worlds : Observe(u, w)) \/ Return
  <2>1. PICK u \in users, w \in Worlds : reply' = Shown(u, w) /\ pc' = "idle" /\ UNCHANGED journal
                                         /\ pc \in {"idle", "closed"}
    BY <1>5 DEF Observe, Return, Kept, IInv, TypeOK, CallOk
  <2>2. ShownOk'
    BY <2>1, ObserveKeeps
  <2>3. CallOk'
    BY <2>1 DEF Kept, CallOk, journal
  <2> QED BY <1>0, <2>1, <2>2, <2>3, WaitKeeps DEF Kept
<1>6. CASE Refused \/ Exit
  <2>1. UNCHANGED <<journal, reply>> /\ pc' \in {"idle", "down"} /\ (pc' = "idle" => pc = "asked")
        /\ pc # "idle"
    BY <1>6 DEF Refused, Exit
  <2>2. CallOk' /\ ShownOk'
    BY <2>1 DEF Kept, CallOk, ShownOk, journal
  <2> QED BY <1>0, <2>1, <2>2, WaitKeeps DEF Kept
<1>7. CASE Bind \/ StopModel
  <2>1. /\ pc = "asked" /\ UNCHANGED <<users, call, reply>> /\ ~Answered(call.turn.request)
        /\ \/ IsCall /\ SetRow(Made, "bound") /\ pc' = "bound"
           \/ SetRow(Made, "closed") /\ pc' = "closed"
    BY <1>7 DEF Bind, StopModel, Row, NoRow, Answered
  <2>2. Made.turn = call.turn /\ TemplateOk(Made) /\ \A f \in Made.rests : Readable(call.world, f)
    BY <2>1, TemplateIs, TemplateIsOk DEF Made, Kept, CallOk, IInv, TypeOK
  <2>3. IsCall => \E w \in Worlds : Template(call.turn, w, None) = Made
    BY <2>1, MadeIs DEF Kept, CallOk
  <2> QED BY <1>0, <2>1, <2>2, <2>3, WriteKeeps DEF Kept
<1>8. CASE Cross \/ Close
  <2>1. /\ call.turn \in users /\ Row.phase = pc /\ pc \in {"bound", "crossed"}
        /\ UNCHANGED <<users, call, reply>>
        /\ \E phase \in {"crossed", "closed"} : SetRow(Row.template, phase) /\ pc' = phase
    BY <1>8 DEF Kept, IInv, TypeOK, RowOk, Cross, Close
  <2>2. Row # NoRow /\ ~Answered(call.turn.request)
    BY <2>1 DEF Row, NoRow, Answered
  <2>3. Row.template.turn = call.turn /\ TemplateOk(Row.template)
    BY <2>1, <2>2, Rows DEF Kept, Row, AnswerOf
  <2> QED BY <1>0, <2>1, <2>2, <2>3, WriteKeeps DEF Kept
<1>9. CASE Open
  <2>1. /\ UNCHANGED <<users, call, reply>> /\ pc = "down" /\ pc' = "idle"
        /\ \A r \in Requests : attempts'[r] = IF attempts[r].phase = "crossed"
                THEN [template |-> attempts[r].template, phase |-> "closed"] ELSE attempts[r]
    BY <1>9 DEF Open
  <2>0. ASSUME NEW r \in Requests
        PROVE  /\ attempts'[r] = NoRow \/ attempts'[r].template = attempts[r].template
               /\ attempts[r] = NoRow => attempts'[r] = NoRow
               /\ attempts'[r].phase # "crossed"
               /\ Answered(r) \/ attempts'[r].phase = "bound" => attempts'[r] = attempts[r]
    <3>1. CASE attempts[r].phase = "crossed"
      <4>1. attempts'[r] = [template |-> attempts[r].template, phase |-> "closed"]
        BY <2>1, <3>1
      <4>2. attempts[r] # NoRow /\ ~Answered(r)
        BY <3>1 DEF NoRow, Answered
      <4>3. attempts'[r].template = attempts[r].template /\ attempts'[r].phase = "closed"
        BY <4>1
      <4> QED BY <4>2, <4>3
    <3>2. CASE attempts[r].phase # "crossed"
      BY <2>1, <3>2
    <3> QED BY <3>1, <3>2
  <2>2. RowsOk' /\ ShownOk' /\ CallOk'
    <3>1. RowsOk'
      BY <2>0 DEF Kept, RowsOk
    <3>2. ShownOk'
      BY <2>1 DEF Kept, ShownOk
    <3>3. CallOk'
      BY <2>1, <2>0 DEF CallOk
    <3> QED BY <3>1, <3>2, <3>3
  <2>3. \A u \in users : u.request \in Requests
    BY StoredIs DEF Kept, IInv, TypeOK
  <2>4. BoundOk'
    BY <1>0, <2>0, <2>1, <2>3, BoundStays DEF Kept
  <2> QED BY <1>0, <2>2, <2>4 DEF Kept
<1> QED BY <1>1, <1>2, <1>3, <1>4, <1>5, <1>6, <1>7, <1>8, <1>9 DEF Kept, Next

LEMMA KeptHolds == Spec => []Kept
<1>1. Init => Kept
  <2>1. Init => IInv
    BY OwnedAssumption, FS_EmptySet DEF Init, IInv, TypeOK, RowOk, UsersOk, TurnsInOrder
  <2> QED BY <2>1 DEF Init, Kept, RowsOk, CallOk, ShownOk, BoundOk, NoRow
<1> QED BY <1>1, KeptStep, PTL DEF Spec

\* Nothing is shown that may not be read where it is shown, and that, but for
\* plain turns, says something else now (runtime.py:170-177, 320-330).
THEOREM ShownHolds == Spec => []ShownIsReadable
<1>1. Kept => ShownIsReadable
  BY DEF Kept, ShownOk, ShownIsReadable
<1> QED BY <1>1, KeptHolds, PTL

\* A turn whose attempt is bound can be resumed, its template made again in some
\* opening, whatever other turns did meanwhile, but for one that continues its
\* topic and was overtaken: that one never can (store.py:322, runtime.py:427-436).
THEOREM PendingHolds == Spec => []PendingIsResumable
<1>1. Kept => PendingIsResumable
  <2> SUFFICES ASSUME Kept, NEW u \in users, pc = "idle",
                      attempts[u.request] # NoRow, ~Answered(u.request)
               PROVE  Lost(u) <=> \A w \in Worlds : Template(u, w, None) # AnswerOf(u)
    BY DEF PendingIsResumable
  <2>1. u.request \in Requests
    BY StoredIs DEF Kept, IInv, TypeOK
  <2>2. attempts[u.request].phase = "bound"
    BY <2>1 DEF Kept, IInv, TypeOK, CallOk, Answered
  <2>3. Lost(u) => \A w \in Worlds : Template(u, w, None) # AnswerOf(u)
    BY LostForEver DEF Kept
  <2> QED BY <2>2, <2>3 DEF Kept, BoundOk
<1> QED BY <1>1, KeptHolds, PTL

\* The provider is entered only with an input that may be read then and still
\* says the same, also where it repeats earlier answers (context.py:96-110).
THEOREM InputHolds == Spec => InputIsReadable
<1>1. Kept /\ [Next]_vars =>
        [\A r \in Requests :
           attempts'[r].phase = "crossed" /\ attempts'[r] # attempts[r] =>
               \A f \in attempts'[r].template.rests : Readable(call.world, f)]_vars
  <2> SUFFICES ASSUME Kept, Next, NEW r \in Requests,
                      attempts'[r].phase = "crossed", attempts'[r] # attempts[r]
               PROVE  \A f \in attempts'[r].template.rests : Readable(call.world, f)
    OBVIOUS
  <2>1. attempts = [q \in Requests |-> attempts[q]]
    BY DEF Kept, IInv
  <2>2. CASE Cross
    <3>1. r = call.turn.request /\ attempts'[r].template = Row.template
      BY <2>1, <2>2 DEF Cross, SetRow
    <3> QED BY <2>2, <3>1 DEF Kept, CallOk, Cross
  <2>3. CASE Bind \/ StopModel \/ Close
    BY <2>1, <2>3 DEF Bind, StopModel, Close, SetRow
  <2>4. CASE Open
    BY <2>4 DEF Open
  <2>5. CASE UNCHANGED attempts
    BY <2>5
  <2> QED BY <2>2, <2>3, <2>4, <2>5
          DEF Next, SubmitPlain, Submit, Resume, Observe, Refused, Return, Exit, journal
<1> QED BY <1>1, KeptHolds, PTL DEF Spec, InputIsReadable
----------------------------------------------------------------------------
\* Greedy choice over a finite set in some order.

\* Of the finite sets in T one is smallest.
LEMMA SmallestSet ==
    ASSUME NEW E, IsFiniteSet(E), NEW T \in SUBSET (SUBSET E), T # {}
    PROVE  \E X \in T : \A Y \in T : Y \subseteq X => Y = X
<1>1. IsWellFoundedOn(StrictSubsetOrdering(E), SUBSET E)
  BY FS_StrictSubsetOrderingWellFounded, FS_FiniteSubsetsOfFinite
<1>2. PICK X \in T : \A Y \in T : <<Y, X>> \notin StrictSubsetOrdering(E)
  BY <1>1, WFMin, Zenon
<1>3. ASSUME NEW Y \in T, Y \subseteq X, Y # X PROVE FALSE
  <2>1. Y \in SUBSET E /\ X \in SUBSET E
    OBVIOUS
  <2>2. <<Y, X>> \in StrictSubsetOrdering(E)
    BY <1>3, <2>1 DEF StrictSubsetOrdering
  <2> QED BY <1>2, <2>2
<1> QED BY <1>3

\* R orders E strictly.
Orders(R, E) ==
    /\ \A a \in E : <<a, a>> \notin R
    /\ \A a, b, c \in E : <<a, b>> \in R /\ <<b, c>> \in R => <<a, c>> \in R

LEMMA FirstOf ==
    ASSUME NEW E, IsFiniteSet(E), NEW R, Orders(R, E), NEW S \in SUBSET E, S # {}
    PROVE  \E f \in S : \A h \in S : <<h, f>> \notin R
<1> DEFINE Below(f) == {h \in S : <<h, f>> \in R}
           T == {Below(f) : f \in S}
<1>1. T \in SUBSET (SUBSET E) /\ T # {}
  OBVIOUS
<1>2. PICK X \in T : \A Y \in T : Y \subseteq X => Y = X
  <2> HIDE DEF T
  <2> QED BY <1>1, SmallestSet
<1>3. PICK f \in S : X = Below(f)
  BY <1>2
<1>4. ASSUME NEW h \in S, <<h, f>> \in R PROVE FALSE
  <2>1. Below(h) \subseteq Below(f)
    BY <1>4 DEF Orders
  <2>2. h \in Below(f) /\ h \notin Below(h)
    BY <1>4 DEF Orders
  <2>3. Below(h) \in T
    OBVIOUS
  <2> HIDE DEF Below, T
  <2> QED BY <1>2, <1>3, <2>1, <2>2, <2>3
<1> QED BY <1>4

\* There is a function that takes each member on the strength of those taken
\* before it.
Greedy(t, E, R, V) == t = [f \in E |-> V[<<f, {h \in E : <<h, f>> \in R /\ t[h]}>>]]

LEMMA GreedyExists ==
    ASSUME NEW E, IsFiniteSet(E), NEW R, Orders(R, E), NEW V
    PROVE  \E t : Greedy(t, E, R, V)
<1> DEFINE W == {V[q] : q \in E \X (SUBSET E)}
           Right(t, f) == t[f] = V[<<f, {h \in E : <<h, f>> \in R /\ t[h]}>>]
           Good(D) == /\ \A f \in D : \A h \in E : <<h, f>> \in R => h \in D
                      /\ \E t \in [E -> W] : \A f \in D : Right(t, f)
           T == {E \ D : D \in {C \in SUBSET E : Good(C)}}
<1>1. T \in SUBSET (SUBSET E) /\ T # {}
  <2>1. Good({})
    <3>1. [f \in E |-> V[<<f, {}>>]] \in [E -> W]
      OBVIOUS
    <3> QED BY <3>1
  <2>2. E \ {} \in T
    BY <2>1
  <2> QED BY <2>2
<1>2. PICK X \in T : \A Y \in T : Y \subseteq X => Y = X
  <2> HIDE DEF T
  <2> QED BY <1>1, SmallestSet
<1>3. PICK D \in SUBSET E : X = E \ D /\ Good(D)
  BY <1>2
<1>4. D = E
  <2> SUFFICES ASSUME E \ D # {} PROVE FALSE
    OBVIOUS
  <2>1. PICK g \in E \ D : \A h \in E \ D : <<h, g>> \notin R
    BY FirstOf
  <2>2. PICK t \in [E -> W] : \A f \in D : Right(t, f)
    BY <1>3
  <2> DEFINE new == V[<<g, {h \in E : <<h, g>> \in R /\ t[h]}>>]
             u   == [t EXCEPT ![g] = new]
  <2>3. /\ u \in [E -> W] /\ u[g] = new
        /\ \A h \in E : h # g => u[h] = t[h]
    OBVIOUS
  <2> HIDE DEF u
  <2>4. \A f \in D : \A h \in E : <<h, f>> \in R => h # g
    BY <1>3, <2>1
  <2>5. ASSUME NEW f \in D \cup {g} PROVE Right(u, f)
    <3>1. \A h \in E : <<h, f>> \in R => u[h] = t[h]
      BY <2>1, <2>3, <2>4 DEF Orders
    <3>2. {h \in E : <<h, f>> \in R /\ u[h]} = {h \in E : <<h, f>> \in R /\ t[h]}
      BY <3>1
    <3>3. CASE f = g
      BY <2>3, <3>2, <3>3
    <3>4. CASE f # g
      BY <2>2, <2>3, <3>2, <3>4
    <3> QED BY <3>3, <3>4
  <2>6. Good(D \cup {g})
    <3>1. \A f \in D \cup {g} : \A h \in E : <<h, f>> \in R => h \in D \cup {g}
      BY <1>3, <2>1
    <3> HIDE DEF Right
    <3> QED BY <2>3, <2>5, <3>1
  <2>7. E \ (D \cup {g}) \in T
    <3> HIDE DEF Good
    <3> QED BY <2>6
  <2> HIDE DEF T, Good
  <2> QED BY <1>2, <1>3, <2>1, <2>7
<1>5. PICK t \in [E -> W] : \A f \in E : Right(t, f)
  BY <1>3, <1>4
<1>6. t = [f \in E |-> t[f]]
  BY <1>5
<1>7. t = [f \in E |-> V[<<f, {h \in E : <<h, f>> \in R /\ t[h]}>>]]
  BY <1>5, <1>6
<1> QED BY <1>7 DEF Greedy

----------------------------------------------------------------------------
\* What fits.

\* Included takes sources as the code does, one after the other.
Takes(t, evidence, limit) ==
    t = [f \in evidence |->
            LET got == {h \in evidence : Before(h, f) /\ t[h]} IN
            Size(got \cup {f}, {}) <= limit /\ Cardinality(got) < MaxEvidence]

\* What that function says of each source.
Took(t, evidence, limit) ==
    \A f \in evidence :
        t[f] = LET got == {h \in evidence : Before(h, f) /\ t[h]} IN
               Size(got \cup {f}, {}) <= limit /\ Cardinality(got) < MaxEvidence

LEMMA TakesExists ==
    ASSUME NEW w \in Worlds, NEW evidence \in SUBSET w.fixtures, NEW limit
    PROVE  \E t : Takes(t, evidence, limit)
<1> DEFINE R == {q \in evidence \X evidence : Before(q[1], q[2])}
           V == [q \in evidence \X (SUBSET evidence) |->
                     Size(q[2] \cup {q[1]}, {}) <= limit /\ Cardinality(q[2]) < MaxEvidence]
<1>1. IsFiniteSet(evidence)
  BY OwnedAssumption, FS_Subset
<1>2. \A f, h \in evidence : <<h, f>> \in R <=> Before(h, f)
  OBVIOUS
<1>3. Orders(R, evidence)
  <2>1. \A f \in evidence : f.source \in Int /\ f.version \in Int /\ f.revision \in Int
    BY OwnedAssumption DEF Fixtures
  <2>2. \A a \in evidence : ~Before(a, a)
    BY <2>1 DEF Before
  <2>3. \A a, b, c \in evidence : Before(a, b) /\ Before(b, c) => Before(a, c)
    BY <2>1 DEF Before
  <2> HIDE DEF R
  <2> QED BY <1>2, <2>2, <2>3 DEF Orders
<1>4. PICK t : Greedy(t, evidence, R, V)
  <2> HIDE DEF R, V
  <2> QED BY <1>1, <1>3, GreedyExists
<1>5. ASSUME NEW f \in evidence
      PROVE  V[<<f, {h \in evidence : <<h, f>> \in R /\ t[h]}>>]
             = (LET got == {h \in evidence : Before(h, f) /\ t[h]} IN
                Size(got \cup {f}, {}) <= limit /\ Cardinality(got) < MaxEvidence)
  <2> DEFINE got == {h \in evidence : Before(h, f) /\ t[h]}
  <2>1. {h \in evidence : <<h, f>> \in R /\ t[h]} = got
    BY <1>2
  <2>2. got \in SUBSET evidence
    OBVIOUS
  <2> HIDE DEF got, R
  <2>3. V[<<f, got>>] = (Size(got \cup {f}, {}) <= limit /\ Cardinality(got) < MaxEvidence)
    BY <2>2
  <2> HIDE DEF V
  <2>4. V[<<f, {h \in evidence : <<h, f>> \in R /\ t[h]}>>]
            = (Size(got \cup {f}, {}) <= limit /\ Cardinality(got) < MaxEvidence)
    BY <2>1, <2>3, Zenon
  <2> QED BY <2>4, Zenon DEF got
<1>6. Takes(t, evidence, limit)
  <2> HIDE DEF R, V
  <2> QED BY <1>4, <1>5, Zenon DEF Greedy, Takes
<1> QED BY <1>6

LEMMA IncludedIs ==
    ASSUME NEW w \in Worlds, NEW evidence \in SUBSET w.fixtures, NEW limit
    PROVE  \E t : /\ Took(t, evidence, limit)
                  /\ Included(evidence, limit) = {f \in evidence : limit >= 1 /\ t[f]}
<1> DEFINE t == CHOOSE s : Takes(s, evidence, limit)
<1>1. Takes(t, evidence, limit)
  BY TakesExists
<1>2. Included(evidence, limit) = {f \in evidence : limit >= 1 /\ t[f]}
  BY Zenon DEF Included, Takes
<1> HIDE DEF t
<1>3. Took(t, evidence, limit)
  BY <1>1, Zenon DEF Takes, Took
<1> QED BY <1>2, <1>3

\* The sources of an input fit, and are not too many: the last one taken was
\* taken with all the others in place.
LEMMA IncludedFits ==
    ASSUME NEW w \in Worlds, NEW evidence \in SUBSET w.fixtures, NEW limit,
           Included(evidence, limit) # {}
    PROVE  /\ Size(Included(evidence, limit), {}) <= limit
           /\ Cardinality(Included(evidence, limit)) <= MaxEvidence
           /\ IsFiniteSet(Included(evidence, limit))
<1> DEFINE S == Included(evidence, limit)
           R == {q \in evidence \X evidence : Before(q[2], q[1])}
<1>1. PICK t : /\ Took(t, evidence, limit)
               /\ S = {f \in evidence : limit >= 1 /\ t[f]}
  BY IncludedIs
<1>2. IsFiniteSet(evidence) /\ IsFiniteSet(S)
  BY <1>1, OwnedAssumption, FS_Subset
<1>3. \A f \in evidence : f.source \in Int /\ f.version \in Int /\ f.revision \in Int
  BY OwnedAssumption DEF Fixtures
<1>4. \A a, b \in evidence : a # b => Before(a, b) \/ Before(b, a)
  <2>1. \A a, b \in evidence :
            a.source = b.source /\ a.version = b.version /\ a.revision = b.revision => a = b
    BY OwnedAssumption
  <2> QED BY <1>3, <2>1 DEF Before
<1>5. \A a, b \in evidence : <<a, b>> \in R <=> Before(b, a)
  OBVIOUS
<1>6. Orders(R, evidence)
  <2>1. \A a \in evidence : ~Before(a, a)
    BY <1>3 DEF Before
  <2>2. \A a, b, c \in evidence : Before(b, a) /\ Before(c, b) => Before(c, a)
    BY <1>3 DEF Before
  <2> HIDE DEF R
  <2> QED BY <1>5, <2>1, <2>2 DEF Orders
<1> HIDE DEF S, R
<1>7. PICK f \in S : \A h \in S : <<h, f>> \notin R
  BY <1>1, <1>2, <1>6, FirstOf DEF S
<1> DEFINE got == {h \in evidence : Before(h, f) /\ t[h]}
<1>8. S = got \cup {f} /\ f \notin got
  <2>1. \A h \in S : h # f => Before(h, f)
    BY <1>1, <1>4, <1>5, <1>7
  <2>2. ~Before(f, f)
    BY <1>1, <1>3, <1>7 DEF Before
  <2> QED BY <1>1, <1>7, <2>1, <2>2
<1>9. Size(got \cup {f}, {}) <= limit /\ Cardinality(got) < MaxEvidence
  <2>1. f \in evidence /\ t[f]
    BY <1>1, <1>7
  <2>2. t[f] = (Size(got \cup {f}, {}) <= limit /\ Cardinality(got) < MaxEvidence)
    BY <1>1, <2>1, Zenon DEF Took
  <2> QED BY <2>1, <2>2
<1>10. IsFiniteSet(got)
  BY <1>2, FS_Subset
<1> HIDE DEF got
<1>11. Cardinality(S) = Cardinality(got) + 1 /\ Cardinality(got) \in Nat
  BY <1>8, <1>10, FS_AddElement, FS_CardinalityType
<1> QED BY <1>2, <1>8, <1>9, <1>11, OwnedAssumption DEF S

\* Recent turns are taken alike, the newest first.
Fits(t, recents, sources, limit) ==
    t = [u \in recents |-> Size(sources, {v \in recents : v.no > u.no /\ t[v]} \cup {u}) <= limit]

LEMMA FittingIs ==
    ASSUME NEW recents, IsFiniteSet(recents), \A u \in recents : u.no \in Nat,
           NEW sources, NEW limit
    PROVE  \E t : /\ \A u \in recents :
                        t[u] = (Size(sources, {v \in recents : v.no > u.no /\ t[v]} \cup {u}) <= limit)
                  /\ Fitting(recents, sources, limit) = {u \in recents : t[u]}
<1> DEFINE R == {q \in recents \X recents : q[1].no > q[2].no}
           V == [q \in recents \X (SUBSET recents) |-> Size(sources, q[2] \cup {q[1]}) <= limit]
           t == CHOOSE s : Fits(s, recents, sources, limit)
<1>1. \A u, v \in recents : <<v, u>> \in R <=> v.no > u.no
  OBVIOUS
<1>2. Orders(R, recents)
  <2> HIDE DEF R
  <2>1. \A a \in recents : ~(a.no > a.no)
    OBVIOUS
  <2>2. \A a, b, c \in recents : a.no > b.no /\ b.no > c.no => a.no > c.no
    OBVIOUS
  <2> QED BY <1>1, <2>1, <2>2 DEF Orders
<1>3. PICK s : Greedy(s, recents, R, V)
  <2> HIDE DEF R, V
  <2> QED BY <1>2, GreedyExists
<1>4. ASSUME NEW u \in recents
      PROVE  V[<<u, {v \in recents : <<v, u>> \in R /\ s[v]}>>]
             = (Size(sources, {v \in recents : v.no > u.no /\ s[v]} \cup {u}) <= limit)
  <2> DEFINE got == {v \in recents : v.no > u.no /\ s[v]}
  <2>1. {v \in recents : <<v, u>> \in R /\ s[v]} = got
    BY <1>1
  <2>2. got \in SUBSET recents
    OBVIOUS
  <2> HIDE DEF got, R
  <2>3. V[<<u, got>>] = (Size(sources, got \cup {u}) <= limit)
    BY <2>2
  <2> HIDE DEF V
  <2>4. V[<<u, {v \in recents : <<v, u>> \in R /\ s[v]}>>]
            = (Size(sources, got \cup {u}) <= limit)
    BY <2>1, <2>3, Zenon
  <2> QED BY <2>4, Zenon DEF got
<1>5. Fits(s, recents, sources, limit)
  <2> HIDE DEF R, V
  <2> QED BY <1>3, <1>4, Zenon DEF Greedy, Fits
<1>6. Fits(t, recents, sources, limit)
  BY <1>5
<1>7. Fitting(recents, sources, limit) = {u \in recents : t[u]}
  BY Zenon DEF Fitting, Fits
<1> HIDE DEF t
<1>8. \A u \in recents :
          t[u] = (Size(sources, {v \in recents : v.no > u.no /\ t[v]} \cup {u}) <= limit)
  BY <1>6, Zenon DEF Fits
<1> QED BY <1>7, <1>8

\* With the recent turns of an input it fits as well: the oldest was taken with
\* all the others in place.
LEMMA FittingFits ==
    ASSUME NEW recents, IsFiniteSet(recents), \A u \in recents : u.no \in Nat,
           \A u, v \in recents : u.no = v.no => u = v,
           NEW sources, NEW limit, Size(sources, {}) <= limit
    PROVE  Size(sources, Fitting(recents, sources, limit)) <= limit
<1> DEFINE S == Fitting(recents, sources, limit)
           R == {q \in recents \X recents : q[1].no < q[2].no}
<1>1. PICK t : /\ \A u \in recents :
                     t[u] = (Size(sources, {v \in recents : v.no > u.no /\ t[v]} \cup {u}) <= limit)
               /\ S = {u \in recents : t[u]}
  BY FittingIs
<1>2. \A u, v \in recents : <<v, u>> \in R <=> v.no < u.no
  OBVIOUS
<1>3. Orders(R, recents)
  <2> HIDE DEF R
  <2>1. \A a \in recents : ~(a.no < a.no)
    OBVIOUS
  <2>2. \A a, b, c \in recents : a.no < b.no /\ b.no < c.no => a.no < c.no
    OBVIOUS
  <2> QED BY <1>2, <2>1, <2>2 DEF Orders
<1> HIDE DEF S, R
<1>4. CASE S = {}
  BY <1>4 DEF S
<1>5. CASE S # {}
  <2>1. PICK u \in S : \A v \in S : <<v, u>> \notin R
    BY <1>1, <1>3, <1>5, FirstOf
  <2> DEFINE got == {v \in recents : v.no > u.no /\ t[v]}
  <2>2. S = got \cup {u}
    <3>1. \A v \in S : v # u => v.no > u.no
      <4> TAKE v \in S
      <4>1. u \in recents /\ v \in recents /\ u.no \in Nat /\ v.no \in Nat
        BY <1>1, <2>1
      <4>2. ~(v.no < u.no)
        BY <1>2, <2>1, <4>1
      <4> QED BY <4>1, <4>2
    <3> QED BY <1>1, <2>1, <3>1
  <2>3. Size(sources, got \cup {u}) <= limit
    BY <1>1, <2>1
  <2> HIDE DEF got
  <2> QED BY <2>2, <2>3 DEF S
<1> QED BY <1>4, <1>5

\* The newest N turns of a finite set are at most N.
LEMMA NewestAreFew ==
    ASSUME NEW turns, IsFiniteSet(turns), \A u \in turns : u.no \in Nat,
           \A u, v \in turns : u.no = v.no => u = v,
           NEW N \in Nat,
           NEW S \in SUBSET {u \in turns : Cardinality({v \in turns : v.no > u.no}) < N}
    PROVE  IsFiniteSet(S) /\ Cardinality(S) <= N
<1> DEFINE R == {q \in turns \X turns : q[1].no < q[2].no}
           Newer(u) == {v \in turns : v.no > u.no}
<1>1. S \subseteq turns /\ IsFiniteSet(S)
  BY FS_Subset
<1>2. CASE S = {}
  BY <1>2, FS_EmptySet
<1>3. CASE S # {}
  <2>1. \A u, v \in turns : <<v, u>> \in R <=> v.no < u.no
    OBVIOUS
  <2>2. Orders(R, turns)
    <3> HIDE DEF R
    <3>1. \A a \in turns : ~(a.no < a.no)
      OBVIOUS
    <3>2. \A a, b, c \in turns : a.no < b.no /\ b.no < c.no => a.no < c.no
      OBVIOUS
    <3> QED BY <2>1, <3>1, <3>2 DEF Orders
  <2> HIDE DEF R
  <2>3. PICK u \in S : \A v \in S : <<v, u>> \notin R
    BY <1>1, <1>3, <2>2, FirstOf
  <2>4. S \ {u} \in SUBSET Newer(u)
    <3> SUFFICES ASSUME NEW v \in S, v # u PROVE v \in turns /\ v.no > u.no
      OBVIOUS
    <3>1. u \in turns /\ v \in turns /\ u.no \in Nat /\ v.no \in Nat /\ u.no # v.no
      BY <1>1, <2>3
    <3>2. ~(v.no < u.no)
      BY <2>1, <2>3, <3>1
    <3> QED BY <3>1, <3>2
  <2>5. Cardinality(Newer(u)) < N
    OBVIOUS
  <2>6. IsFiniteSet(Newer(u))
    BY FS_Subset
  <2> HIDE DEF Newer
  <2>7. Cardinality(S \ {u}) <= Cardinality(Newer(u)) /\ Cardinality(Newer(u)) \in Nat
    BY <2>4, <2>6, FS_Subset, FS_CardinalityType
  <2>8. Cardinality(S \ {u}) = Cardinality(S) - 1 /\ Cardinality(S) \in Nat
    BY <1>1, <2>3, FS_RemoveElement, FS_CardinalityType
  <2> QED BY <1>1, <2>5, <2>7, <2>8
<1> QED BY <1>2, <1>3

\* As many turns as requests.
LEMMA SameCount ==
    ASSUME UsersOk, NEW S \in SUBSET users
    PROVE  IsFiniteSet(S) /\ Cardinality({u.request : u \in S}) = Cardinality(S)
<1> DEFINE T == {u.request : u \in S}
           f == [u \in S |-> u.request]
<1>1. IsFiniteSet(S)
  BY FS_Subset DEF UsersOk
<1>2. \A u, v \in S : u.request = v.request => u = v
  BY DEF UsersOk
<1>3. f \in Bijection(S, T)
  BY <1>2 DEF Bijection, Injection, Surjection, IsInjective
<1>4. Cardinality(T) = Cardinality(S)
  <2> HIDE DEF f, T
  <2> QED BY <1>1, <1>3, FS_Bijection DEF ExistsBijection
<1> QED BY <1>1, <1>4

\* A model turn has one profile, which limits its input as its own budget does.
LEMMA LimitIs ==
    ASSUME NEW t, NEW w \in Worlds, IsModel(t) => Profile(w, t) # {}
    PROVE  /\ ~IsModel(t) => Limit(w, t) = t.budget
           /\ IsModel(t) => \E p \in Profile(w, t) :
                 Profile(w, t) = {p} /\ Limit(w, t) = Least(t.budget, p.usable)
<1>1. CASE ~IsModel(t)
  BY <1>1 DEF Limit
<1>2. CASE IsModel(t)
  <2>1. \A p, q \in w.profiles : /\ p.rank \in Int
                                 /\ p.id = q.id \/ p.rank = q.rank => p = q
    BY OwnedAssumption
  <2>2. Profile(w, t) \subseteq w.profiles
    BY DEF Profile, Chosen, Cheapest, Compatible, Registered
  <2>3. ASSUME NEW p \in Profile(w, t), NEW q \in Profile(w, t) PROVE p = q
    <3>1. CASE Profile(w, t) = Cheapest(Compatible(w, t))
      <4>1. p.rank <= q.rank /\ q.rank <= p.rank
        BY <2>3, <3>1 DEF Cheapest
      <4> QED BY <2>1, <2>2, <4>1
    <3>2. CASE Profile(w, t) = Registered(w, t.intent.preferred)
      <4>1. p.id = q.id
        BY <2>3, <3>2 DEF Registered
      <4> QED BY <2>1, <2>2, <4>1
    <3> QED BY <1>2, <2>3, <3>1, <3>2 DEF Profile, Chosen
  <2>4. PICK p \in Profile(w, t) : Profile(w, t) = {p}
    BY <1>2, <2>3
  <2>5. (CHOOSE q \in Profile(w, t) : TRUE) = p
    BY <2>4
  <2>6. Limit(w, t) = Least(t.budget, p.usable)
    BY <1>2, <2>4, <2>5 DEF Limit
  <2> QED BY <1>2, <2>4, <2>6
<1> QED BY <1>1, <1>2

\* A context that is not stopped fits all its limits.
LEMMA ContextFits ==
    ASSUME IInv, NEW t \in users, ~IsPlain(t), NEW w \in Worlds, ContextNow(t, w).stop = None
    PROVE  FitsLimits(ContextNow(t, w))
<1> DEFINE snapshot == Snapshot(w, t.needs)
           limit    == Limit(w, t)
           sources  == Included(Evidence(snapshot), limit)
           tail     == {u \in RecentTail(t, snapshot, limit) : ~Stale(u, snapshot, t.premise)}
           recents  == Recents(t, snapshot, sources, limit)
<1>1. /\ StopReason(t, w, snapshot, sources) = None
      /\ ContextNow(t, w).sources = sources
      /\ ContextNow(t, w).recents = {u.request : u \in recents}
      /\ ContextNow(t, w).turn = t /\ ContextNow(t, w).profile = Profile(w, t)
  BY DEF ContextNow, Context
<1>2. sources # {} /\ (IsModel(t) => Profile(w, t) # {})
  BY <1>1, OwnedAssumption DEF StopReason
<1>3. t \in Stored
  BY DEF IInv, TypeOK
<1>4. /\ ~IsModel(t) => limit = t.budget
      /\ IsModel(t) =>
            \E p \in Profile(w, t) : Profile(w, t) = {p} /\ limit = Least(t.budget, p.usable)
  BY <1>2, LimitIs
<1>5. Evidence(snapshot) \in SUBSET w.fixtures
  BY DEF Evidence, Snapshot, Route, Selected, Matching, Candidates
<1>6. /\ Size(sources, {}) <= limit /\ Cardinality(sources) <= MaxEvidence
  <2> HIDE DEF snapshot, limit
  <2> QED BY <1>2, <1>5, IncludedFits
<1>7. /\ Earlier(t) \subseteq users /\ IsFiniteSet(Earlier(t))
      /\ \A u \in Earlier(t) : u.no \in Nat
      /\ \A u, v \in Earlier(t) : u.no = v.no => u = v
  <2>1. Earlier(t) \subseteq users /\ \A u \in Earlier(t) : u.session = t.session
    BY DEF Earlier, InSession
  <2>2. \A u, v \in users : u.session = v.session /\ u.no = v.no => u = v
    BY DEF IInv, TurnsInOrder, InSession
  <2> QED BY <2>1, <2>2, SameCount, StoredIs DEF IInv, TypeOK
<1> DEFINE newest == {u \in Earlier(t) : Cardinality({v \in Earlier(t) : v.no > u.no}) < RecentTurns}
<1>8. tail \subseteq newest /\ recents = Fitting(tail, sources, limit)
  BY DEF RecentTail, Recents
<1>9. recents \subseteq tail
  BY <1>8 DEF Fitting
<1> HIDE DEF snapshot, limit, sources, tail, recents
<1>10. Cardinality(recents) <= RecentTurns
  BY <1>7, <1>8, <1>9, NewestAreFew, OwnedAssumption
<1>11. Size(sources, recents) <= limit
  <2>1. tail \in SUBSET users /\ tail \subseteq Earlier(t)
    BY <1>7, <1>8
  <2>2. IsFiniteSet(tail)
    BY <2>1, SameCount DEF IInv
  <2> HIDE DEF newest
  <2> QED BY <1>6, <1>7, <1>8, <2>1, <2>2, FittingFits
<1> DEFINE asked == {u.request : u \in recents}
<1>12. Cardinality(asked) = Cardinality(recents)
  BY <1>7, <1>8, <1>9, SameCount DEF IInv
<1>13. Size(sources, asked) = Size(sources, recents)
  <2> HIDE DEF asked
  <2> QED BY <1>12 DEF Size
<1> HIDE DEF asked
<1> QED BY <1>1, <1>2, <1>4, <1>6, <1>10, <1>11, <1>12, <1>13 DEF FitsLimits, asked

\* An input that is written fits, and what is written stays as it is.
LEMMA FitsStep == Kept /\ InputFits /\ [Next]_vars => InputFits'
<1> SUFFICES ASSUME Kept, InputFits, [Next]_vars PROVE InputFits'
  OBVIOUS
<1> DEFINE Fine(c) == ~IsPlain(c.turn) /\ c.stop = None => FitsLimits(c)
<1>1. \A c : Fine(c)' <=> Fine(c)
  BY DEF FitsLimits, IsPlain
<1>2. ASSUME \A r \in Requests : attempts'[r] # NoRow =>
                 \/ attempts[r] # NoRow /\ attempts'[r].template = attempts[r].template
                 \/ Fine(attempts'[r].template)
      PROVE  InputFits'
  BY <1>1, <1>2 DEF InputFits
<1>3. CASE UNCHANGED attempts
  BY <1>2, <1>3
<1>4. CASE Bind \/ StopModel
  <2>1. /\ pc = "asked" /\ call.turn \in users /\ call.world \in Worlds
        /\ \E phase : SetRow(Made, phase)
    BY <1>4 DEF Bind, StopModel, Kept, IInv, TypeOK, CallOk
  <2>2. \A r \in Requests : attempts'[r] = attempts[r] \/ attempts'[r].template = Made
    BY <2>1 DEF SetRow, Kept, IInv
  <2>3. Fine(Made)
    <3> SUFFICES ASSUME ~IsPlain(Made.turn), Made.stop = None PROVE FitsLimits(Made)
      OBVIOUS
    <3>1. ~IsPlain(call.turn)
      BY TemplateIs DEF Made
    <3>2. AsExpected(call.turn, call.world, call.expected)
      <4> SUFFICES ASSUME ~AsExpected(call.turn, call.world, call.expected) PROVE FALSE
        OBVIOUS
      <4>1. Made = [ContextNow(call.turn, call.world) EXCEPT !.stop = "MODEL_SPEC_INVALID", !.rests = {}]
        BY <3>1 DEF Made, Template
      <4>2. [ContextNow(call.turn, call.world) EXCEPT !.stop = "MODEL_SPEC_INVALID", !.rests = {}].stop
                = "MODEL_SPEC_INVALID"
        BY DEF ContextNow, Context
      <4> QED BY <4>1, <4>2, OwnedAssumption
    <3>3. Made = ContextNow(call.turn, call.world)
      BY <3>1, <3>2 DEF Made, Template
    <3> QED BY <2>1, <3>1, <3>3, ContextFits DEF Kept
  <2> HIDE DEF Fine
  <2> QED BY <1>2, <2>2, <2>3
<1>5. CASE Cross \/ Close
  <2>1. \E phase : SetRow(Row.template, phase)
    BY <1>5 DEF Cross, Close
  <2>2. Row # NoRow
    BY <1>5 DEF Kept, IInv, RowOk, NoRow, Cross, Close
  <2>3. \A r \in Requests :
            \/ attempts'[r] = attempts[r]
            \/ attempts[r] # NoRow /\ attempts'[r].template = attempts[r].template
    BY <2>1, <2>2 DEF SetRow, Row, Kept, IInv
  <2> QED BY <1>2, <2>3
<1>6. CASE Open
  <2>1. \A r \in Requests :
            \/ attempts'[r] = attempts[r]
            \/ attempts[r] # NoRow /\ attempts'[r].template = attempts[r].template
    BY <1>6 DEF Open, NoRow
  <2> QED BY <1>2, <2>1
<1> QED BY <1>3, <1>4, <1>5, <1>6
        DEF Next, SubmitPlain, Submit, Resume, Observe, Refused, Return, Exit, journal, vars

\* Every input of a topic's turn fits what was asked, the profile and the
\* limits of a context (context.py:84-103).
THEOREM FitsHolds == Spec => []InputFits
<1>1. Init => InputFits
  BY DEF Init, InputFits
<1> QED BY <1>1, FitsStep, KeptHolds, PTL DEF Spec
=============================================================================
