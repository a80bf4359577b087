----------------------- MODULE ReadonlySessionProofs ------------------------
(* Theorems about ReadonlySession for every set of packages, grants, offers  *)
(* and turns, and any number of exits.  One inductive invariant carries all  *)
(* of them: what a running operation was given stays true of the tables until *)
(* it ends (CallKept), and everything asked or answered rests on a published *)
(* directory that never changes (StoreKept, UsersStored).                    *)
EXTENDS ReadonlySession, TLAPS

Answering == {"asked", "bound", "crossed", "closed"}

Row == [template : Template, phase : Phase]

\* What holds of the running operation between its steps.
CallKept ==
    /\ pc \in {"idle", "down"} => call = None
    /\ pc \notin {"idle", "down"} =>
          /\ call \in Call
          /\ epochs[call.grant.id] = call.grant.epoch
          /\ call.grant.package = call.package
          /\ call.op \in Asks \cup {"ro_observe"} => call.turn \in Turns
    /\ pc \in Answering =>
          /\ call.op \in Asks
          /\ call.turn.package = call.package
          /\ [turn |-> call.turn, at |-> call.now] \in users
          /\ InForce(call.grant, "ro_turn", call.now)
    /\ pc \in {"bound", "crossed"} =>
          /\ attempts[call.turn.request] \in Row
          /\ attempts[call.turn.request].template = TemplateOf(call)
    /\ pc = "published" => [package |-> call.package, whole |-> TRUE] \in stored

\* Published directories are whole, one digest to a key.
StoreKept ==
    \A s \in stored : /\ s = [package |-> s.package, whole |-> TRUE]
                      /\ \A q \in stored : s.package.key = q.package.key => s.package = q.package

\* A question was accepted over a published package.
UsersStored == \A u \in users : [package |-> u.turn.package, whole |-> TRUE] \in stored

IInv == TypeOK /\ CallKept /\ StoreKept /\ PointerIsWhole /\ UsersStored /\ AnswersAreGranted

----------------------------------------------------------------------------
\* Operators.

LEMMA NoneIsApart == None \notin Packages /\ None \notin Turns /\ None \notin Nat
BY ReadonlyAssumption

LEMMA GrantFacts ==
    ASSUME NEW g \in Grants
    PROVE  g.package \in Packages /\ g.epoch \in Nat /\ g.id \in GrantIds
BY ReadonlyAssumption DEF GrantIds

LEMMA TurnFacts ==
    ASSUME NEW t \in Turns
    PROVE  t.package \in Packages /\ t.request \in Requests /\ SessionOf(t) \in Sessions
BY ReadonlyAssumption DEF Requests, Sessions

LEMMA TemplateTyped ==
    ASSUME NEW c \in Call, c.turn \in Turns
    PROVE  TemplateOf(c) \in Template
BY DEF TemplateOf, Template, Call

\* What a running operation's next step may be.
LEMMA NextCases ==
    ASSUME Next
    PROVE  \/ \E op \in Ops, turn \in Turns \cup {None}, now \in Times, offer \in Offers,
                 b \in [package : Packages, whole : BOOLEAN] :
                    \E g \in offer : Begin(op, turn, b, offer, g, now)
           \/ Publish \/ Point \/ Ask \/ Bind \/ BindRefused \/ Cross \/ Close \/ Return
           \/ Observe \/ Stop \/ Exit \/ Open
BY DEF Next

----------------------------------------------------------------------------
\* One lemma per step.

USE DEF control, store, journal

LEMMA InitEstablishes == Init => IInv
<1> SUFFICES ASSUME Init PROVE IInv
  OBVIOUS
<1>1. TypeOK
  BY DEF Init, TypeOK
<1>2. CallKept
  BY DEF Init, CallKept, Answering
<1>3. StoreKept /\ UsersStored
  BY DEF Init, StoreKept, UsersStored
<1>4. PointerIsWhole
  BY DEF Init, PointerIsWhole
<1>5. AnswersAreGranted
  BY DEF Init, AnswersAreGranted
<1> QED
  BY <1>1, <1>2, <1>3, <1>4, <1>5 DEF IInv

\* The tables an operation does not touch keep what is said of them.
LEMMA TablesKept ==
    ASSUME IInv, UNCHANGED <<store, journal>>
    PROVE  StoreKept' /\ PointerIsWhole' /\ UsersStored' /\ AnswersAreGranted'
<1>1. StoreKept' /\ PointerIsWhole'
  BY DEF IInv, StoreKept, PointerIsWhole
<1>2. UsersStored'
  BY DEF IInv, UsersStored
<1>3. AnswersAreGranted'
  BY DEF IInv, AnswersAreGranted
<1> QED
  BY <1>1, <1>2, <1>3

LEMMA BeginKeeps ==
    ASSUME IInv, NEW op \in Ops, NEW turn \in Turns \cup {None}, NEW now \in Times,
           NEW offer \in Offers, NEW b \in [package : Packages, whole : BOOLEAN], NEW g \in offer,
           Begin(op, turn, b, offer, g, now)
    PROVE  IInv'
<1> USE DEF Begin, Given
<1>1. g \in Grants /\ g.package = b.package
  BY ReadonlyAssumption
<1>2. g.id \in GrantIds /\ g.epoch \in Nat
  BY <1>1, GrantFacts
<1>3. call' \in Call
  BY <1>1 DEF Call
<1>4. epochs' \in [GrantIds -> Nat \cup {None}] /\ epochs'[g.id] = g.epoch
  BY <1>2 DEF IInv, TypeOK
<1>5. TypeOK'
  BY <1>3, <1>4 DEF IInv, TypeOK
<1>6. op \in Asks \cup {"ro_observe"} => turn \in Turns
  <2>1. CASE op = "ro_turn"
    BY <2>1
  <2>2. CASE op \in {"ro_resume", "ro_observe"}
    <3>1. PICK u \in users : u.turn = turn
      BY <2>2
    <3> QED
      BY <3>1 DEF IInv, TypeOK
  <2> QED
    BY <2>1, <2>2 DEF Asks
<1>7. CallKept'
  <2>1. call'.grant = g /\ call'.package = b.package /\ call'.op = op /\ call'.turn = turn
    OBVIOUS
  <2>2. pc' = "granted"
    OBVIOUS
  <2>3. epochs'[call'.grant.id] = call'.grant.epoch
    BY <1>4, <2>1
  <2> HIDE DEF Begin, Given
  <2> QED
    BY <1>1, <1>3, <1>6, <2>1, <2>2, <2>3 DEF CallKept, Answering
<1> QED
  BY <1>5, <1>7, TablesKept DEF IInv

LEMMA PublishKeeps ==
    ASSUME IInv, Publish
    PROVE  IInv'
<1> USE DEF Publish, MayPublish, Copy
<1> DEFINE new == [package |-> call.package, whole |-> TRUE]
<1>1. call \in Call /\ call.package \in Packages
  BY DEF IInv, CallKept, Call
<1>2. stored' = stored \cup {new}
  OBVIOUS
<1>3. new.package = call.package
  OBVIOUS
<1>4. TypeOK'
  <2>1. new \in [package : Packages, whole : BOOLEAN]
    BY <1>1
  <2>2. stored' \subseteq [package : Packages, whole : BOOLEAN]
    BY <1>2, <2>1 DEF IInv, TypeOK
  <2>3. pc' = "published" /\ UNCHANGED <<control, active, journal, call, reply, exits>>
    OBVIOUS
  <2> QED
    BY <2>2, <2>3 DEF IInv, TypeOK
<1>5. CallKept'
  BY DEF IInv, CallKept, Answering
<1>6. StoreKept'
  <2> SUFFICES ASSUME NEW s \in stored', NEW q \in stored'
               PROVE  /\ s = [package |-> s.package, whole |-> TRUE]
                      /\ s.package.key = q.package.key => s.package = q.package
    BY DEF StoreKept
  <2>1. \A r \in stored : r.package.key = call.package.key => r.package = call.package
    BY DEF NoSibling
  <2> QED
    BY <1>2, <1>3, <2>1 DEF IInv, StoreKept
<1>7. PointerIsWhole'
  BY <1>2 DEF IInv, PointerIsWhole
<1>8. UsersStored'
  BY <1>2 DEF IInv, UsersStored
<1>9. AnswersAreGranted'
  BY DEF IInv, AnswersAreGranted
<1> QED
  BY <1>4, <1>5, <1>6, <1>7, <1>8, <1>9 DEF IInv

LEMMA PointKeeps ==
    ASSUME IInv, Point
    PROVE  IInv'
<1> USE DEF Point
<1>1. call \in Call /\ call.package \in Packages /\ call.package.key \in Keys
  BY DEF IInv, CallKept, Call, Keys
<1>2. TypeOK'
  BY <1>1 DEF IInv, TypeOK
<1>3. CallKept'
  BY DEF CallKept, Answering
<1>4. PointerIsWhole'
  BY <1>1 DEF IInv, PointerIsWhole, CallKept, TypeOK
<1>5. StoreKept' /\ UsersStored' /\ AnswersAreGranted'
  BY DEF IInv, StoreKept, UsersStored, AnswersAreGranted
<1> QED
  BY <1>2, <1>3, <1>4, <1>5 DEF IInv

LEMMA AskKeeps ==
    ASSUME IInv, Ask
    PROVE  IInv'
<1> USE DEF Ask, MayAsk, Accepted
<1> DEFINE new == [turn |-> call.turn, at |-> call.now]
<1>1. call \in Call /\ call.op \in Asks /\ call.turn \in Turns /\ call.now \in Times
  BY DEF IInv, CallKept, Call
<1>2. /\ call.package = call.turn.package
      /\ InForce(call.grant, "ro_turn", call.now)
      /\ [package |-> call.turn.package, whole |-> TRUE] \in stored
  BY DEF Loads, Valid
<1>3. new \in users' /\ users \subseteq users' /\ users' \subseteq users \cup {new}
  BY DEF Askable, Asked
<1>4. TypeOK'
  BY <1>1, <1>3 DEF IInv, TypeOK
<1>5. CallKept'
  BY <1>1, <1>2, <1>3 DEF IInv, CallKept, Answering
<1>6. new.turn = call.turn
  OBVIOUS
<1>7. UsersStored'
  BY <1>2, <1>3, <1>6 DEF IInv, UsersStored
<1>8. AnswersAreGranted'
  BY <1>3 DEF IInv, AnswersAreGranted
<1>9. StoreKept' /\ PointerIsWhole'
  BY DEF IInv, StoreKept, PointerIsWhole
<1> QED
  BY <1>4, <1>5, <1>7, <1>8, <1>9 DEF IInv

LEMMA BindKeeps ==
    ASSUME IInv, Bind
    PROVE  IInv'
<1> USE DEF Bind
<1> DEFINE row == [template |-> TemplateOf(call), phase |-> "bound"]
           r == call.turn.request
<1>1. call \in Call /\ call.op \in Asks /\ call.turn \in Turns /\ r \in Requests
  BY TurnFacts DEF IInv, CallKept, Answering
<1>2. row \in Row
  BY <1>1, TemplateTyped DEF Row, Phase
<1>3. /\ attempts' \in [Requests -> Row \cup {None}]
      /\ attempts'[r] = row
      /\ \A q \in Requests : q # r => attempts'[q] = attempts[q]
  BY <1>1, <1>2 DEF IInv, TypeOK, Row
<1>4. TypeOK'
  BY <1>3 DEF IInv, TypeOK, Row
<1>5. CallKept'
  BY <1>2, <1>3 DEF IInv, CallKept, Answering
<1>6. AnswersAreGranted'
  <2> SUFFICES ASSUME NEW q \in Requests, attempts'[q] # None
               PROVE  LET t == attempts'[q].template IN
                      /\ t.turn.request = q
                      /\ [turn |-> t.turn, at |-> t.at] \in users
                      /\ t.grant.package = t.turn.package
                      /\ InForce(t.grant, "ro_turn", t.at)
    BY DEF AnswersAreGranted
  <2>1. CASE q # r
    BY <1>3, <2>1 DEF IInv, AnswersAreGranted
  <2>2. CASE q = r
    <3>1. attempts'[q].template = TemplateOf(call)
      BY <1>3, <2>2
    <3> QED
      BY <2>2, <3>1 DEF IInv, CallKept, Answering, TemplateOf
  <2> QED
    BY <2>1, <2>2
<1>7. StoreKept' /\ PointerIsWhole' /\ UsersStored'
  BY DEF IInv, StoreKept, PointerIsWhole, UsersStored
<1> QED
  BY <1>4, <1>5, <1>6, <1>7 DEF IInv

\* A row that only changes its phase.
LEMMA PhaseKeeps ==
    ASSUME IInv, Cross \/ Close
    PROVE  IInv'
<1> USE DEF Cross, Close
<1> DEFINE r == call.turn.request
<1>1. /\ pc \in {"bound", "crossed"}
      /\ pc' \in {"crossed", "closed"}
      /\ UNCHANGED <<control, store, users, call, reply, exits>>
  OBVIOUS
<1>2. call \in Call /\ call.turn \in Turns /\ r \in Requests /\ attempts[r] \in Row
  BY <1>1, TurnFacts DEF IInv, CallKept, Answering
<1>3. PICK p \in Phase : attempts' = [attempts EXCEPT ![r].phase = p]
  BY DEF Phase
<1> DEFINE row == [attempts[r] EXCEPT !.phase = p]
<1>4. row \in Row /\ row.template = attempts[r].template
  BY <1>2 DEF Row
<1>5. /\ attempts' \in [Requests -> Row \cup {None}]
      /\ attempts'[r] = row
      /\ \A q \in Requests : q # r => attempts'[q] = attempts[q]
  BY <1>2, <1>3, <1>4 DEF IInv, TypeOK, Row
<1>6. TypeOK'
  BY <1>1, <1>5 DEF IInv, TypeOK, Row
<1>7. CallKept'
  BY <1>1, <1>2, <1>4, <1>5 DEF IInv, CallKept, Answering
<1>8. /\ row.template = TemplateOf(call)
      /\ call.turn.package = call.package
      /\ call.grant.package = call.package
      /\ [turn |-> call.turn, at |-> call.now] \in users
      /\ InForce(call.grant, "ro_turn", call.now)
  BY <1>1, <1>4 DEF IInv, CallKept, Answering
<1>9. AnswersAreGranted'
  <2> SUFFICES ASSUME NEW q \in Requests, attempts'[q] # None
               PROVE  LET t == attempts'[q].template IN
                      /\ t.turn.request = q
                      /\ [turn |-> t.turn, at |-> t.at] \in users
                      /\ t.grant.package = t.turn.package
                      /\ InForce(t.grant, "ro_turn", t.at)
    BY <1>1 DEF AnswersAreGranted
  <2>1. CASE q # r
    BY <1>5, <2>1 DEF IInv, AnswersAreGranted
  <2>2. CASE q = r
    <3>1. attempts'[q].template = TemplateOf(call)
      BY <1>5, <1>8, <2>2
    <3> QED
      BY <1>8, <2>2, <3>1 DEF TemplateOf
  <2> QED
    BY <2>1, <2>2
<1>10. StoreKept' /\ PointerIsWhole' /\ UsersStored'
  BY <1>1 DEF IInv, StoreKept, PointerIsWhole, UsersStored
<1> QED
  BY <1>6, <1>7, <1>9, <1>10 DEF IInv

\* The operation ends without touching store or journal.
LEMMA EndKeeps ==
    ASSUME IInv, BindRefused \/ Return \/ Observe \/ Stop \/ Exit
    PROVE  IInv'
<1>1. /\ call' = None
      /\ pc' \in {"idle", "down"}
      /\ UNCHANGED <<store, journal, epochs>>
  BY DEF BindRefused, Return, Observe, Stop, Exit
<1>2. CallKept'
  BY <1>1 DEF CallKept, Answering
<1>3. TypeOK'
  <2>1. CASE BindRefused \/ Stop
    BY <1>1, <2>1 DEF IInv, TypeOK, BindRefused, Stop
  <2>2. CASE Exit
    BY <1>1, <2>2, ReadonlyAssumption DEF IInv, TypeOK, Exit
  <2>3. CASE Return \/ Observe
    <3>1. call \in Call /\ call.turn \in Turns
      BY <2>3 DEF IInv, CallKept, Answering, Return, Observe, MayObserve, Repeated, Accepted
    <3>2. Reply(call.turn) \in [turn : Turns, grant : Grants, now : Times]
      BY <3>1 DEF Reply, Call
    <3>3. reply' \in [turn : Turns, grant : Grants, now : Times] \cup {None}
      BY <2>3, <3>2 DEF Return, Observe, Shown
    <3>4. anchors' \in [Sessions -> Turns \cup {None}]
      BY <2>3, <3>1, TurnFacts DEF IInv, TypeOK, Return, Observe, Anchor
    <3>5. UNCHANGED exits
      BY <2>3 DEF Return, Observe
    <3> QED
      BY <1>1, <3>3, <3>4, <3>5 DEF IInv, TypeOK
  <2> QED
    BY <2>1, <2>2, <2>3
<1> QED
  BY <1>1, <1>2, <1>3, TablesKept DEF IInv

LEMMA OpenKeeps ==
    ASSUME IInv, Open
    PROVE  IInv'
<1>1. \A r \in Requests :
          \/ attempts'[r] = attempts[r]
          \/ /\ attempts[r] # None
             /\ attempts'[r] = [attempts[r] EXCEPT !.phase = "closed"]
  BY DEF Open
<1>2. ASSUME NEW r \in Requests, attempts[r] # None
      PROVE  /\ [attempts[r] EXCEPT !.phase = "closed"] \in Row
             /\ [attempts[r] EXCEPT !.phase = "closed"].template = attempts[r].template
  <2>1. attempts[r] \in Row
    BY <1>2 DEF IInv, TypeOK, Row
  <2> QED
    BY <2>1 DEF Row, Phase
<1>3. \A r \in Requests : attempts'[r] \in Row \cup {None}
  BY <1>1, <1>2 DEF IInv, TypeOK, Row
<1>4. attempts' \in [Requests -> Row \cup {None}]
  BY <1>3 DEF Open
<1>5. TypeOK'
  BY <1>4 DEF IInv, TypeOK, Open, Row
<1>6. CallKept'
  BY DEF IInv, CallKept, Answering, Open
<1>7. AnswersAreGranted'
  <2> SUFFICES ASSUME NEW r \in Requests, attempts'[r] # None
               PROVE  LET t == attempts'[r].template IN
                      /\ t.turn.request = r
                      /\ [turn |-> t.turn, at |-> t.at] \in users
                      /\ t.grant.package = t.turn.package
                      /\ InForce(t.grant, "ro_turn", t.at)
    BY DEF AnswersAreGranted, Open
  <2>1. attempts[r] # None /\ attempts'[r].template = attempts[r].template
    BY <1>1, <1>2
  <2> QED
    BY <2>1 DEF IInv, AnswersAreGranted
<1>8. StoreKept' /\ PointerIsWhole' /\ UsersStored'
  BY DEF IInv, StoreKept, PointerIsWhole, UsersStored, Open
<1> QED
  BY <1>5, <1>6, <1>7, <1>8 DEF IInv

LEMMA StutterKeeps ==
    ASSUME IInv, UNCHANGED vars
    PROVE  IInv'
<1>1. TypeOK' /\ CallKept'
  BY DEF IInv, TypeOK, CallKept, Answering, vars
<1> QED
  BY <1>1, TablesKept DEF IInv, vars

LEMMA StepKeeps == IInv /\ [Next]_vars => IInv'
<1> SUFFICES ASSUME IInv, [Next]_vars PROVE IInv'
  OBVIOUS
<1>1. CASE UNCHANGED vars
  BY <1>1, StutterKeeps
<1>2. CASE Next
  BY <1>2, NextCases, BeginKeeps, PublishKeeps, PointKeeps, AskKeeps, BindKeeps, PhaseKeeps,
     EndKeeps, OpenKeeps
<1> QED
  BY <1>1, <1>2

THEOREM InvariantHolds == Spec => []IInv
BY InitEstablishes, StepKeeps, PTL DEF Spec

----------------------------------------------------------------------------
\* What follows from it.

\* Every table and every variable of the running operation keeps its type.
THEOREM TypeCorrect == Spec => []TypeOK
<1>1. IInv => TypeOK
  BY DEF IInv
<1> QED
  BY <1>1, InvariantHolds, PTL

\* An active pointer never names a directory that is not published whole,
\* for any number of exits during activation.
THEOREM PointersAreWhole == Spec => []PointerIsWhole
<1>1. IInv => PointerIsWhole
  BY DEF IInv
<1> QED
  BY <1>1, InvariantHolds, PTL

\* Turns over the same package id and version cite the same digest.
THEOREM SourcesAreOne == Spec => []OneSource
<1>1. IInv => OneSource
  <2> SUFFICES ASSUME IInv, NEW u \in users, NEW v \in users,
                      u.turn.package.key = v.turn.package.key
               PROVE  u.turn.package = v.turn.package
    BY DEF OneSource
  <2> DEFINE p == [package |-> u.turn.package, whole |-> TRUE]
             q == [package |-> v.turn.package, whole |-> TRUE]
  <2>1. p \in stored /\ q \in stored
    BY DEF IInv, UsersStored
  <2>2. p.package.key = q.package.key => p.package = q.package
    BY <2>1 DEF IInv, StoreKept
  <2> QED
    BY <2>2
<1> QED
  BY <1>1, InvariantHolds, PTL

\* A reply is made at its question's clock, under a grant in force then.
THEOREM RepliesAreGranted == Spec => []AnswersAreGranted
<1>1. IInv => AnswersAreGranted
  BY DEF IInv
<1> QED
  BY <1>1, InvariantHolds, PTL

\* Remembered epochs never fall and an operation runs under the highest.
LEMMA EpochStep ==
    ASSUME IInv, [Next]_vars, IInv'
    PROVE  /\ \A i \in GrantIds : epochs[i] # None => epochs'[i] # None /\ epochs'[i] >= epochs[i]
           /\ call' # None => epochs'[call'.grant.id] = call'.grant.epoch
<1>1. call' # None => epochs'[call'.grant.id] = call'.grant.epoch
  BY DEF IInv, CallKept
<1>2. ASSUME NEW i \in GrantIds, epochs[i] # None
      PROVE  epochs'[i] # None /\ epochs'[i] >= epochs[i]
  <2>1. epochs[i] \in Nat
    BY <1>2 DEF IInv, TypeOK
  <2>2. CASE UNCHANGED epochs
    BY <1>2, <2>1, <2>2
  <2>3. CASE \E op \in Ops, turn \in Turns \cup {None}, now \in Times, offer \in Offers,
                b \in [package : Packages, whole : BOOLEAN] :
                    \E g \in offer : Begin(op, turn, b, offer, g, now)
    <3>1. PICK g \in Grants : /\ epochs' = [epochs EXCEPT ![g.id] = g.epoch]
                              /\ epochs[g.id] # None => g.epoch >= epochs[g.id]
      <4>1. PICK op \in Ops, turn \in Turns \cup {None}, now \in Times, offer \in Offers,
                 b \in [package : Packages, whole : BOOLEAN] :
                     \E g \in offer : Begin(op, turn, b, offer, g, now)
        BY <2>3
      <4>2. PICK g \in offer : Begin(op, turn, b, offer, g, now)
        BY <4>1
      <4>3. g \in Grants
        BY ReadonlyAssumption
      <4>4. Valid(g, op, now) /\ epochs' = [epochs EXCEPT ![g.id] = g.epoch]
        BY <4>2 DEF Begin, Given
      <4> QED
        BY <4>3, <4>4 DEF Valid
    <3>2. g.epoch \in Nat
      BY GrantFacts
    <3>3. epochs'[i] = IF i = g.id THEN g.epoch ELSE epochs[i]
      BY <3>1 DEF IInv, TypeOK
    <3> QED
      BY <1>2, <2>1, <3>1, <3>2, <3>3, NoneIsApart
  <2> QED
    BY <2>2, <2>3, NextCases DEF vars, Publish, Point, Ask, Bind, BindRefused, Cross, Close,
       Return, Observe, Stop, Exit, Open
<1> QED
  BY <1>1, <1>2

\* No operation runs under an epoch lower than one an earlier operation ran
\* under, whatever exits fall between.
THEOREM EpochsAreHeld == Spec => EpochsHold
<1>1. IInv /\ IInv' /\ [Next]_vars =>
          [ /\ \A i \in GrantIds : epochs[i] # None => epochs'[i] # None /\ epochs'[i] >= epochs[i]
            /\ call' # None => epochs'[call'.grant.id] = call'.grant.epoch ]_vars
  BY EpochStep
<1> QED
  BY <1>1, InvariantHolds, PTL DEF Spec, EpochsHold

----------------------------------------------------------------------------
\* Answers and anchors.

\* While an operation runs nothing has been answered yet.
ReplyKept == (pc # "idle" => reply = None) /\ RepliesAreAllowed

LEMMA RepliesKeep == IInv /\ ReplyKept /\ [Next]_vars => ReplyKept'
<1> SUFFICES ASSUME IInv, ReplyKept, [Next]_vars PROVE ReplyKept'
  OBVIOUS
<1>1. CASE Return \/ Observe
  <2>1. /\ pc' = "idle" /\ UNCHANGED <<epochs, active, attempts>>
        /\ reply' = Shown(call.turn)
        /\ pc \notin {"idle", "down"}
    BY <1>1 DEF Return, Observe
  <2>2. epochs[call.grant.id] = call.grant.epoch /\ call.grant.package = call.package
    BY <2>1 DEF IInv, CallKept
  <2>3. CASE reply' = None
    BY <2>1, <2>3 DEF ReplyKept, RepliesAreAllowed
  <2>4. CASE reply' # None
    <3>1. /\ Loads(call.turn.package, "ro_observe") /\ Answered(call.turn.request)
          /\ reply' = Reply(call.turn)
      BY <2>1, <2>4 DEF Shown
    <3>2. reply'.turn = call.turn /\ reply'.grant = call.grant /\ reply'.now = call.now
      BY <3>1 DEF Reply
    <3>3. attempts'[call.turn.request] # None /\ attempts'[call.turn.request].phase = "closed"
      BY <2>1, <3>1 DEF Answered
    <3>4. /\ active'[call.turn.package.key] = call.turn.package
          /\ call.grant.package = call.turn.package
          /\ InForce(call.grant, "ro_observe", call.now)
          /\ call.grant.epoch = epochs'[call.grant.id]
      BY <2>1, <2>2, <3>1 DEF Loads, Valid
    <3>5. RepliesAreAllowed'
      BY <3>2, <3>3, <3>4 DEF RepliesAreAllowed, Answered
    <3> QED
      BY <2>1, <3>5 DEF ReplyKept
  <2> QED
    BY <2>3, <2>4
<1>2. CASE ~(Return \/ Observe)
  <2>1. CASE Next
    <3>1. ASSUME NEW op \in Ops, NEW turn \in Turns \cup {None}, NEW now \in Times, NEW offer \in Offers,
                 NEW b \in [package : Packages, whole : BOOLEAN], NEW g \in offer,
                 Begin(op, turn, b, offer, g, now)
          PROVE  reply' = None
      BY <3>1 DEF Begin, Given
    <3>2. ASSUME Publish \/ Point \/ Ask \/ Bind \/ BindRefused \/ Cross \/ Close \/ Stop \/ Exit \/ Open
          PROVE  reply' = None
      BY <3>2 DEF ReplyKept, Publish, Point, Ask, Bind, BindRefused, Cross, Close, Stop, Exit, Open
    <3>3. reply' = None
      BY <1>2, <2>1, <3>1, <3>2, NextCases
    <3> QED
      BY <3>3 DEF ReplyKept, RepliesAreAllowed
  <2>2. CASE UNCHANGED vars
    <3>1. UNCHANGED <<reply, pc, epochs, active, attempts>>
      BY <2>2 DEF vars
    <3> QED
      BY <3>1 DEF ReplyKept, RepliesAreAllowed, Answered
  <2> QED
    BY <2>1, <2>2
<1> QED
  BY <1>1, <1>2

\* An answer is seen only when it is durable, its package is active and the
\* grant offered allows ro_observe (readonly_session.py:596-599).
THEOREM RepliesHold == Spec => []RepliesAreAllowed
<1>1. Init => ReplyKept
  BY DEF Init, ReplyKept, RepliesAreAllowed
<1>2. ReplyKept => RepliesAreAllowed
  BY DEF ReplyKept
<1> QED
  BY <1>1, <1>2, RepliesKeep, InvariantHolds, PTL DEF Spec

SameSession(t, v) == SessionOf(t) = SessionOf(v)

\* Turns of a session follow each other: a pending turn is the last one, an
\* anchor is an answered turn, and below the one that is being answered.
OrderKept ==
    /\ \A u, v \in users : u.turn.request = v.turn.request => u = v
    /\ \A u, v \in users : SameSession(u.turn, v.turn) /\ ~Answered(v.turn.request) =>
          u = v \/ u.turn.no < v.turn.no
    /\ \A s \in Sessions : anchors[s] # None =>
          /\ Answered(anchors[s].request)
          /\ \E u \in users : u.turn = anchors[s] /\ SessionOf(u.turn) = s
    /\ pc \in {"asked", "bound", "crossed"} => ~Answered(call.turn.request)
    /\ pc = "closed" => Answered(call.turn.request)
    /\ pc \in Answering =>
          \/ anchors[SessionOf(call.turn)] = None
          \/ anchors[SessionOf(call.turn)].no < call.turn.no

\* Steps that leave the journal and the anchors alone and answer nothing.
LEMMA OrderUntouched ==
    ASSUME OrderKept, UNCHANGED <<users, attempts, anchors>>,
           pc' \notin Answering \/ UNCHANGED <<pc, call>>
    PROVE  OrderKept'
<1>1. \A r \in Requests : Answered(r)' = Answered(r)
  BY DEF Answered
<1> QED
  BY <1>1 DEF OrderKept, Answered, Answering

LEMMA OrderAsk ==
    ASSUME IInv, OrderKept, Ask
    PROVE  OrderKept'
<1> USE DEF Ask, MayAsk
<1> DEFINE new == [turn |-> call.turn, at |-> call.now]
<1>1. /\ UNCHANGED <<attempts, anchors, call>> /\ pc' = "asked"
      /\ call.turn \in Turns /\ call.turn.request \in Requests /\ SessionOf(call.turn) \in Sessions
      /\ new.turn = call.turn
  BY TurnFacts DEF IInv, CallKept, Accepted
<1>2. ~Answered(call.turn.request)
  <2>1. CASE call.op = "ro_resume"
    BY <2>1 DEF Askable
  <2>2. CASE call.op = "ro_turn"
    <3>1. ~Asked(call.turn.request)
      BY <2>2 DEF Askable
    <3> SUFFICES ASSUME attempts[call.turn.request] # None PROVE FALSE
      BY DEF Answered
    <3>2. PICK u \in users : u.turn.request = call.turn.request
      <4> DEFINE t == attempts[call.turn.request].template
      <4>1. t.turn.request = call.turn.request /\ [turn |-> t.turn, at |-> t.at] \in users
        BY <1>1 DEF IInv, AnswersAreGranted
      <4>2. [turn |-> t.turn, at |-> t.at].turn = t.turn
        OBVIOUS
      <4> HIDE DEF t
      <4> QED
        BY <4>1, <4>2
    <3> QED
      BY <3>1, <3>2 DEF Asked
  <2> QED
    BY <2>1, <2>2 DEF Accepted, Asks
<1>3. \/ users' = users /\ new \in users
      \/ /\ users' = users \cup {new} /\ ~Asked(call.turn.request)
         /\ NextInSession(call.turn)
  <2>1. new \in users => Asked(call.turn.request)
    BY <1>1 DEF Asked
  <2> QED
    BY <2>1 DEF Askable
<1>4. \A u, v \in users' : u.turn.request = v.turn.request => u = v
  BY <1>1, <1>3 DEF OrderKept, Asked
<1>5. \A u, v \in users' : SameSession(u.turn, v.turn) /\ ~Answered(v.turn.request) =>
          u = v \/ u.turn.no < v.turn.no
  <2>1. CASE users' = users
    BY <2>1 DEF OrderKept
  <2>2. CASE users' = users \cup {new} /\ NextInSession(call.turn)
    <3>1. \A u \in users : SameSession(u.turn, call.turn) =>
              Answered(u.turn.request) /\ u.turn.no < call.turn.no
      <4> SUFFICES ASSUME NEW u \in users, SameSession(u.turn, call.turn)
                   PROVE  Answered(u.turn.request) /\ u.turn.no < call.turn.no
        OBVIOUS
      <4>1. u.turn \in InSession(SessionOf(call.turn))
        BY DEF InSession, SameSession
      <4>2. \A w \in InSession(SessionOf(call.turn)) : w \in Turns
        BY DEF InSession, IInv, TypeOK
      <4>3. \A w \in Turns : w.no \in Nat
        BY ReadonlyAssumption
      <4>4. PICK w \in InSession(SessionOf(call.turn)) :
                /\ call.turn.no = w.no + 1
                /\ \A z \in InSession(SessionOf(call.turn)) : z.no <= w.no
        BY <2>2, <4>1 DEF NextInSession
      <4>5. u.turn.no <= w.no /\ u.turn.no \in Nat /\ w.no \in Nat
        BY <4>1, <4>2, <4>3, <4>4
      <4>6. u.turn.no < call.turn.no
        BY <4>4, <4>5
      <4>7. Answered(u.turn.request)
        BY <2>2, <4>1 DEF NextInSession
      <4> QED
        BY <4>6, <4>7
    <3> HIDE DEF new
    <3> QED
      BY <1>1, <2>2, <3>1 DEF OrderKept, SameSession
  <2> QED
    BY <1>3, <2>1, <2>2
<1>6. \A r \in Requests : Answered(r)' = Answered(r)
  BY <1>1 DEF Answered
<1>7. new \in users' /\ users \subseteq users'
  BY <1>3
<1>8. \A s \in Sessions : anchors[s] # None =>
          /\ Answered(anchors[s].request)
          /\ \E u \in users' : u.turn = anchors[s] /\ SessionOf(u.turn) = s
  BY <1>7 DEF OrderKept
<1>9. \/ anchors[SessionOf(call.turn)] = None
      \/ anchors[SessionOf(call.turn)].no < call.turn.no
  <2> SUFFICES ASSUME anchors[SessionOf(call.turn)] # None
               PROVE  anchors[SessionOf(call.turn)].no < call.turn.no
    OBVIOUS
  <2>1. PICK u \in users' : /\ u.turn = anchors[SessionOf(call.turn)]
                            /\ SessionOf(u.turn) = SessionOf(call.turn)
    BY <1>1, <1>8
  <2>2. Answered(u.turn.request)
    BY <1>1, <1>8, <2>1
  <2>3. u = new \/ u.turn.no < new.turn.no
    BY <1>1, <1>2, <1>5, <1>7, <2>1 DEF SameSession
  <2> HIDE DEF new
  <2> QED
    BY <1>1, <1>2, <2>1, <2>2, <2>3
<1> HIDE DEF Ask, MayAsk, new
<1> QED
  BY <1>1, <1>2, <1>4, <1>5, <1>8, <1>9 DEF OrderKept, Answered, Answering

\* Steps of the attempt of the running turn.
LEMMA OrderAttempt ==
    ASSUME IInv, OrderKept, Bind \/ Cross \/ Close
    PROVE  OrderKept'
<1> DEFINE r == call.turn.request
<1>1. /\ pc \in Answering /\ pc' \in Answering /\ UNCHANGED <<users, anchors, call>>
      /\ call.turn \in Turns /\ r \in Requests
      /\ pc' \in {"bound", "crossed", "closed"} /\ ~Answered(r)
  <2>1. /\ pc \in {"asked", "bound", "crossed"} /\ UNCHANGED <<users, anchors, call>>
        /\ pc' \in {"bound", "crossed", "closed"}
    BY DEF Bind, Cross, Close
  <2> QED
    BY <2>1, TurnFacts DEF IInv, CallKept, Answering, OrderKept
<1>2. /\ \A q \in Requests : q # r => attempts'[q] = attempts[q]
      /\ attempts'[r] # None
      /\ attempts'[r].phase = IF pc' = "closed" THEN "closed" ELSE pc'
  <2>1. CASE Bind
    <3> DEFINE row == [template |-> TemplateOf(call), phase |-> "bound"]
    <3>1. row \in Row /\ row.phase = "bound"
      BY <1>1, TemplateTyped DEF IInv, CallKept, Answering, Row, Phase
    <3>2. attempts' = [attempts EXCEPT ![r] = row] /\ pc' = "bound"
      BY <2>1 DEF Bind
    <3>3. attempts \in [Requests -> Row \cup {None}]
      BY DEF IInv, TypeOK, Row
    <3>4. row # None
      BY <3>1, NoneAssumption DEF Row
    <3> HIDE DEF row
    <3> QED
      BY <1>1, <3>1, <3>2, <3>3, <3>4
  <2>2. CASE Cross \/ Close
    <3>1. PICK p \in Phase : attempts' = [attempts EXCEPT ![r].phase = p] /\ p = pc'
      BY <2>2 DEF Cross, Close, Phase
    <3> DEFINE row == [attempts[r] EXCEPT !.phase = p]
    <3>2. attempts[r] \in Row
      BY <2>2 DEF Cross, Close, IInv, CallKept
    <3>3. row \in Row /\ row.phase = p
      BY <3>2 DEF Row
    <3>4. attempts' = [attempts EXCEPT ![r] = row] /\ attempts \in [Requests -> Row \cup {None}]
      BY <3>1 DEF IInv, TypeOK, Row
    <3>5. row # None
      BY <3>3, NoneAssumption DEF Row
    <3> HIDE DEF row
    <3> QED
      BY <1>1, <3>1, <3>3, <3>4, <3>5
  <2> QED
    BY <2>1, <2>2
<1>3. Answered(r)' = (pc' = "closed")
  BY <1>1, <1>2 DEF Answered
<1>4. \A q \in Requests : Answered(q) => q # r /\ attempts'[q] = attempts[q]
  BY <1>1, <1>2
<1>5. \A q \in Requests : Answered(q) => attempts'[q] # None /\ attempts'[q].phase = "closed"
  BY <1>4 DEF Answered
<1>6. \A u \in users : u.turn.request \in Requests
  BY TurnFacts DEF IInv, TypeOK
<1>7. \A s \in Sessions : anchors[s] # None => anchors[s].request \in Requests
  BY TurnFacts DEF IInv, TypeOK
<1> HIDE DEF r
<1> QED
  BY <1>1, <1>3, <1>5, <1>6, <1>7 DEF OrderKept, Answered, Answering, r

LEMMA OrderReturn ==
    ASSUME IInv, OrderKept, Return
    PROVE  OrderKept'
<1> DEFINE t == call.turn
<1>1. /\ UNCHANGED <<users, attempts>> /\ pc' = "idle"
      /\ t \in Turns /\ SessionOf(t) \in Sessions
      /\ anchors' = [anchors EXCEPT ![SessionOf(t)] = t]
      /\ Answered(t.request)
      /\ [turn |-> t, at |-> call.now] \in users
  BY TurnFacts DEF Return, Anchor, IInv, CallKept, Answering, OrderKept
<1>2. \E u \in users : u.turn = t
  <2>1. [turn |-> t, at |-> call.now].turn = t
    OBVIOUS
  <2> QED
    BY <1>1, <2>1
<1>3. \A s \in Sessions : anchors'[s] = IF s = SessionOf(t) THEN t ELSE anchors[s]
  BY <1>1 DEF IInv, TypeOK
<1> HIDE DEF t
<1> QED
  BY <1>1, <1>2, <1>3 DEF OrderKept, Answered, Answering

LEMMA OrderOpen ==
    ASSUME IInv, OrderKept, Open
    PROVE  OrderKept'
<1>1. /\ UNCHANGED <<users, anchors>> /\ pc' = "idle"
  BY DEF Open
<1>2. \A q \in Requests : Answered(q) => attempts'[q] # None /\ attempts'[q].phase = "closed"
  BY DEF Answered, Open
<1>3. \A u \in users : u.turn.request \in Requests
  BY TurnFacts DEF IInv, TypeOK
<1>4. \A s \in Sessions : anchors[s] # None => anchors[s].request \in Requests
  BY TurnFacts DEF IInv, TypeOK
<1> QED
  BY <1>1, <1>2, <1>3, <1>4 DEF OrderKept, Answered, Answering

LEMMA OrderKeeps == IInv /\ OrderKept /\ [Next]_vars => OrderKept'
<1> SUFFICES ASSUME IInv, OrderKept, [Next]_vars PROVE OrderKept'
  OBVIOUS
<1>1. CASE UNCHANGED vars
  BY <1>1, OrderUntouched DEF vars
<1>2. ASSUME NEW op \in Ops, NEW turn \in Turns \cup {None}, NEW now \in Times, NEW offer \in Offers,
             NEW b \in [package : Packages, whole : BOOLEAN], NEW g \in offer,
             Begin(op, turn, b, offer, g, now)
      PROVE  OrderKept'
  BY <1>2, OrderUntouched DEF Begin, Given, Answering
<1>3. CASE Publish \/ Point \/ BindRefused \/ Observe \/ Stop \/ Exit
  BY <1>3, OrderUntouched DEF Publish, Point, BindRefused, Observe, Stop, Exit, Answering
<1> QED
  BY <1>1, <1>2, <1>3, OrderAsk, OrderAttempt, OrderReturn, OrderOpen, NextCases

\* A session's anchor moves forward only, and only to an answered turn,
\* whatever exits fall between answers and anchors.
THEOREM AnchorsAdvance == Spec => AnchorAdvances
<1>1. ASSUME IInv, OrderKept, Return, NEW s \in Sessions, anchors'[s] # anchors[s]
      PROVE  /\ anchors'[s] \in InSession(s)
             /\ Answered(anchors'[s].request)
             /\ anchors[s] # None => anchors[s].no < anchors'[s].no
  <2>1. /\ [turn |-> call.turn, at |-> call.now] \in users
        /\ Answered(call.turn.request)
        /\ anchors' = [anchors EXCEPT ![SessionOf(call.turn)] = call.turn]
        /\ \/ anchors[SessionOf(call.turn)] = None
           \/ anchors[SessionOf(call.turn)].no < call.turn.no
    BY <1>1 DEF Return, Anchor, IInv, CallKept, Answering, OrderKept
  <2>2. s = SessionOf(call.turn) /\ anchors'[s] = call.turn
    BY <1>1, <2>1 DEF IInv, TypeOK
  <2>3. call.turn \in InSession(s)
    <3>1. [turn |-> call.turn, at |-> call.now].turn = call.turn
      OBVIOUS
    <3> QED
      BY <2>1, <2>2, <3>1 DEF InSession
  <2> QED
    BY <2>1, <2>2, <2>3
<1>2. ASSUME IInv, OrderKept, [Next]_vars, ~Return
      PROVE  anchors' = anchors
  BY <1>2, NextCases DEF vars, Begin, Given, Publish, Point, Ask, Bind, BindRefused, Cross, Close,
     Observe, Stop, Exit, Open
<1>3. IInv /\ OrderKept /\ [Next]_vars =>
          [ \A s \in Sessions : anchors'[s] # anchors[s] =>
              /\ anchors'[s] \in InSession(s)
              /\ Answered(anchors'[s].request)
              /\ anchors[s] # None => anchors[s].no < anchors'[s].no ]_vars
  BY <1>1, <1>2
<1>4. Init => OrderKept
  BY DEF Init, OrderKept, Answering
<1> QED
  BY <1>3, <1>4, OrderKeeps, InvariantHolds, PTL DEF Spec, AnchorAdvances
=============================================================================
