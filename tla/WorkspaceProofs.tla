--------------------------- MODULE WorkspaceProofs ---------------------------
(* Theorems about Workspace for any number of turns and faults.  The         *)
(* inductive invariant follows one idea: an awaited request is the last one  *)
(* in the queue, so by the time the page hears an answer the queue is empty  *)
(* and what it heard is the truth until it asks again (TurnOk, AbsentOk).    *)
EXTENDS Workspace, TLAPS

\* Storage and script agree between any two steps of the script.
Kept == storage = Saved(tab)

HandleOk ==
    /\ tab.id # None => tab.id <= made
    /\ \A i \in Stored : i <= made

SeenOk ==
    /\ shown \subseteq Stored
    /\ \A i \in shown : turns[i].phase \in Ended
    /\ \A i \in Stored \ shown : i = tab.id

TabOk ==
    /\ Idle => tab.sent = "no"
    /\ ~Idle => tab.id # None
    /\ tab.id = None => tab.state = None
    /\ Idle /\ tab.id # None => tab.state # None
    /\ Idle /\ tab.id # None /\ tab.state \in Ended => tab.id \in shown

\* The page knows that its turn does not exist, and none is under way.
KnowsAbsent ==
    \/ tab.doing = "look"
    \/ tab.doing = "write" /\ tab.sent = "no"
    \/ Idle /\ tab.id # None /\ tab.state = "NOT_FOUND"

AbsentOk == KnowsAbsent => turns[tab.id] = None

\* The page has sent its turn and not heard what became of it.
MayBeUnderWay ==
    \/ tab.doing = "write" /\ tab.sent = "yes"
    \/ tab.doing = "check"
    \/ Idle /\ tab.state = "UNKNOWN"

AwaitedOk ==
    \A k \in DOMAIN wire : wire[k].awaited = "yes" =>
        /\ k = Len(wire)
        /\ tab.sent = "yes"
        /\ wire[k].op = Request[tab.doing]
        /\ wire[k].id = tab.id

TurnOk ==
    \A k \in DOMAIN wire : wire[k].op = "turn" =>
        /\ MayBeUnderWay
        /\ wire[k].id = tab.id
        /\ wire[k].no = tab.no
        /\ turns[tab.id] = None
        /\ \A l \in DOMAIN wire : wire[l].op = "turn" => l = k

\* The page's number is that of its turn, or of the next one once it has shown
\* that turn's end; the turns it has shown have the numbers below.
NumberOk ==
    /\ tab.no <= IF tab.id = None \/ tab.id \in shown THEN made + 1 ELSE made
    /\ IF SessionPerTurn THEN tab.no = 1 /\ \A i \in Stored : turns[i].no = 1
       ELSE /\ \A i \in shown : turns[i].no < tab.no
            /\ tab.no = 1 \/ \E i \in shown : turns[i].no + 1 = tab.no
            /\ \A i \in Stored \ shown : turns[i].no = tab.no

IInv == /\ TypeOK /\ Kept /\ HandleOk /\ SeenOk /\ TabOk
        /\ AbsentOk /\ AwaitedOk /\ TurnOk /\ NumberOk

----------------------------------------------------------------------------
\* Operators.

Turn == [no : Ids, phase : Phases]

LEMMA Constants ==
    /\ MaxTurns \in Nat
    /\ None \notin Ids
    /\ None \notin Statuses
    /\ None \notin Turn
BY WorkspaceAssumption, NoneAssumption DEF Turn

\* The number above a set of turns is the only one that is right.
LEMMA NumberIs ==
    ASSUME TypeOK, NEW S \in SUBSET Stored, NEW n \in Numbers,
           \A i \in S : turns[i].no < n,
           n = 1 \/ \E i \in S : turns[i].no + 1 = n
    PROVE  NumberAfter(S) = n
<1> DEFINE P(m) == /\ \A i \in S : turns[i].no < m
                   /\ m = 1 \/ \E i \in S : turns[i].no + 1 = m
<1>1. \A i \in S : turns[i].no \in Nat \ {0}
  BY Constants DEF TypeOK, Stored, Ids
<1>2. P(n)
  OBVIOUS
<1>3. \A m \in Numbers : P(m) => m = n
  <2> SUFFICES ASSUME NEW m \in Numbers, P(m) PROVE m = n
    OBVIOUS
  <2>1. m \in Nat /\ n \in Nat
    BY Constants DEF Numbers
  <2>2. CASE n = 1
    <3>1. S = {}
      BY <1>1, <2>2
    <3> QED
      BY <3>1, <2>2
  <2>3. CASE \E i \in S : turns[i].no + 1 = n
    <3>1. PICK i \in S : turns[i].no + 1 = n
      BY <2>3
    <3>2. turns[i].no < m /\ turns[i].no \in Nat \ {0}
      BY <1>1
    <3>3. PICK j \in S : turns[j].no + 1 = m
      BY <3>2, <2>1
    <3>4. turns[j].no < n /\ turns[j].no \in Nat
      BY <1>1
    <3> QED
      BY <3>1, <3>2, <3>3, <3>4, <2>1
  <2> QED
    BY <2>2, <2>3
<1> QED
  BY <1>2, <1>3 DEF NumberAfter

Row == Turn \cup {None}

\* What a request may do to the turns it is not the first to ask: an ended one
\* stays ended, and none changes its number or goes.
Follows(t, i) ==
    IF turns[i] = None THEN t[i] = None
    ELSE /\ t[i] # None
         /\ t[i].no = turns[i].no
         /\ turns[i].phase \in Ended => t[i].phase \in Ended

\* What request m may make of the turns: others than its own follow.
Adds(m, t, i) ==
    /\ m.op = "turn"
    /\ i = m.id
    /\ turns[i] = None
    /\ t[i] # None
    /\ t[i].no = m.no

MovesTo(m, t) ==
    /\ t \in [Ids -> Row]
    /\ \A i \in Ids : Follows(t, i) \/ Adds(m, t, i)

LEMMA OpenedFollows ==
    ASSUME TypeOK, NEW id \in Ids, NEW t \in Opened(id)
    PROVE  t \in [Ids -> Row] /\ \A i \in Ids : Follows(t, i)
<1> DEFINE r == Recovered(id)
<1>1. \A i \in Ids : turns[i] \in Row
  BY DEF TypeOK, Row, Turn
<1>2. ASSUME NEW i \in Ids
      PROVE  r[i] \in Row /\ Follows(r, i)
  <2>1. CASE r[i] = turns[i]
    BY <1>1, <2>1 DEF Follows
  <2>2. CASE r[i] # turns[i]
    <3>1. /\ turns[i] # None
          /\ turns[i].phase = "crossed"
          /\ r[i] = [turns[i] EXCEPT !.phase = IF page \in {"models", "human"} THEN "unsure" ELSE "closed"]
      BY <2>2 DEF Recovered
    <3>2. turns[i] \in Turn
      BY <1>1, <3>1 DEF Row
    <3>3. r[i] \in Turn /\ r[i].no = turns[i].no
      BY <3>1, <3>2 DEF Turn, Phases, Ended
    <3>4. r[i] # None
      BY <3>3, Constants
    <3>5. turns[i].phase \notin Ended
      BY <3>1 DEF Ended
    <3> HIDE DEF r
    <3> QED
      BY <3>1, <3>3, <3>4, <3>5 DEF Row, Follows
  <2> QED
    BY <2>1, <2>2
<1>3. r \in [Ids -> Row]
  BY <1>2 DEF Recovered
<1>4. CASE t = r
  BY <1>2, <1>3, <1>4
<1>5. CASE t # r
  <2>1. PICK p \in Ended : /\ t = [r EXCEPT ![id].phase = p]
                           /\ r[id] # None
                           /\ r[id].phase \in Undecided
    BY <1>5 DEF Opened
  <2>2. r[id] \in Turn
    BY <1>2, <2>1 DEF Row
  <2>6. t[id] \in Turn /\ t[id].no = r[id].no /\ t[id].phase \in Ended
    BY <1>3, <2>1, <2>2 DEF Turn, Phases
  <2>3. t[id] = [r[id] EXCEPT !.phase = p] /\ \A i \in Ids : i # id => t[i] = r[i]
    BY <1>3, <2>1
  <2>4. t \in [Ids -> Row]
    BY <1>3, <2>1, <2>6, <2>3 DEF Row
  <2>5. Follows(t, id)
    <3> HIDE DEF r
    <3>1. Follows(r, id)
      BY <1>2
    <3> QED
      BY <3>1, <2>1, <2>6, Constants DEF Follows
  <2> QED
    BY <1>2, <2>3, <2>4, <2>5 DEF Follows
<1> QED
  BY <1>4, <1>5

Message == [op : Ops, id : Ids, no : Numbers, awaited : {"no", "yes"}]

\* The oldest request; a turn is the page's own, new and rightly numbered.
LEMMA HeadOk ==
    ASSUME IInv, wire # <<>>
    PROVE  /\ Head(wire) = wire[1] /\ 1 \in DOMAIN wire
           /\ Head(wire) \in Message
           /\ Head(wire).op = "turn" =>
                 /\ Head(wire).id = tab.id
                 /\ Head(wire).no = tab.no
                 /\ Head(wire).no \in Ids
                 /\ turns[tab.id] = None
                 /\ MayBeUnderWay
<1>1. wire \in Seq(Message)
  BY DEF IInv, TypeOK, Message
<1>2. Head(wire) = wire[1] /\ 1 \in DOMAIN wire /\ Head(wire) \in Message
  BY <1>1
<1>3. ASSUME Head(wire).op = "turn"
      PROVE  /\ Head(wire).id = tab.id
             /\ Head(wire).no = tab.no
             /\ turns[tab.id] = None
             /\ MayBeUnderWay
  BY <1>2, <1>3 DEF IInv, TurnOk
<1>4. ASSUME Head(wire).op = "turn"
      PROVE  Head(wire).no \in Ids
  <2>1. tab.id \in Ids
    BY <1>2, <1>3, <1>4 DEF Message
  <2>2. tab.id \notin shown
    BY <1>3, <1>4 DEF IInv, SeenOk, Stored
  <2>3. tab.no <= made
    BY <2>1, <2>2, Constants DEF IInv, NumberOk
  <2>4. tab.no \in Numbers /\ made \in 0..MaxTurns
    BY DEF IInv, TypeOK
  <2> QED
    BY <2>3, <2>4, <1>3, <1>4, Constants DEF Numbers, Ids
<1> QED
  BY <1>2, <1>3, <1>4

LEMMA MovedFollows ==
    ASSUME TypeOK, NEW m \in Message, NEW t \in Opened(m.id), t[m.id] # None,
           NEW phase \in Phases, t[m.id].phase \in Ended => phase \in Ended
    PROVE  Moved(m, t, phase) \in [Ids -> Row] /\ \A i \in Ids : Follows(Moved(m, t, phase), i)
<1> DEFINE u == Moved(m, t, phase)
<1>1. m.id \in Ids
  BY DEF Message
<1>2. t \in [Ids -> Row] /\ \A i \in Ids : Follows(t, i)
  BY <1>1, OpenedFollows
<1>3. t[m.id] \in Turn
  BY <1>1, <1>2 DEF Row
<1>4. u[m.id] \in Turn /\ u[m.id].no = t[m.id].no /\ u[m.id].phase = phase
  BY <1>1, <1>2, <1>3 DEF Moved, Turn
<1>5. \A i \in Ids : i # m.id => u[i] = t[i]
  BY <1>2 DEF Moved
<1>6. u \in [Ids -> Row]
  BY <1>2, <1>4 DEF Row, Moved
<1>7. Follows(u, m.id)
  <2> HIDE DEF u
  <2>1. Follows(t, m.id)
    BY <1>1, <1>2
  <2> QED
    BY <2>1, <1>4, Constants DEF Follows
<1>8. ASSUME NEW i \in Ids, i # m.id PROVE Follows(u, i)
  <2> HIDE DEF u
  <2> QED
    BY <1>2, <1>5, <1>8 DEF Follows
<1> QED
  BY <1>6, <1>7, <1>8

LEMMA TakenMoves ==
    ASSUME TypeOK, NEW m \in Message, m.op = "turn", NEW t \in Opened(m.id),
           turns[m.id] = None, m.no \in Ids, NEW phase \in Phases
    PROVE  MovesTo(m, Taken(m, t, phase))
<1> DEFINE u == Taken(m, t, phase)
<1>1. m.id \in Ids
  BY DEF Message
<1>2. t \in [Ids -> Row] /\ \A i \in Ids : Follows(t, i)
  BY <1>1, OpenedFollows
<1>3. u[m.id] = [no |-> m.no, phase |-> phase] /\ \A i \in Ids : i # m.id => u[i] = t[i]
  BY <1>1, <1>2 DEF Taken
<1>4. u[m.id] \in Turn /\ u[m.id].no = m.no
  BY <1>3 DEF Turn
<1>5. u \in [Ids -> Row]
  BY <1>2, <1>4 DEF Row, Taken
<1>6. Adds(m, u, m.id)
  <2> HIDE DEF u
  <2> QED
    BY <1>4, Constants DEF Adds
<1>7. ASSUME NEW i \in Ids, i # m.id PROVE Follows(u, i)
  <2> HIDE DEF u
  <2> QED
    BY <1>2, <1>3, <1>7 DEF Follows
<1> QED
  BY <1>5, <1>6, <1>7 DEF MovesTo

----------------------------------------------------------------------------
\* The server.

\* An operation stays within its outcomes, which keep an ended turn ended.
LEMMA OutcomesOk ==
    ASSUME NEW op, NEW phase \in Phases, NEW next \in Outcomes(op, phase)
    PROVE  /\ next \in Phases
           /\ phase \in Ended => next \in Ended /\ Outcomes(op, phase) = {phase}
BY DEF Outcomes, Phases, Ended, Ends, Undecided

LEMMA ServedMoves ==
    ASSUME IInv, Serve \/ Cut
    PROVE  wire # <<>> /\ MovesTo(Head(wire), turns')
<1> DEFINE m == Head(wire)
<1>0. wire # <<>>
  BY DEF Serve, ServeObserve, ServeTurn, ServeHandle, Cut, Arrived
<1>1. /\ TypeOK /\ m \in Message /\ m.id \in Ids
      /\ m.op = "turn" => turns[m.id] = None /\ m.no \in Ids
  <2>1. m.op = "turn" => m.id = tab.id /\ turns[tab.id] = None /\ m.no \in Ids
    BY <1>0, HeadOk
  <2> QED
    BY <1>0, <2>1, HeadOk DEF Message, IInv
<1>2. ASSUME NEW t \in Opened(m.id) PROVE MovesTo(m, t)
  BY <1>1, <1>2, OpenedFollows DEF MovesTo
<1>3. CASE ServeObserve
  BY <1>0, <1>2, <1>3 DEF ServeObserve
<1>4. CASE ServeTurn
  <2> HIDE DEF m
  <2>1. m.op = "turn"
    BY <1>4 DEF ServeTurn, Arrived, m
  <2>2. PICK t \in Opened(m.id) : turns' = t \/ \E phase \in First : turns' = Taken(m, t, phase)
    BY <1>4 DEF ServeTurn, m
  <2>3. First \subseteq Phases
    BY DEF First, Phases, Ends, Ended
  <2> QED
    BY <1>0, <1>1, <1>2, <2>1, <2>2, <2>3, TakenMoves DEF m
<1>5. CASE ServeHandle
  <2> HIDE DEF m
  <2>1. PICK t \in Opened(m.id) :
           \/ turns' = t
           \/ /\ t[m.id] # None
              /\ \E phase \in Outcomes(m.op, t[m.id].phase) : turns' = Moved(m, t, phase)
    BY <1>5 DEF ServeHandle, m
  <2>2. CASE turns' = t
    BY <1>0, <1>2, <2>2 DEF m
  <2>3. CASE turns' # t
    <3>1. PICK phase \in Outcomes(m.op, t[m.id].phase) : turns' = Moved(m, t, phase)
      BY <2>1, <2>3
    <3>2. t[m.id] # None
      BY <2>1, <2>3
    <3>3. t[m.id].phase \in Phases
      BY <1>1, <3>2, OpenedFollows DEF Row, Turn
    <3>4. phase \in Phases /\ (t[m.id].phase \in Ended => phase \in Ended)
      BY <3>3, OutcomesOk
    <3> QED
      BY <1>0, <1>1, <3>1, <3>2, <3>4, MovedFollows DEF MovesTo, m
  <2> QED
    BY <2>2, <2>3
<1>6. CASE Cut
  <2> HIDE DEF m
  <2>1. PICK t \in Opened(m.id) :
           /\ m.op # "turn" => /\ t[m.id] # None
                               /\ Outcomes(m.op, t[m.id].phase) # {t[m.id].phase}
           /\ turns' \in CutShort(m, t)
    BY <1>6 DEF Cut, m
  <2>2. CASE m.op = "turn"
    <3>1. PICK phase \in Phases : turns' = Taken(m, t, phase)
      BY <2>1, <2>2 DEF CutShort, Phases, First, Ends, Ended
    <3> QED
      BY <1>0, <1>1, <2>2, <3>1, TakenMoves DEF m
  <2>3. CASE m.op # "turn"
    <3>1. t[m.id].phase \in Phases
      BY <1>1, <2>1, <2>3, OpenedFollows DEF Row, Turn
    <3>2. PICK phase : /\ turns' = Moved(m, t, phase)
                       /\ \/ phase \in Outcomes(m.op, t[m.id].phase)
                          \/ m.op = "resume" /\ phase = "crossed"
                          \/ phase = t[m.id].phase
      BY <2>1, <2>3 DEF CutShort
    <3>4. t[m.id].phase \notin Ended
      <4>1. Outcomes(m.op, t[m.id].phase) # {}
        BY <3>1 DEF Outcomes, Ends, Ended
      <4> QED
        BY <2>1, <2>3, <3>1, <4>1, OutcomesOk
    <3>3. phase \in Phases /\ (t[m.id].phase \in Ended => phase \in Ended)
      BY <3>1, <3>2, <3>4, OutcomesOk DEF Phases
    <3> QED
      BY <1>0, <1>1, <2>1, <2>3, <3>2, <3>3, MovedFollows DEF MovesTo, m
  <2> QED
    BY <2>2, <2>3
<1> QED
  BY <1>0, <1>3, <1>4, <1>5, <1>6 DEF Serve

\* The page knows nothing and everything at once in no state.
LEMMA KnowsOrWaits == IInv => ~(KnowsAbsent /\ MayBeUnderWay)
BY DEF KnowsAbsent, MayBeUnderWay, IInv, TypeOK, TabOk, Idle

\* What a request makes of the turns leaves what the page knows of them.
LEMMA TurnsFollow ==
    ASSUME IInv, wire # <<>>, MovesTo(Head(wire), turns')
    PROVE  /\ \A i \in Stored : /\ i \in Stored'
                                /\ turns'[i].no = turns[i].no
                                /\ turns[i].phase \in Ended => turns'[i].phase \in Ended
           /\ \A i \in Stored' \ shown : i = tab.id /\ turns'[i].no = tab.no
           /\ \A i \in Stored' : i <= made
<1> DEFINE m == Head(wire)
<1>0. IInv /\ wire # <<>>
  OBVIOUS
<1>1. m.op = "turn" => m.id = tab.id /\ m.no = tab.no
  BY <1>0, HeadOk
<1>2. \A i \in Ids : Follows(turns', i) \/ Adds(m, turns', i)
  BY DEF MovesTo
<1> HIDE DEF m
<1>3. \A i \in Stored : /\ i \in Stored'
                        /\ turns'[i].no = turns[i].no
                        /\ turns[i].phase \in Ended => turns'[i].phase \in Ended
  BY <1>2 DEF Stored, Follows, Adds
<1>4. \A i \in Stored' \ Stored : i = tab.id /\ turns'[i].no = tab.no
  BY <1>1, <1>2 DEF Stored, Follows, Adds
<1>5. \A i \in Stored \ shown : i = tab.id /\ turns[i].no = tab.no
  BY <1>0 DEF IInv, SeenOk, NumberOk
<1>6. \A i \in Stored' \ shown : i = tab.id /\ turns'[i].no = tab.no
  BY <1>3, <1>4, <1>5
<1>7. \A i \in Stored' : i <= made
  BY <1>0, <1>3, <1>4, Constants DEF IInv, HandleOk, Stored
<1> QED
  BY <1>3, <1>6, <1>7

LEMMA TurnsKept ==
    ASSUME IInv, wire # <<>>, MovesTo(Head(wire), turns'),
           UNCHANGED <<page, made, shown>>, tab'.id = tab.id, tab'.no = tab.no
    PROVE  HandleOk' /\ SeenOk' /\ NumberOk'
<1>0. IInv /\ wire # <<>> /\ made' = made /\ shown' = shown
  OBVIOUS
<1>3. \A i \in Stored : /\ i \in Stored'
                        /\ turns'[i].no = turns[i].no
                        /\ turns[i].phase \in Ended => turns'[i].phase \in Ended
  BY <1>0, TurnsFollow
<1>5. \A i \in Stored' \ shown : i = tab.id /\ turns'[i].no = tab.no
  BY <1>0, TurnsFollow
<1>6. HandleOk'
  <2>1. \A i \in Stored' : i <= made
    BY <1>0, TurnsFollow
  <2> QED
    BY <1>0, <2>1 DEF IInv, HandleOk
<1>7. SeenOk'
  BY <1>0, <1>3, <1>5 DEF IInv, SeenOk
<1>8. NumberOk'
  <2>1. SessionPerTurn' = SessionPerTurn
    BY DEF SessionPerTurn
  <2>2. \A i \in shown : i \in Stored
    BY <1>0 DEF IInv, SeenOk
  <2>3. (tab.no <= IF tab.id = None \/ tab.id \in shown THEN made + 1 ELSE made)'
    BY <1>0 DEF IInv, NumberOk
  <2>4. CASE SessionPerTurn
    <3>1. tab'.no = 1
      BY <1>0, <2>4 DEF IInv, NumberOk
    <3>2. \A i \in Stored' : turns'[i].no = 1
      <4>1. ASSUME NEW i \in Stored', i \in shown PROVE turns'[i].no = 1
        <5>1. i \in Stored /\ turns[i].no = 1
          BY <1>0, <2>2, <2>4, <4>1 DEF IInv, NumberOk
        <5> QED
          BY <1>3, <5>1
      <4>2. ASSUME NEW i \in Stored', i \notin shown PROVE turns'[i].no = 1
        BY <1>0, <1>5, <2>4, <4>2 DEF IInv, NumberOk
      <4> QED
        BY <4>1, <4>2
    <3> QED
      BY <2>1, <2>3, <2>4, <3>1, <3>2 DEF NumberOk
  <2>5. CASE ~SessionPerTurn
    <3>1. /\ \A i \in shown : turns'[i].no < tab.no
          /\ tab.no = 1 \/ \E i \in shown : turns'[i].no + 1 = tab.no
      BY <1>0, <1>3, <2>2, <2>5 DEF IInv, NumberOk
    <3> QED
      BY <1>5, <2>1, <2>3, <2>5, <3>1 DEF NumberOk
  <2> QED
    BY <2>4, <2>5
<1> QED
  BY <1>6, <1>7, <1>8

\* A step of the server that the page does not hear.
LEMMA Unheard ==
    ASSUME IInv, wire # <<>>, MovesTo(Head(wire), turns'),
           wire' = Tail(wire) \/ wire' = <<>>, UNCHANGED <<page, client>>, faults' \in Nat
    PROVE  IInv'
<1> DEFINE m == Head(wire)
<1>0. IInv /\ wire # <<>>
  OBVIOUS
<1>c. storage' = storage /\ tab' = tab /\ made' = made /\ shown' = shown /\ page' = page
  BY DEF client
<1>1. HandleOk' /\ SeenOk' /\ NumberOk'
  BY <1>0, <1>c, TurnsKept
<1>2. wire \in Seq(Message)
  BY <1>0 DEF IInv, TypeOK, Message
<1>3. /\ wire' \in Seq(Message)
      /\ \A k \in DOMAIN wire' : /\ k + 1 \in DOMAIN wire
                                 /\ wire'[k] = wire[k + 1]
                                 /\ k + 1 = Len(wire) => k = Len(wire')
  <2>1. CASE wire' = <<>>
    BY <2>1
  <2>2. CASE wire' = Tail(wire)
    <3>1. /\ Tail(wire) \in Seq(Message)
          /\ Len(Tail(wire)) = Len(wire) - 1
          /\ \A k \in 1..(Len(wire) - 1) : Tail(wire)[k] = wire[k + 1]
      BY <1>0, <1>2
    <3>2. Len(wire) \in Nat /\ DOMAIN wire = 1..Len(wire)
      BY <1>2
    <3>3. DOMAIN Tail(wire) = 1..(Len(wire) - 1)
      BY <3>1
    <3> QED
      BY <2>2, <3>1, <3>2, <3>3
  <2> QED
    BY <2>1, <2>2
<1>4. TypeOK'
  BY <1>0, <1>c, <1>3 DEF IInv, TypeOK, Message, MovesTo, Row, Turn
<1>5. Kept' /\ TabOk'
  BY <1>0, <1>c DEF IInv, Kept, TabOk, Saved, Idle
<1>6. \A i \in Ids : turns[i] = None => turns'[i] = None \/ (m.op = "turn" /\ i = m.id)
  BY DEF MovesTo, Follows, Adds
<1>7. m.op = "turn" => MayBeUnderWay
  BY <1>0, HeadOk
<1>8. AbsentOk'
  <2> SUFFICES ASSUME KnowsAbsent PROVE turns'[tab.id] = None
    BY <1>c DEF AbsentOk, KnowsAbsent, Idle
  <2>1. turns[tab.id] = None /\ tab.id \in Ids
    BY <1>0, Constants DEF IInv, AbsentOk, TypeOK, TabOk, KnowsAbsent, Idle
  <2> QED
    BY <1>0, <1>6, <1>7, <2>1, KnowsOrWaits
<1>9. AwaitedOk'
  BY <1>0, <1>c, <1>3 DEF IInv, AwaitedOk
<1>10. TurnOk'
  <2> SUFFICES ASSUME NEW k \in DOMAIN wire', wire'[k].op = "turn"
               PROVE  /\ MayBeUnderWay'
                      /\ wire'[k].id = tab.id
                      /\ wire'[k].no = tab.no
                      /\ turns'[tab.id] = None
                      /\ \A l \in DOMAIN wire' : wire'[l].op = "turn" => l = k
    BY <1>c DEF TurnOk
  <2>1. k \in Nat \ {0} /\ k + 1 \in DOMAIN wire /\ wire[k + 1] = wire'[k]
    BY <1>3
  <2>2. /\ MayBeUnderWay /\ wire[k + 1].id = tab.id /\ wire[k + 1].no = tab.no /\ turns[tab.id] = None
        /\ \A l \in DOMAIN wire : wire[l].op = "turn" => l = k + 1
    BY <1>0, <2>1 DEF IInv, TurnOk
  <2>3. m.op # "turn"
    <3>1. m = wire[1] /\ 1 \in DOMAIN wire
      BY <1>0, HeadOk
    <3> QED
      BY <2>1, <2>2, <3>1
  <2>4. tab.id \in Ids
    <3>1. wire[k + 1] \in Message
      BY <1>2, <2>1
    <3> QED
      BY <2>2, <3>1 DEF Message
  <2>5. \A l \in DOMAIN wire' : wire'[l].op = "turn" => l = k
    BY <1>3, <2>1, <2>2
  <2>6. MayBeUnderWay'
    BY <1>c, <2>2 DEF MayBeUnderWay, Idle
  <2> QED
    BY <1>6, <2>1, <2>2, <2>3, <2>4, <2>5, <2>6
<1> QED
  BY <1>1, <1>4, <1>5, <1>8, <1>9, <1>10 DEF IInv

\* An answer that is true of the turns after the step.
Fits(answer) ==
    LET id == Head(wire).id IN
    /\ answer.state \in States \ {None}
    /\ answer.state = "NOT_FOUND" => turns'[id] = None
    /\ answer.state \in Ended => turns'[id] # None /\ turns'[id].phase \in Ended
    /\ ~SessionPerTurn => answer.next = IF answer.state \notin Ended THEN 1
                                        ELSE IF id \in shown THEN tab.no ELSE tab.no + 1

\* A step of the server that the page hears: nothing else is under way.
LEMMA Heard ==
    ASSUME IInv, wire # <<>>, Head(wire).awaited = "yes", MovesTo(Head(wire), turns'),
           NEW answer, Fits(answer), Hear(answer, Head(wire).id),
           wire' = Tail(wire), UNCHANGED <<page, made>>, faults' \in Nat
    PROVE  IInv'
<1> DEFINE m == Head(wire)
<1>0. IInv /\ wire # <<>> /\ page' = page /\ made' = made
  OBVIOUS
<1>1. /\ m = wire[1] /\ 1 \in DOMAIN wire
      /\ m \in Message /\ m.id \in Ids
  BY <1>0, HeadOk DEF Message
<1>2. /\ Len(wire) = 1 /\ tab.sent = "yes" /\ m.op = Request[tab.doing] /\ m.id = tab.id
  BY <1>0, <1>1 DEF IInv, AwaitedOk
<1>3. wire' = <<>>
  <2>1. wire \in Seq(Message)
    BY <1>0 DEF IInv, TypeOK, Message
  <2>2. Tail(wire) \in Seq(Message) /\ Len(Tail(wire)) = 0
    BY <1>0, <1>2, <2>1
  <2> QED
    BY <2>2
<1>4. ~Idle /\ tab.id \in Ids /\ tab.no \in Numbers /\ made \in 0..MaxTurns /\ tab.doing \in Works
  BY <1>0, <1>1, <1>2 DEF IInv, TabOk, TypeOK, Idle
<1>5. /\ tab'.id = tab.id
      /\ tab'.state = answer.state
      /\ tab'.sent = "no"
      /\ tab'.doing = IF tab.doing = "look" /\ answer.state = "NOT_FOUND" THEN "write" ELSE "nothing"
      /\ tab'.no = IF SessionPerTurn THEN tab.no ELSE Higher(tab.no, answer.next)
      /\ tab' = [id |-> tab'.id, no |-> tab'.no, state |-> tab'.state, doing |-> tab'.doing, sent |-> tab'.sent]
      /\ storage' = Saved(tab')
      /\ shown' = IF answer.state \in Ended THEN shown \cup {tab.id} ELSE shown
  BY <1>0, <1>2 DEF Hear, IInv, TypeOK
<1>6. /\ answer.state \in States \ {None}
      /\ answer.state = "NOT_FOUND" => turns'[tab.id] = None
      /\ answer.state \in Ended => turns'[tab.id] # None /\ turns'[tab.id].phase \in Ended
      /\ ~SessionPerTurn => answer.next = IF answer.state \notin Ended THEN 1
                                          ELSE IF tab.id \in shown THEN tab.no ELSE tab.no + 1
  BY <1>2 DEF Fits
<1>7. tab'.no = IF ~SessionPerTurn /\ answer.state \in Ended /\ tab.id \notin shown
                THEN tab.no + 1 ELSE tab.no
  BY <1>4, <1>5, <1>6, Constants DEF Higher, Numbers
<1>8. /\ tab.id \notin shown => tab.no <= made
      /\ tab.id \in shown => tab.no <= made + 1
  BY <1>0, <1>4, Constants DEF IInv, NumberOk
<1>9. tab'.no \in Numbers
  BY <1>4, <1>7, <1>8, Constants DEF Numbers
<1> HIDE DEF m
<1>10. TypeOK'
  <2>1. tab' \in [id : Ids \cup {None}, no : Numbers, state : States,
                  doing : Works \cup {"nothing"}, sent : {"no", "yes"}]
    BY <1>4, <1>5, <1>6, <1>9 DEF Works, Request
  <2>2. storage' \in [id : Ids \cup {None}, no : Numbers]
    BY <1>4, <1>5, <1>9 DEF Saved
  <2>3. shown' \subseteq Ids
    BY <1>0, <1>4, <1>5 DEF IInv, TypeOK
  <2>4. turns' \in [Ids -> [no : Ids, phase : Phases] \cup {None}]
    BY DEF MovesTo, Row, Turn
  <2> QED
    BY <1>0, <1>3, <2>1, <2>2, <2>3, <2>4 DEF IInv, TypeOK
<1>11. Kept' /\ AwaitedOk' /\ TurnOk'
  BY <1>3, <1>5 DEF Kept, AwaitedOk, TurnOk
<1>12. /\ \A i \in Stored : /\ i \in Stored'
                            /\ turns'[i].no = turns[i].no
                            /\ turns[i].phase \in Ended => turns'[i].phase \in Ended
       /\ \A i \in Stored' \ shown : i = tab.id /\ turns'[i].no = tab.no
       /\ \A i \in Stored' : i <= made
  BY <1>0, TurnsFollow
<1>13. HandleOk'
  BY <1>0, <1>5, <1>12 DEF IInv, HandleOk
<1>14. answer.state \in Ended => tab.id \in Stored'
  BY <1>4, <1>6 DEF Stored
<1>15. SeenOk'
  BY <1>0, <1>5, <1>6, <1>12, <1>14 DEF IInv, SeenOk
<1>16. TabOk'
  BY <1>4, <1>5, <1>6, Constants DEF TabOk, Idle
<1>17. AbsentOk'
  BY <1>5, <1>6 DEF AbsentOk, KnowsAbsent, Idle
<1>18. NumberOk'
  <2>1. SessionPerTurn' = SessionPerTurn
    BY <1>0 DEF SessionPerTurn
  <2>2. (tab.no <= IF tab.id = None \/ tab.id \in shown THEN made + 1 ELSE made)'
    BY <1>0, <1>4, <1>5, <1>7, <1>8, Constants DEF Numbers
  <2>3. \A i \in shown : i \in Stored
    BY <1>0 DEF IInv, SeenOk
  <2>4. CASE SessionPerTurn
    <3>1. tab.no = 1 /\ \A i \in Stored : turns[i].no = 1
      BY <1>0, <2>4 DEF IInv, NumberOk
    <3>2. \A i \in Stored' : turns'[i].no = 1
      BY <1>12, <2>3, <3>1
    <3> QED
      BY <1>7, <2>1, <2>2, <2>4, <3>1, <3>2 DEF NumberOk
  <2>5. CASE ~SessionPerTurn
    <3>1. /\ \A i \in shown : turns'[i].no < tab.no
          /\ tab.no = 1 \/ \E i \in shown : turns'[i].no + 1 = tab.no
      BY <1>0, <1>12, <2>3, <2>5 DEF IInv, NumberOk
    <3>2. CASE tab'.no = tab.no /\ shown' = shown
      BY <1>12, <2>1, <2>2, <2>5, <3>1, <3>2 DEF NumberOk
    <3>3. CASE tab'.no = tab.no + 1 /\ shown' = shown \cup {tab.id} /\ tab.id \notin shown /\ tab.id \in Stored'
      <4>1. turns'[tab.id].no = tab.no
        BY <1>12, <3>3
      <4>2. tab.no \in Nat /\ \A i \in shown : turns'[i].no \in Nat
        BY <1>0, <1>4, <1>12, <2>3, Constants DEF Numbers, IInv, TypeOK, Stored, Ids
      <4>3. \A i \in shown' : turns'[i].no < tab'.no
        BY <3>1, <3>3, <4>1, <4>2
      <4>4. \E i \in shown' : turns'[i].no + 1 = tab'.no
        BY <3>3, <4>1
      <4>5. Stored' \ shown' = {}
        BY <1>12, <3>3
      <4> QED
        BY <2>1, <2>2, <2>5, <4>3, <4>4, <4>5 DEF NumberOk
    <3>4. CASE tab'.no = tab.no /\ shown' = shown \cup {tab.id} /\ tab.id \in shown
      BY <3>2, <3>4
    <3> QED
      BY <1>5, <1>7, <1>14, <2>5, <3>2, <3>3, <3>4
  <2> QED
    BY <2>4, <2>5
<1> QED
  BY <1>10, <1>11, <1>13, <1>15, <1>16, <1>17, <1>18 DEF IInv

\* Every turn the page has not shown is its own, so the number above those of
\* the session is the page's, or one more if its turn is stored and not shown.
LEMMA NumberOfSession ==
    ASSUME IInv, ~SessionPerTurn, NEW id \in Ids
    PROVE  /\ tab.id \notin Stored => NumberAfter(Session(id)) = tab.no
           /\ tab.id \in Stored => NumberAfter(Session(id)) = IF tab.id \in shown THEN tab.no ELSE tab.no + 1
<1>1. TypeOK /\ Session(id) = Stored
  BY DEF IInv, Session
<1>2. /\ shown \subseteq Stored
      /\ \A i \in Stored \ shown : i = tab.id /\ turns[i].no = tab.no
      /\ \A i \in shown : turns[i].no < tab.no
      /\ tab.no = 1 \/ \E i \in shown : turns[i].no + 1 = tab.no
  BY DEF IInv, SeenOk, NumberOk
<1>3. /\ tab.no \in Nat /\ made \in Nat /\ made <= MaxTurns /\ tab.no \in Numbers
      /\ \A i \in Stored : turns[i].no \in Nat
  BY Constants DEF IInv, TypeOK, Numbers, Stored, Ids
<1>4. CASE Stored = shown
  <2>1. NumberAfter(Stored) = tab.no
    BY <1>1, <1>2, <1>3, <1>4, NumberIs
  <2> QED
    BY <1>1, <1>4, <2>1
<1>5. CASE Stored # shown
  <2>1. tab.id \in Stored /\ tab.id \notin shown
    BY <1>2, <1>5
  <2>2. tab.no <= made
    BY <2>1, Constants DEF IInv, NumberOk, Stored
  <2>3. tab.no + 1 \in Numbers
    BY <1>3, <2>2, Constants DEF Numbers
  <2>4. \A i \in Stored : turns[i].no < tab.no + 1
    BY <1>2, <1>3
  <2>5. \E i \in Stored : turns[i].no + 1 = tab.no + 1
    BY <1>2, <2>1
  <2>6. NumberAfter(Stored) = tab.no + 1
    BY <1>1, <2>3, <2>4, <2>5, NumberIs
  <2> QED
    BY <1>1, <2>1, <2>6
<1> QED
  BY <1>4, <1>5

LEMMA StatusFits ==
    ASSUME IInv, wire # <<>>, Head(wire).awaited = "yes",
           turns' \in [Ids -> Row], Follows(turns', Head(wire).id),
           NEW t, t = turns', t[Head(wire).id] # None => t[Head(wire).id].phase # "crossed"
    PROVE  Fits(Status(t, Head(wire).id))
<1> DEFINE id == Head(wire).id
<1>0. IInv /\ wire # <<>>
  OBVIOUS
<1>1. id \in Ids /\ Head(wire) = wire[1] /\ 1 \in DOMAIN wire
  BY <1>0, HeadOk DEF Message
<1>2. id = tab.id /\ turns' = t
  BY <1>0, <1>1 DEF IInv, AwaitedOk
<1> HIDE DEF id
<1>3. CASE t[id] = None
  <2>1. Status(t, id) = Answer("NOT_FOUND", 1)
    BY <1>3 DEF Status
  <2> QED
    BY <1>2, <1>3, <2>1, Constants DEF Fits, Answer, States, Statuses, Ended, id
<1>4. CASE t[id] # None
  <2>1. t[id].phase \in Phases /\ t[id].phase # "crossed"
    BY <1>1, <1>2, <1>4 DEF Row, Turn, id
  <2>2. ASSUME Status(t, id) \in {Answer("ASKED", 1), Answer("AWAIT", 1), Error}
        PROVE  Fits(Status(t, id))
    BY <2>2, Constants DEF Fits, Answer, Error, States, Statuses, Ended, id
  <2>3. CASE t[id].phase \notin Ended
    <3>1. Status(t, id) = Answer("ASKED", 1) \/ Status(t, id) = Answer("AWAIT", 1)
      BY <1>4, <2>1, <2>3 DEF Status, Phases
    <3> QED
      BY <2>2, <3>1 DEF id
  <2>4. CASE page = "human" /\ t[id].phase = "unsure"
    <3>1. Status(t, id) = Error
      BY <1>4, <2>4 DEF Status
    <3> QED
      BY <2>2, <3>1 DEF id
  <2>5. CASE t[id].phase \in Ended /\ ~(page = "human" /\ t[id].phase = "unsure")
    <3>1. Status(t, id) = Answer(t[id].phase, NumberAfter(Session(id)))
      BY <1>4, <2>5 DEF Status, Ended
    <3>2. tab.id \in Stored
      BY <1>1, <1>2, <1>4 DEF Follows, Stored, id
    <3>3. ~SessionPerTurn => NumberAfter(Session(id)) = IF tab.id \in shown THEN tab.no ELSE tab.no + 1
      BY <1>0, <1>1, <3>2, NumberOfSession
    <3>4. t[id].phase \in States \ {None} /\ t[id].phase # "NOT_FOUND"
      BY <2>5, Constants DEF States, Statuses, Ended
    <3> QED
      BY <1>2, <1>4, <2>5, <3>1, <3>3, <3>4 DEF Fits, Answer, id
  <2> QED
    BY <2>3, <2>4, <2>5 DEF id
<1> QED
  BY <1>3, <1>4 DEF id

\* What a request finds of its own turn never stands as crossed.
LEMMA OpenedEnds ==
    ASSUME TypeOK, NEW id \in Ids, NEW t \in Opened(id), t[id] # None
    PROVE  t[id].phase # "crossed"
<1> DEFINE r == Recovered(id)
<1>1. r[id] # None => r[id].phase # "crossed"
  <2>1. CASE r[id] = turns[id]
    <3>1. SUFFICES ASSUME turns[id] # None, turns[id].phase = "crossed"
                   PROVE  r[id].phase # "crossed"
      BY <2>1
    <3>2. turns[id] \in Turn
      BY <3>1 DEF TypeOK, Turn
    <3>3. r[id] = [turns[id] EXCEPT !.phase = IF page \in {"models", "human"} THEN "unsure" ELSE "closed"]
      BY <3>1 DEF Recovered
    <3> QED
      BY <3>2, <3>3 DEF Turn
  <2>2. CASE r[id] # turns[id]
    <3>1. turns[id] # None
      BY <2>2 DEF Recovered
    <3>2. turns[id] \in Turn
      BY <3>1 DEF TypeOK, Turn
    <3>3. r[id] = [turns[id] EXCEPT !.phase = IF page \in {"models", "human"} THEN "unsure" ELSE "closed"]
      BY <2>2 DEF Recovered
    <3> QED
      BY <3>2, <3>3 DEF Turn
  <2> QED
    BY <2>1, <2>2
<1>2. CASE t = r
  BY <1>1, <1>2
<1>3. CASE t # r
  <2>1. PICK p \in Ended : t = [r EXCEPT ![id].phase = p] /\ r[id] # None /\ r[id].phase \in Undecided
    BY <1>3 DEF Opened
  <2>2. r \in [Ids -> Row]
    BY OpenedFollows, <2>1, <1>3 DEF Opened, Recovered, TypeOK, Row, Turn, Phases, Ended
  <2>3. r[id] \in Turn
    BY <2>1, <2>2 DEF Row
  <2>4. t[id].phase = p
    BY <2>1, <2>2, <2>3 DEF Turn
  <2> QED
    BY <2>4 DEF Ended
<1> QED
  BY <1>2, <1>3

LEMMA Replied ==
    ASSUME IInv, wire # <<>>, MovesTo(Head(wire), turns'),
           NEW answer, Head(wire).awaited = "yes" => Fits(answer), Reply(Head(wire), answer)
    PROVE  IInv'
<1>0. /\ IInv /\ wire # <<>> /\ MovesTo(Head(wire), turns')
      /\ wire' = Tail(wire) /\ page' = page /\ made' = made
  BY DEF Reply
<1>1. faults' \in Nat
  BY DEF Reply, Faulty, IInv, TypeOK
<1>2. CASE Head(wire).awaited = "yes" /\ Hear(answer, Head(wire).id)
  BY <1>0, <1>1, <1>2, Heard
<1>3. CASE UNCHANGED <<storage, tab, shown>>
  BY <1>0, <1>1, <1>3, Unheard DEF client
<1> QED
  BY <1>2, <1>3 DEF Reply

LEMMA ErrorFits == Fits(Error)
BY Constants DEF Fits, Error, Answer, States, Statuses, Ended

LEMMA ServeKeeps ==
    ASSUME IInv, Serve
    PROVE  IInv'
<1> DEFINE m == Head(wire)
<1>0. IInv /\ TypeOK /\ wire # <<>> /\ MovesTo(m, turns')
  BY ServedMoves DEF IInv
<1>1. /\ m \in Message /\ m.id \in Ids /\ m = wire[1] /\ 1 \in DOMAIN wire
      /\ m.op = "turn" => /\ m.id = tab.id /\ m.no = tab.no
                          /\ turns[tab.id] = None /\ m.no \in Ids
  BY <1>0, HeadOk DEF Message
<1>2. turns' \in [Ids -> Row]
  BY <1>0 DEF MovesTo
<1>3. ASSUME NEW t \in Opened(m.id), turns' = t
      PROVE  m.awaited = "yes" => Fits(Status(t, m.id))
  <2>1. Follows(turns', m.id) /\ (t[m.id] # None => t[m.id].phase # "crossed")
    BY <1>0, <1>1, <1>3, OpenedFollows, OpenedEnds
  <2> QED
    BY <1>0, <1>2, <1>3, <2>1, StatusFits
<1> HIDE DEF m
<1>4. CASE ServeObserve
  BY <1>0, <1>3, <1>4, Replied DEF ServeObserve, m
<1>5. CASE ServeTurn
  <2>1. PICK t \in Opened(m.id) :
          \/ turns' = t /\ Reply(m, Error)
          \/ turns' = t /\ Reply(m, Status(t, m.id))
          \/ \E phase \in First :
                /\ turns' = Taken(m, t, phase)
                /\ Reply(m, Answer(IF phase = "asked" THEN "ASKED" ELSE phase, m.no + 1))
    BY <1>5 DEF ServeTurn, m
  <2>2. CASE Reply(m, Error)
    BY <1>0, <2>2, ErrorFits, Replied DEF m
  <2>3. CASE turns' = t /\ Reply(m, Status(t, m.id))
    BY <1>0, <1>3, <2>3, Replied DEF m
  <2>4. ASSUME NEW phase \in First, turns' = Taken(m, t, phase),
               Reply(m, Answer(IF phase = "asked" THEN "ASKED" ELSE phase, m.no + 1))
        PROVE  IInv'
    <3>1. m.op = "turn"
      BY <1>5 DEF ServeTurn, Arrived, m
    <3>2. tab.id \notin shown
      BY <1>0, <1>1, <3>1 DEF IInv, SeenOk, Stored
    <3>3. t \in [Ids -> Row]
      BY <1>0, <1>1, OpenedFollows
    <3>4. turns'[m.id] = [no |-> m.no, phase |-> phase]
      BY <1>1, <2>4, <3>3 DEF Taken
    <3>5. turns'[m.id] # None
      BY <1>1, <3>1, <3>4, Constants DEF Turn, First, Ends, Phases, Ended
    <3>6. phase = "asked" => SessionPerTurn
      BY DEF First, Ends, Ended, SessionPerTurn
    <3>7. phase # "asked" => phase \in Ended
      BY DEF First, Ends, Ended
    <3>8. Fits(Answer(IF phase = "asked" THEN "ASKED" ELSE phase, m.no + 1))
      <4>1. CASE phase = "asked"
        BY <3>6, <4>1, Constants DEF Fits, Answer, States, Statuses, Ended
      <4>2. CASE phase # "asked"
        BY <1>1, <3>1, <3>2, <3>4, <3>5, <3>7, <4>2, Constants DEF Fits, Answer, States, Statuses, Ended, m
      <4> QED
        BY <4>1, <4>2
    <3> QED
      BY <1>0, <2>4, <3>8, Replied DEF m
  <2> QED
    BY <2>1, <2>2, <2>3, <2>4
<1>6. CASE ServeHandle
  <2>1. PICK t \in Opened(m.id) :
          \/ Reply(m, Error)
          \/ /\ t[m.id] # None
             /\ \E phase \in Outcomes(m.op, t[m.id].phase) :
                   /\ turns' = Moved(m, t, phase)
                   /\ Reply(m, Status(turns', m.id))
    BY <1>6 DEF ServeHandle, m
  <2>2. CASE Reply(m, Error)
    BY <1>0, <2>2, ErrorFits, Replied DEF m
  <2>3. ASSUME t[m.id] # None, NEW phase \in Outcomes(m.op, t[m.id].phase),
               turns' = Moved(m, t, phase), Reply(m, Status(turns', m.id))
        PROVE  IInv'
    <3>1. t \in [Ids -> Row] /\ t[m.id] \in Turn /\ t[m.id].phase # "crossed"
      BY <1>0, <1>1, <2>3, OpenedFollows, OpenedEnds DEF Row
    <3>2. phase \in Phases /\ (t[m.id].phase \in Ended => phase \in Ended)
      BY <2>3, <3>1, OutcomesOk DEF Turn
    <3>3. phase # "crossed"
      BY <2>3, <3>1 DEF Outcomes, Ends, Ended
    <3>4. Follows(turns', m.id)
      BY <1>0, <1>1, <2>3, <3>2, MovedFollows
    <3>5. turns'[m.id].phase = phase
      BY <1>1, <2>3, <3>1 DEF Moved, Turn
    <3>6. m.awaited = "yes" => Fits(Status(turns', m.id))
      BY <1>0, <1>2, <3>3, <3>4, <3>5, StatusFits DEF m
    <3> QED
      BY <1>0, <2>3, <3>6, Replied DEF m
  <2> QED
    BY <2>1, <2>2, <2>3
<1> QED
  BY <1>4, <1>5, <1>6 DEF Serve

LEMMA FailingServerKeeps ==
    ASSUME IInv, Reject \/ Cut \/ Exit
    PROVE  IInv'
<1>0. IInv /\ TypeOK /\ wire # <<>>
  BY DEF Reject, Cut, Exit, Arrived, IInv
<1>1. faults' \in Nat
  BY <1>0 DEF Reject, Cut, Exit, Faulty, TypeOK
<1>2. turns' = turns => MovesTo(Head(wire), turns')
  BY <1>0 DEF MovesTo, Follows, TypeOK, Row, Turn
<1>3. CASE Reject
  <2>1. CASE Head(wire).awaited = "yes"
    BY <1>0, <1>1, <1>2, <1>3, <2>1, ErrorFits, Heard DEF Reject
  <2>2. CASE Head(wire).awaited # "yes"
    BY <1>0, <1>1, <1>2, <1>3, <2>2, Unheard DEF Reject, client
  <2> QED
    BY <2>1, <2>2
<1>4. CASE Cut
  <2>1. MovesTo(Head(wire), turns')
    BY <1>0, <1>4, ServedMoves
  <2> QED
    BY <1>0, <1>1, <1>4, <2>1, Unheard DEF Cut
<1>5. CASE Exit
  BY <1>0, <1>1, <1>2, <1>5, Unheard DEF Exit
<1> QED
  BY <1>3, <1>4, <1>5

----------------------------------------------------------------------------
\* The user and the script.

\* Between its calls the page has no answer to wait for.
LEMMA NothingAwaited ==
    ASSUME IInv, tab.sent = "no"
    PROVE  \A k \in DOMAIN wire : wire[k].awaited # "yes"
BY DEF IInv, AwaitedOk

\* A page that is not waiting for its turn has sent none that is still queued.
LEMMA NothingAsked ==
    ASSUME IInv, tab.id = None \/ ~MayBeUnderWay
    PROVE  \A k \in DOMAIN wire : wire[k].op # "turn"
<1>1. \A k \in DOMAIN wire : wire[k].id \in Ids
  <2>1. wire \in Seq(Message)
    BY DEF IInv, TypeOK, Message
  <2>2. \A k \in DOMAIN wire : wire[k] \in Message
    BY <2>1
  <2> QED
    BY <2>2 DEF Message
<1> QED
  BY <1>1, Constants DEF IInv, TurnOk

\* Where the page lets go of its handle, it has shown the end of every turn.
LEMMA NothingUnseen ==
    ASSUME IInv, Idle, tab.id = None \/ tab.state \in Droppable
    PROVE  Stored = shown
<1>1. \A i \in Stored \ shown : i = tab.id
  BY DEF IInv, SeenOk
<1>2. tab.id # None => tab.id \in shown \/ turns[tab.id] = None
  BY DEF IInv, TabOk, AbsentOk, KnowsAbsent, Droppable
<1>3. tab.id \notin Stored \ shown
  BY <1>2, Constants DEF Stored
<1> QED
  BY <1>1, <1>3 DEF IInv, SeenOk

LEMMA SendKeeps ==
    ASSUME IInv, Send
    PROVE  IInv'
<1>1. /\ ~Idle /\ tab.sent = "no" /\ tab.id \in Ids /\ tab.no \in Numbers /\ tab.doing \in Works
      /\ TypeOK /\ wire \in Seq(Message)
  BY Constants DEF Send, IInv, TypeOK, TabOk, Idle, Message
<1>2. /\ tab' = [id |-> tab.id, no |-> tab.no, state |-> tab.state, doing |-> tab.doing, sent |-> "yes"]
      /\ UNCHANGED <<page, storage, made, shown, turns>>
  BY <1>1 DEF Send, TypeOK
<1> DEFINE m == [op |-> Request[tab.doing], id |-> tab.id, no |-> tab.no, awaited |-> "yes"]
<1>3. \/ wire' = Append(wire, m) /\ faults' = faults
      \/ wire' = wire /\ faults' = faults + 1
  BY DEF Send, Faulty
<1>4. m \in Message
  BY <1>1 DEF Message, Request, Ops, Works
<1>5. \A k \in DOMAIN wire : wire[k].awaited # "yes"
  BY <1>1, NothingAwaited
<1>6. wire' \in Seq(Message) /\ faults' \in Nat
  <2> HIDE DEF m
  <2>1. faults \in Nat
    BY <1>1 DEF TypeOK
  <2> QED
    BY <1>1, <1>3, <1>4, <2>1
<1>7. \A k \in DOMAIN wire' : \/ k \in DOMAIN wire /\ wire'[k] = wire[k]
                              \/ k = Len(wire') /\ wire'[k] = m
  BY <1>1, <1>3
<1>8. TypeOK'
  BY <1>1, <1>2, <1>6 DEF TypeOK, Message
<1>9. Kept' /\ HandleOk' /\ SeenOk' /\ NumberOk'
  BY <1>2 DEF IInv, Kept, Saved, HandleOk, SeenOk, NumberOk, Stored, SessionPerTurn
<1>10. TabOk' /\ AbsentOk'
  BY <1>1, <1>2 DEF IInv, TabOk, AbsentOk, KnowsAbsent, Idle
<1>11. AwaitedOk'
  BY <1>2, <1>5, <1>7 DEF AwaitedOk
<1>12. TurnOk'
  <2>1. CASE tab.doing = "write"
    <3>1. turns[tab.id] = None
      BY <1>1, <2>1 DEF IInv, AbsentOk, KnowsAbsent
    <3>2. \A k \in DOMAIN wire : wire[k].op # "turn"
      BY <1>1, <2>1, NothingAsked DEF MayBeUnderWay, Idle
    <3>3. MayBeUnderWay'
      BY <1>2, <2>1 DEF MayBeUnderWay
    <3> QED
      BY <1>2, <1>7, <3>1, <3>2, <3>3 DEF TurnOk
  <2>2. CASE tab.doing # "write"
    <3>1. m.op # "turn"
      BY <1>1, <2>2 DEF Request, Works
    <3>2. MayBeUnderWay => MayBeUnderWay'
      BY <1>1, <1>2 DEF MayBeUnderWay, Idle
    <3> HIDE DEF m
    <3> QED
      BY <1>2, <1>7, <3>1, <3>2 DEF IInv, TurnOk
  <2> QED
    BY <2>1, <2>2
<1> QED
  BY <1>8, <1>9, <1>10, <1>11, <1>12 DEF IInv

\* Giving up on answers: the queue stays, and nobody waits for it.
LEMMA DesertedOk ==
    ASSUME IInv, wire' = Deserted
    PROVE  /\ wire' \in Seq(Message) /\ DOMAIN wire' = DOMAIN wire
           /\ \A k \in DOMAIN wire : /\ wire'[k].op = wire[k].op
                                     /\ wire'[k].id = wire[k].id
                                     /\ wire'[k].no = wire[k].no
                                     /\ wire'[k].awaited = "no"
<1>1. wire \in Seq(Message) /\ \A k \in DOMAIN wire : wire[k] \in Message
  <2>1. wire \in Seq(Message)
    BY DEF IInv, TypeOK, Message
  <2> QED
    BY <2>1
<1>2. ASSUME NEW k \in DOMAIN wire
      PROVE  /\ wire'[k] \in Message
             /\ wire'[k].op = wire[k].op /\ wire'[k].id = wire[k].id
             /\ wire'[k].no = wire[k].no /\ wire'[k].awaited = "no"
  <2>1. wire'[k] = [wire[k] EXCEPT !.awaited = "no"] /\ wire[k] \in Message
    BY <1>1 DEF Deserted
  <2> QED
    BY <2>1 DEF Message
<1>3. wire' = [k \in 1..Len(wire) |-> wire'[k]] /\ DOMAIN wire' = DOMAIN wire
  BY <1>1 DEF Deserted
<1>4. wire' \in Seq(Message)
  BY <1>1, <1>2, <1>3
<1> QED
  BY <1>2, <1>3, <1>4

\* The page gives up on its answer, or is loaded anew.
LEMMA DesertionKeeps ==
    ASSUME IInv, Fail \/ Load
    PROVE  IInv'
<1>0. IInv /\ TypeOK
  BY DEF IInv
<1>1. /\ UNCHANGED <<page, storage, made, shown, turns>>
      /\ wire' = Deserted /\ faults' \in Nat
  BY <1>0 DEF Fail, Load, Faulty, TypeOK
<1>2. /\ tab'.id = tab.id /\ tab'.no = tab.no /\ tab'.sent = "no"
      /\ tab' = [id |-> tab'.id, no |-> tab'.no, state |-> tab'.state, doing |-> tab'.doing, sent |-> tab'.sent]
      /\ \/ tab'.doing = "nothing" /\ tab'.state = "UNKNOWN" /\ tab.id # None
         \/ tab'.doing = "check" /\ tab'.state = None /\ tab.id # None
         \/ tab'.doing = "nothing" /\ tab'.state = None /\ tab.id = None
  <2>1. CASE Fail
    BY <1>0, <2>1 DEF Fail, Start, TypeOK, IInv, TabOk, Idle
  <2>2. CASE Load
    <3>1. storage.id = tab.id /\ storage.no = tab.no
      BY <1>0 DEF IInv, Kept, Saved
    <3> QED
      BY <2>2, <3>1 DEF Load
  <2> QED
    BY <2>1, <2>2
<1>3. /\ wire' \in Seq(Message) /\ DOMAIN wire' = DOMAIN wire
      /\ \A k \in DOMAIN wire : /\ wire'[k].op = wire[k].op
                                /\ wire'[k].id = wire[k].id
                                /\ wire'[k].no = wire[k].no
                                /\ wire'[k].awaited = "no"
  BY <1>0, <1>1, DesertedOk
<1>4. TypeOK'
  <2>1. tab' \in [id : Ids \cup {None}, no : Numbers, state : States,
                  doing : Works \cup {"nothing"}, sent : {"no", "yes"}]
    BY <1>0, <1>2 DEF TypeOK, States, Statuses, Works, Request
  <2> QED
    BY <1>0, <1>1, <1>3, <2>1 DEF TypeOK, Message
<1>5. Kept' /\ HandleOk' /\ SeenOk' /\ NumberOk'
  BY <1>0, <1>1, <1>2 DEF IInv, Kept, Saved, HandleOk, SeenOk, NumberOk, Stored, SessionPerTurn
<1>6. TabOk' /\ AbsentOk'
  BY <1>2, Constants DEF TabOk, AbsentOk, KnowsAbsent, Idle, Statuses, Ended
<1>7. AwaitedOk'
  BY <1>3 DEF AwaitedOk
<1>8. TurnOk'
  <2>1. CASE tab.id = None
    <3>1. \A k \in DOMAIN wire : wire[k].op # "turn"
      BY <1>0, <2>1, NothingAsked
    <3> QED
      BY <1>3, <3>1 DEF TurnOk
  <2>2. CASE tab.id # None
    <3>1. MayBeUnderWay'
      BY <1>2, <2>2 DEF MayBeUnderWay, Idle
    <3> QED
      BY <1>0, <1>1, <1>2, <1>3, <3>1 DEF IInv, TurnOk
  <2> QED
    BY <2>1, <2>2
<1> QED
  BY <1>4, <1>5, <1>6, <1>7, <1>8 DEF IInv

\* A new handle, on a page that is done with the one before.
LEMMA HandleKeeps ==
    ASSUME IInv, Idle, tab.id = None \/ tab.state \in Droppable, made < MaxTurns,
           made' = made + 1, UNCHANGED <<page, shown, wire, turns, faults>>,
           tab'.id = made + 1, tab'.no = tab.no, tab'.doing = "write", tab'.sent = "no",
           tab'.state \in States, storage' = Saved(tab'),
           tab' = [id |-> tab'.id, no |-> tab'.no, state |-> tab'.state, doing |-> tab'.doing, sent |-> tab'.sent]
    PROVE  IInv'
<1>0. IInv /\ TypeOK /\ Idle
  BY DEF IInv
<1>1. made \in Nat /\ made + 1 \in Ids /\ tab.no \in Numbers /\ tab.sent = "no"
  BY <1>0, Constants DEF TypeOK, Ids, IInv, TabOk
<1>2. Stored = shown /\ made + 1 \notin Stored
  BY <1>0, <1>1, NothingUnseen DEF IInv, HandleOk
<1>3. \A k \in DOMAIN wire : wire[k].op # "turn" /\ wire[k].awaited # "yes"
  <2>1. tab.id = None \/ ~MayBeUnderWay
    BY <1>0, Constants DEF MayBeUnderWay, Droppable, Ended, Idle, Statuses
  <2> QED
    BY <1>0, <1>1, <2>1, NothingAsked, NothingAwaited
<1>4. TypeOK'
  <2>1. tab' \in [id : Ids \cup {None}, no : Numbers, state : States,
                  doing : Works \cup {"nothing"}, sent : {"no", "yes"}]
    BY <1>1 DEF Works, Request
  <2>2. storage' \in [id : Ids \cup {None}, no : Numbers]
    BY <1>1 DEF Saved
  <2>3. made' \in 0..MaxTurns
    BY <1>1, Constants
  <2> QED
    BY <1>0, <2>1, <2>2, <2>3 DEF TypeOK
<1>5. Kept' /\ AwaitedOk' /\ TurnOk'
  BY <1>3 DEF Kept, AwaitedOk, TurnOk
<1>6. HandleOk' /\ SeenOk' /\ AbsentOk' /\ TabOk'
  BY <1>0, <1>1, <1>2, Constants DEF IInv, HandleOk, SeenOk, AbsentOk, TabOk, KnowsAbsent, Idle, Stored, Ids
<1>7. NumberOk'
  <2>1. tab.no <= made + 1
    BY <1>0, <1>1, Constants DEF IInv, NumberOk, Numbers
  <2> QED
    BY <1>0, <1>1, <1>2, <2>1, Constants DEF IInv, NumberOk, Stored, SessionPerTurn
<1> QED
  BY <1>4, <1>5, <1>6, <1>7 DEF IInv

\* The buttons.
LEMMA FormKeeps ==
    ASSUME IInv, Submit \/ Switch
    PROVE  IInv'
<1>0. IInv /\ TypeOK /\ Idle /\ tab \in [id : Ids \cup {None}, no : Numbers, state : States,
                                         doing : Works \cup {"nothing"}, sent : {"no", "yes"}]
  BY DEF Submit, Switch, IInv, TypeOK
<1>1. CASE Submit /\ tab.id = None
  <2>1. /\ made < MaxTurns /\ made' = made + 1 /\ storage' = Saved(tab')
        /\ UNCHANGED <<page, shown, wire, turns, faults>>
        /\ tab' = [Start("write") EXCEPT !.id = made + 1]
    BY <1>1 DEF Submit, NewHandle
  <2>2. tab' = [id |-> made + 1, no |-> tab.no, state |-> tab.state, doing |-> "write", sent |-> "no"]
    BY <1>0, <2>1 DEF Start
  <2>3. tab.state \in States
    BY <1>0
  <2> QED
    BY <1>0, <1>1, <2>1, <2>2, <2>3, HandleKeeps
<1>2. CASE Submit /\ tab.id # None
  <2>1. /\ tab.state = "NOT_FOUND" /\ tab' = Start("look")
        /\ UNCHANGED <<page, storage, made, shown, wire, turns, faults>>
    BY <1>2 DEF Submit
  <2>2. tab' = [id |-> tab.id, no |-> tab.no, state |-> tab.state, doing |-> "look", sent |-> "no"]
    BY <1>0, <2>1 DEF Start
  <2>3. turns[tab.id] = None /\ tab.sent = "no"
    BY <1>0, <1>2, <2>1 DEF IInv, AbsentOk, KnowsAbsent, Idle, TabOk
  <2>4. \A k \in DOMAIN wire : wire[k].op # "turn" /\ wire[k].awaited # "yes"
    BY <1>0, <2>1, <2>3, NothingAsked, NothingAwaited DEF MayBeUnderWay, Idle
  <2>5. TypeOK'
    BY <1>0, <2>1, <2>2 DEF TypeOK, Works, Request
  <2>6. Kept' /\ HandleOk' /\ SeenOk' /\ NumberOk'
    BY <1>0, <2>1, <2>2 DEF IInv, Kept, Saved, HandleOk, SeenOk, NumberOk, Stored, SessionPerTurn
  <2>7. TabOk' /\ AbsentOk' /\ AwaitedOk' /\ TurnOk'
    BY <1>2, <2>1, <2>2, <2>3, <2>4 DEF TabOk, AbsentOk, AwaitedOk, TurnOk, Idle
  <2> QED
    BY <2>5, <2>6, <2>7 DEF IInv
<1>3. CASE Switch
  <2>1. /\ made < MaxTurns /\ made' = made + 1 /\ storage' = Saved(tab')
        /\ tab.state \in Droppable
        /\ UNCHANGED <<page, shown, wire, turns, faults>>
        /\ tab' = [Start("write") EXCEPT !.id = made + 1, !.state = None]
    BY <1>3 DEF Switch
  <2>2. tab' = [id |-> made + 1, no |-> tab.no, state |-> None, doing |-> "write", sent |-> "no"]
    BY <1>0, <2>1 DEF Start
  <2>3. /\ tab'.id = made + 1 /\ tab'.no = tab.no /\ tab'.doing = "write" /\ tab'.sent = "no"
        /\ tab'.state \in States
        /\ tab' = [id |-> tab'.id, no |-> tab'.no, state |-> tab'.state, doing |-> tab'.doing, sent |-> tab'.sent]
    BY <2>2 DEF States
  <2>4. tab.id = None \/ tab.state \in Droppable
    BY <2>1
  <2> QED
    BY <1>0, <2>1, <2>3, <2>4, HandleKeeps
<1> QED
  BY <1>1, <1>2, <1>3

LEMMA NewTurnKeeps ==
    ASSUME IInv, NewTurn
    PROVE  IInv'
<1>0. /\ IInv /\ TypeOK /\ Idle /\ tab.id # None /\ tab.state \in Droppable /\ tab.sent = "no"
      /\ tab.no \in Numbers /\ tab.id \in Ids
  BY DEF NewTurn, IInv, TypeOK, TabOk
<1>1. /\ UNCHANGED <<page, made, shown, wire, turns, faults>>
      /\ tab' = [id |-> None, no |-> tab.no, state |-> None, doing |-> "nothing", sent |-> "no"]
      /\ storage' = Saved(tab')
  BY <1>0 DEF NewTurn, TypeOK, Idle
<1>2. Stored = shown
  BY <1>0, NothingUnseen
<1>3. \A k \in DOMAIN wire : wire[k].op # "turn" /\ wire[k].awaited # "yes"
  <2>1. ~MayBeUnderWay
    BY <1>0, Constants DEF MayBeUnderWay, Droppable, Ended, Idle, Statuses
  <2> QED
    BY <1>0, <2>1, NothingAsked, NothingAwaited
<1>4. TypeOK'
  BY <1>0, <1>1 DEF TypeOK, Saved, States
<1>5. Kept' /\ HandleOk' /\ SeenOk' /\ TabOk'
  BY <1>0, <1>1, <1>2 DEF IInv, Kept, HandleOk, SeenOk, TabOk, Stored, Idle
<1>6. AbsentOk' /\ AwaitedOk' /\ TurnOk'
  BY <1>1, <1>3 DEF AbsentOk, KnowsAbsent, AwaitedOk, TurnOk, Idle
<1>7. NumberOk'
  <2>1. tab.no <= made + 1
    BY <1>0, Constants DEF IInv, NumberOk, TypeOK, Numbers
  <2> QED
    BY <1>0, <1>1, <1>2, <2>1 DEF IInv, NumberOk, Stored, SessionPerTurn
<1> QED
  BY <1>4, <1>5, <1>6, <1>7 DEF IInv

\* A question about the turn the page holds.
LEMMA AskKeeps ==
    ASSUME IInv, Resume \/ Decide
    PROVE  IInv'
<1>0. /\ IInv /\ TypeOK /\ Idle /\ tab.sent = "no" /\ tab.no \in Numbers /\ tab.state \in States
  BY DEF Resume, Decide, IInv, TypeOK, TabOk
<1>1. /\ UNCHANGED <<page, storage, made, shown, wire, turns, faults>>
      /\ \E work \in {"check", "resume", "respond", "cancel"} :
            /\ tab' = Start(work)
            /\ tab.state = "UNKNOWN" => work = "check"
      /\ tab.id \in Ids
  <2>1. CASE Resume
    BY <1>0, <2>1 DEF Resume, TypeOK
  <2>2. CASE Decide
    <3>1. tab.state \in {"ASKED", "AWAIT"} /\ page = "human"
      BY <2>2 DEF Decide
    <3>2. tab.state # "UNKNOWN" /\ tab.id \in Ids
      BY <1>0, <3>1, Constants DEF IInv, TabOk, TypeOK, Statuses
    <3> QED
      BY <2>2, <3>2 DEF Decide
  <2> QED
    BY <2>1, <2>2
<1>2. PICK work \in {"check", "resume", "respond", "cancel"} :
            /\ tab' = [id |-> tab.id, no |-> tab.no, state |-> tab.state, doing |-> work, sent |-> "no"]
            /\ tab.state = "UNKNOWN" => work = "check"
  BY <1>0, <1>1 DEF Start, TypeOK
<1>3. TypeOK'
  BY <1>0, <1>1, <1>2 DEF TypeOK, Works, Request
<1>4. Kept' /\ HandleOk' /\ SeenOk' /\ NumberOk'
  BY <1>0, <1>1, <1>2 DEF IInv, Kept, Saved, HandleOk, SeenOk, NumberOk, Stored, SessionPerTurn
<1>5. TabOk' /\ AbsentOk'
  BY <1>1, <1>2, Constants DEF TabOk, AbsentOk, KnowsAbsent, Idle
<1>6. AwaitedOk'
  BY <1>0, <1>1, NothingAwaited DEF AwaitedOk
<1>7. TurnOk'
  <2>1. MayBeUnderWay => MayBeUnderWay'
    BY <1>0, <1>2 DEF MayBeUnderWay, Idle
  <2> QED
    BY <1>0, <1>1, <1>2, <2>1 DEF IInv, TurnOk
<1> QED
  BY <1>3, <1>4, <1>5, <1>6, <1>7 DEF IInv

----------------------------------------------------------------------------
\* The invariant.

LEMMA InitOk == Init => IInv
<1> SUFFICES ASSUME Init PROVE IInv
  OBVIOUS
<1>1. Stored = {} /\ wire = <<>> /\ shown = {} /\ made = 0 /\ page \in Pages
  BY DEF Init, Stored
<1>2. tab = [id |-> None, no |-> 1, state |-> None, doing |-> "nothing", sent |-> "no"]
      /\ storage = [id |-> None, no |-> 1]
  BY DEF Init
<1>3. TypeOK
  <2>1. 1 \in Numbers /\ None \in States /\ 0 \in 0..MaxTurns
    BY Constants DEF Numbers, States
  <2>2. turns \in [Ids -> [no : Ids, phase : Phases] \cup {None}] /\ faults \in Nat
    BY DEF Init
  <2>3. wire \in Seq([op : Ops, id : Ids, no : Numbers, awaited : {"no", "yes"}])
    BY <1>1
  <2> QED
    BY <1>1, <1>2, <2>1, <2>2, <2>3 DEF TypeOK
<1>4. Kept /\ HandleOk /\ SeenOk
  BY <1>1, <1>2 DEF Kept, Saved, HandleOk, SeenOk
<1>5. TabOk /\ AbsentOk /\ AwaitedOk /\ TurnOk
  BY <1>1, <1>2 DEF TabOk, AbsentOk, KnowsAbsent, AwaitedOk, TurnOk, Idle
<1>6. NumberOk
  BY <1>1, <1>2 DEF NumberOk
<1> QED
  BY <1>3, <1>4, <1>5, <1>6 DEF IInv

LEMMA StutterKeeps ==
    ASSUME IInv, UNCHANGED vars
    PROVE  IInv'
BY DEF vars, client, IInv, TypeOK, Kept, Saved, HandleOk, SeenOk, TabOk, AbsentOk, AwaitedOk,
       TurnOk, NumberOk, Stored, Idle, KnowsAbsent, MayBeUnderWay, SessionPerTurn

LEMMA NextKeeps == IInv /\ [Next]_vars => IInv'
<1> SUFFICES ASSUME IInv, [Next]_vars PROVE IInv'
  OBVIOUS
<1>1. CASE User
  BY <1>1, FormKeeps, NewTurnKeeps, AskKeeps, DesertionKeeps DEF User
<1>2. CASE Send \/ Fail
  BY <1>2, SendKeeps, DesertionKeeps
<1>3. CASE Server
  BY <1>3, ServeKeeps, FailingServerKeeps DEF Server
<1>4. CASE UNCHANGED vars
  BY <1>4, StutterKeeps
<1> QED
  BY <1>1, <1>2, <1>3, <1>4 DEF Next

LEMMA InvariantHolds == Spec => []IInv
BY InitOk, NextKeeps, PTL DEF Spec

\* Every variable stays in its range, whatever the page, the number of turns
\* and of faults (shell.py).
THEOREM TypeCorrect == Spec => []TypeOK
<1>1. IInv => TypeOK
  BY DEF IInv
<1> QED
  BY <1>1, InvariantHolds, PTL

\* The journal holds no turn whose end the page has not shown, but the one
\* whose handle is in storage: no turn is lost from sight or orphaned.
THEOREM UnseenHeldHolds == Spec => []UnseenIsHeld
<1>1. IInv => UnseenIsHeld
  BY DEF IInv, SeenOk, Kept, Saved, UnseenIsHeld
<1> QED
  BY <1>1, InvariantHolds, PTL

\* A turn the server comes to is new to its journal, has the next number and
\* finds no other turn waiting.
LEMMA TurnFits ==
    ASSUME IInv, NEW k \in DOMAIN wire, wire[k].op = "turn"
    PROVE  ~Refused(wire[k], Recovered(wire[k].id))
<1> DEFINE m == wire[k]
           t == Recovered(m.id)
<1>0. IInv /\ TypeOK
  BY DEF IInv
<1>1. m.id = tab.id /\ m.no = tab.no /\ turns[tab.id] = None /\ m.id \in Ids
  <2>1. wire \in Seq(Message)
    BY <1>0 DEF TypeOK, Message
  <2>2. m \in Message
    BY <2>1
  <2> QED
    BY <1>0, <2>2 DEF IInv, TurnOk, Message
<1>2. tab.id \notin Stored /\ Stored = shown
  BY <1>0, <1>1 DEF IInv, SeenOk, Stored
<1>3. t[m.id] = None
  BY <1>1 DEF Recovered
<1>4. \A i \in Stored : t[i] = turns[i] /\ turns[i].phase \in Ended
  <2> SUFFICES ASSUME NEW i \in Stored PROVE t[i] = turns[i] /\ turns[i].phase \in Ended
    OBVIOUS
  <2>1. turns[i].phase \in Ended /\ i \in Ids
    BY <1>0, <1>2 DEF IInv, SeenOk, Stored
  <2>2. turns[i].phase # "crossed"
    BY <2>1 DEF Ended
  <2> QED
    BY <2>1, <2>2 DEF Recovered
<1>5. m.no = NumberAfter(Session(m.id))
  <2>1. CASE SessionPerTurn
    <3>1. Session(m.id) = {} /\ tab.no = 1
      BY <1>0, <1>1, <1>2, <2>1 DEF Session, IInv, NumberOk
    <3>2. 1 \in Numbers
      BY Constants DEF Numbers
    <3>3. NumberAfter({}) = 1
      BY <1>0, <3>2, NumberIs
    <3> QED
      BY <1>1, <3>1, <3>3
  <2>2. CASE ~SessionPerTurn
    BY <1>0, <1>1, <1>2, <2>2, NumberOfSession
  <2> QED
    BY <2>1, <2>2
<1>6. Session(m.id) \subseteq Stored
  BY DEF Session
<1> HIDE DEF m, t
<1>7. ~Refused(m, t)
  BY <1>3, <1>4, <1>5, <1>6 DEF Refused
<1> QED
  BY <1>7 DEF m, t

\* No message is refused for what the page did, after any losses, reloads,
\* late answers and exits of the server (shell.py, runtime.py:391-408).
THEOREM TurnsFitHold == Spec => []TurnsFit
<1>1. IInv => TurnsFit
  BY TurnFits DEF TurnsFit
<1> QED
  BY <1>1, InvariantHolds, PTL
=============================================================================
