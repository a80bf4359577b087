------------------------- MODULE HumanControlProofs -------------------------
(* Proofs about HumanControl, for any requests, responses, owners, times and *)
(* bounds.                                                                   *)
EXTENDS HumanControl, TLAPS

KindsOf(l) == {l[n].kind : n \in 1..Len(l)}

\* One event against the record of its request.
EventOk(r, e) ==
    /\ e.kind # "RESPONSE" \/ r.response # None => e.says = Said(e.kind, r)
    /\ e.kind = "RESPONSE" =>
          /\ e.says.response \in Responses
          /\ e.says = Said("RESPONSE", [r EXCEPT !.response = e.says.response])
          /\ r.request.created <= e.at /\ e.at <= r.observed
    /\ e.kind \in Stops \cup {"CONTINUATION", "TERMINAL"} => r.state = "TERMINAL"
    /\ e.kind = "RESUME_INTENT" => r.reserved = COST

Owed(r, kind) ==
    \/ kind = "CONTINUATION" /\ r.continuation # None
    \/ kind \in Stops /\ kind = r.reason

\* The lane against the record: every event, one of a kind, the request
\* first, a bound response in it, and all that is owed before TERMINAL.
LaneOk(r, l) ==
    /\ \A n \in 1..Len(l) : EventOk(r, l[n])
    /\ \A n, m \in 1..Len(l) : l[n].kind = l[m].kind => n = m
    /\ Len(l) > 0 => "REQUEST" \in KindsOf(l)
    /\ r.response # None => "RESPONSE" \in KindsOf(l)
    /\ "TERMINAL" \in KindsOf(l) => \A k \in KINDS : Owed(r, k) => k \in KindsOf(l)

\* The record against the hops that ran.
RecordOk(i, r, h) ==
    /\ r.request.id = i
    /\ r.request.created <= r.observed
    /\ h \in {0, 1}
    /\ r.reserved = 0 => h = 0
    /\ r.continuation # None => h = 1
    /\ r.response = None => r.reserved = 0
    /\ r.reserved # 0 => r.resumed # None
    /\ r.state # "TERMINAL" => r.reason = None
    /\ r.state = "TERMINAL" => r.ended # None
    /\ r.reason = "ONE_HOP_COMPLETE" => r.continuation # None
    /\ r.reason = "RECOVERY_UNKNOWN" => r.reserved = COST /\ r.continuation = None
    /\ r.reason \in {"EXPIRED", "CANCELLED"} => h = 0

StoreOk ==
    /\ control \in [Ids -> Records \cup {None}]
    /\ lane \in [Ids -> Seq(Events)]
    /\ hops \in [Ids -> Nat]
    /\ \A i \in Ids : control[i] = None => lane[i] = <<>> /\ hops[i] = 0
    /\ \A i \in Ids : control[i] # None =>
          RecordOk(i, control[i], hops[i]) /\ LaneOk(control[i], lane[i])

\* The requests and wakes of two records are distinct.
BoundOk ==
    \A i, j \in Ids :
        i # j /\ control[i] # None /\ control[j] # None
        => ~Taken(control[i].request, control[i].wake, control[j])

Beyond == PC \ {"idle", "recover", "wait", "finish"}

\* The operation in progress, and how far it is.
CallOk ==
    /\ pc \in PC
    /\ call \in Calls \cup {None}
    /\ exits \in Nat
    /\ pc # "idle" =>
          /\ call \in Calls
          /\ call.op = "respond" => call.response \in Responses
          /\ Rec # None
    /\ pc \notin {"idle", "recover"} => "REQUEST" \in Kinds(call.id)
    /\ pc = "wait" => Rec.state = "CREATED"
    /\ pc = "finish" => Rec.state = "TERMINAL"
    /\ pc \in Beyond => Rec.state # "TERMINAL"
    /\ pc \in Beyond \ {"observe"} => Rec.observed = call.now
    /\ pc \in {"decide", "operation"} /\ Rec.response = None => "RESPONSE" \notin Kinds(call.id)
    /\ pc \in {"operation", "bind", "cancel"} => Rec.reserved = 0
    /\ pc \in {"operation", "intent", "hop"} => call.now < Rec.request.expires
    /\ pc = "bind" =>
          /\ call.response \in Responses
          /\ Rec.response = None
          /\ \E n \in 1..Len(lane[call.id]) :
                /\ lane[call.id][n].kind = "RESPONSE"
                /\ lane[call.id][n].says.response = call.response
    /\ pc \in {"intent", "hop"} =>
          /\ OwnerHolds
          /\ Rec.response.command = "CONTINUE"
          /\ hops[call.id] = 0
    /\ pc \in {"intent", "hop", "receipt"} =>
          /\ Rec.response \in Responses
          /\ Rec.reserved = COST
          /\ Rec.continuation = None
    /\ pc = "hop" => "RESUME_INTENT" \in Kinds(call.id)
    /\ pc = "receipt" => hops[call.id] = 1
    /\ pc = "complete" => Rec.continuation # None

IInv == StoreOk /\ BoundOk /\ CallOk

----------------------------------------------------------------------------
LEMMA InitInv == Init => IInv
<1> SUFFICES ASSUME Init PROVE IInv
  OBVIOUS
<1>1. StoreOk
  BY DEF Init, StoreOk
<1>2. BoundOk
  BY DEF Init, BoundOk
<1>3. CallOk
  BY DEF Init, CallOk, PC, Beyond
<1> QED BY <1>1, <1>2, <1>3 DEF IInv

LEMMA SaidType ==
    ASSUME NEW r \in Records, NEW kind \in KINDS
    PROVE  Said(kind, r) \in Saids
BY DEF Said, Saids, Records, COST

\* The record in the hand of a running operation.
LEMMA InHand ==
    ASSUME IInv, pc # "idle"
    PROVE  /\ call \in Calls /\ call.id \in Ids
           /\ Rec \in Records /\ Rec # None
           /\ RecordOk(call.id, Rec, hops[call.id])
           /\ LaneOk(Rec, lane[call.id])
           /\ lane[call.id] \in Seq(Events)
<1>1. call \in Calls /\ Rec # None
  BY DEF IInv, CallOk
<1>2. call.id \in Ids /\ Rec = control[call.id]
  BY <1>1 DEF Calls, Rec
<1> QED BY <1>1, <1>2 DEF IInv, StoreOk

\* A save that keeps the identity of the record keeps the stores in order if
\* the new record is.
LEMMA SaveKeeps ==
    ASSUME IInv, pc # "idle", NEW r \in Records, Save(r), UNCHANGED <<lane, hops>>,
           r.request = Rec.request, r.wake = Rec.wake,
           RecordOk(call.id, r, hops[call.id]), LaneOk(r, lane[call.id])
    PROVE  /\ StoreOk' /\ BoundOk'
           /\ control'[call.id] = r
           /\ \A i \in Ids : i # call.id => control'[i] = control[i]
<1>1. call.id \in Ids /\ Rec = control[call.id] /\ Rec # None /\ r # None
  BY InHand, NoneAssumption DEF Rec
<1>2. control' = [control EXCEPT ![call.id] = r] /\ control \in [Ids -> Records \cup {None}]
  BY DEF Save, IInv, StoreOk
<1>3. /\ control'[call.id] = r
      /\ \A i \in Ids : i # call.id => control'[i] = control[i]
      /\ control' \in [Ids -> Records \cup {None}]
  BY <1>1, <1>2
<1>4. StoreOk'
  BY <1>1, <1>3 DEF StoreOk, IInv
<1>5. BoundOk'
  BY <1>1, <1>3 DEF BoundOk, IInv, Taken
<1> QED BY <1>3, <1>4, <1>5

LEMMA AppendKinds ==
    ASSUME NEW l \in Seq(Events), NEW e \in Events
    PROVE  /\ Append(l, e) \in Seq(Events)
           /\ Len(Append(l, e)) = Len(l) + 1
           /\ \A n \in 1..Len(l) : Append(l, e)[n] = l[n]
           /\ Append(l, e)[Len(l) + 1] = e
           /\ Len(l) \in Nat
           /\ KindsOf(Append(l, e)) = KindsOf(l) \cup {e.kind}
<1>1. /\ Append(l, e) \in Seq(Events)
      /\ Len(Append(l, e)) = Len(l) + 1
      /\ \A n \in 1..Len(l) : Append(l, e)[n] = l[n]
      /\ Append(l, e)[Len(l) + 1] = e
      /\ Len(l) \in Nat
  OBVIOUS
<1>2. 1..Len(Append(l, e)) = (1..Len(l)) \cup {Len(l) + 1}
  BY <1>1
<1> QED BY <1>1, <1>2 DEF KindsOf

LEMMA LaneGrows ==
    ASSUME NEW r, NEW l \in Seq(Events), NEW e \in Events, LaneOk(r, l), EventOk(r, e),
           e.kind \notin KindsOf(l),
           e.kind = "REQUEST" \/ Len(l) > 0,
           "TERMINAL" \notin KindsOf(l),
           e.kind = "TERMINAL" => \A k \in KINDS : Owed(r, k) => k \in KindsOf(l)
    PROVE  LaneOk(r, Append(l, e))
<1> DEFINE m == Append(l, e)
<1>1. /\ Len(m) = Len(l) + 1 /\ Len(l) \in Nat
      /\ \A n \in 1..Len(l) : m[n] = l[n]
      /\ m[Len(l) + 1] = e
      /\ KindsOf(m) = KindsOf(l) \cup {e.kind}
  BY AppendKinds
<1> HIDE DEF m
<1>2. \A n \in 1..Len(m) : n \in 1..Len(l) \/ n = Len(l) + 1
  BY <1>1
<1>3. \A n \in 1..Len(m) : EventOk(r, m[n])
  BY <1>1, <1>2 DEF LaneOk
<1>4. \A n, k \in 1..Len(m) : m[n].kind = m[k].kind => n = k
  BY <1>1, <1>2 DEF LaneOk, KindsOf
<1>5. LaneOk(r, m)
  BY <1>1, <1>3, <1>4 DEF LaneOk
<1> QED BY <1>5 DEF m

\* Writing evidence of a kind keeps the stores in order if the event is.
LEMMA PutKeeps ==
    ASSUME IInv, pc # "idle", NEW kind \in KINDS, NEW r \in Records, NEW at \in Int,
           Put(kind, r, at), UNCHANGED <<control, hops>>,
           kind \notin Kinds(call.id) =>
              /\ EventOk(Rec, [kind |-> kind, says |-> Said(kind, r), at |-> at])
              /\ kind = "REQUEST" \/ "REQUEST" \in Kinds(call.id)
              /\ "TERMINAL" \notin Kinds(call.id)
              /\ kind = "TERMINAL" => \A k \in KINDS : Owed(Rec, k) => k \in Kinds(call.id)
    PROVE  /\ StoreOk' /\ BoundOk'
           /\ KindsOf(lane'[call.id]) = Kinds(call.id) \cup {kind}
           /\ kind \in Kinds(call.id) => lane' = lane
           /\ \A i \in Ids : i # call.id => lane'[i] = lane[i]
           /\ kind \notin Kinds(call.id) =>
                 \E n \in 1..Len(lane'[call.id]) :
                    lane'[call.id][n] = [kind |-> kind, says |-> Said(kind, r), at |-> at]
<1> DEFINE id == call.id
           e == [kind |-> kind, says |-> Said(kind, r), at |-> at]
<1>1. /\ id \in Ids /\ Rec = control[id] /\ Rec \in Records /\ Rec # None
      /\ LaneOk(Rec, lane[id]) /\ lane[id] \in Seq(Events)
  BY InHand DEF Rec
<1>2. e \in Events /\ e.kind = kind
  BY SaidType DEF Events
<1>3. Kinds(id) = KindsOf(lane[id])
  BY DEF Kinds, KindsOf
<1>4. BoundOk'
  BY DEF IInv, BoundOk
<1>5. CASE kind \in Kinds(id)
  <2>1. lane' = lane
    BY <1>5 DEF Put
  <2>2. StoreOk'
    BY <2>1 DEF IInv, StoreOk
  <2> QED BY <1>3, <1>4, <1>5, <2>1, <2>2
<1>6. CASE kind \notin Kinds(id)
  <2>1. lane' = [lane EXCEPT ![id] = Append(lane[id], e)] /\ lane \in [Ids -> Seq(Events)]
    BY <1>6 DEF Put, IInv, StoreOk
  <2>2. /\ Append(lane[id], e) \in Seq(Events)
        /\ Len(Append(lane[id], e)) = Len(lane[id]) + 1 /\ Len(lane[id]) \in Nat
        /\ Append(lane[id], e)[Len(lane[id]) + 1] = e
        /\ KindsOf(Append(lane[id], e)) = KindsOf(lane[id]) \cup {kind}
    BY <1>1, <1>2, AppendKinds
  <2>3. kind = "REQUEST" \/ Len(lane[id]) > 0
    BY <1>1, <1>3, <1>6, <2>2 DEF KindsOf
  <2>4. LaneOk(Rec, Append(lane[id], e))
    BY <1>1, <1>2, <1>3, <1>6, <2>3, LaneGrows
  <2>5. /\ lane'[id] = Append(lane[id], e)
        /\ \A i \in Ids : i # id => lane'[i] = lane[i]
        /\ lane' \in [Ids -> Seq(Events)]
    BY <1>1, <2>1, <2>2
  <2>6. StoreOk'
    BY <1>1, <2>4, <2>5 DEF IInv, StoreOk
  <2>7. KindsOf(lane'[id]) = Kinds(id) \cup {kind}
    BY <1>3, <2>2, <2>5
  <2>8. \E n \in 1..Len(lane'[id]) : lane'[id][n] = e
    BY <2>2, <2>5
  <2> QED BY <1>4, <1>6, <2>5, <2>6, <2>7, <2>8
<1> QED BY <1>5, <1>6

----------------------------------------------------------------------------
\* A waiting record moves on: what its lane says is what it still says.
LEMMA LaneMoves ==
    ASSUME NEW r \in Records, NEW s \in Records, NEW l \in Seq(Events),
           LaneOk(r, l), r.state # "TERMINAL",
           s.request = r.request, s.owner = r.owner, r.observed <= s.observed,
           s.reserved = r.reserved \/ r.reserved = 0,
           \/ s.response = r.response
           \/ /\ r.response = None /\ r.reserved = 0
              /\ \E n \in 1..Len(l) : l[n].kind = "RESPONSE" /\ l[n].says.response = s.response
    PROVE  LaneOk(s, l)
<1>1. ASSUME NEW n \in 1..Len(l) PROVE EventOk(s, l[n])
  <2> DEFINE e == l[n]
  <2>1. EventOk(r, e) /\ e \in Events /\ e.kind \in KINDS
    <3>1. l[n] \in Events
      OBVIOUS
    <3>2. EventOk(r, l[n])
      BY DEF LaneOk
    <3> QED BY <3>1, <3>2 DEF Events
  <2>2. e.kind \in {"REQUEST", "RESPONSE", "RESUME_INTENT"}
    BY <2>1 DEF EventOk, KINDS
  <2>3. r.observed \in Int /\ s.observed \in Int /\ e.at \in Int /\ r.request.created \in Int
    BY <2>1, HumanAssumption DEF Records, Events
  <2>4. CASE e.kind = "REQUEST"
    BY <2>1, <2>4 DEF EventOk, Said, Stops
  <2>5. CASE e.kind = "RESPONSE"
    <3>1. /\ e.says.response \in Responses
          /\ e.says = Said("RESPONSE", [r EXCEPT !.response = e.says.response])
          /\ r.request.created <= e.at /\ e.at <= r.observed
      BY <2>1, <2>5 DEF EventOk
    <3>2. s.response # None => s.response = e.says.response
      <4>1. CASE s.response = r.response
        BY <2>1, <2>5, <4>1 DEF EventOk, Said
      <4>2. CASE r.response = None /\ s.response # r.response
        <5>1. PICK m \in 1..Len(l) : l[m].kind = "RESPONSE" /\ l[m].says.response = s.response
          BY <4>2
        <5>2. m = n
          BY <5>1, <2>5 DEF LaneOk
        <5> QED BY <5>1, <5>2
      <4> QED BY <4>1, <4>2
    <3>3. e.says = Said("RESPONSE", [s EXCEPT !.response = e.says.response])
      BY <3>1 DEF Said, Stops, Records
    <3>4. s.response # None => e.says = Said("RESPONSE", s)
      BY <3>2, <3>3 DEF Said, Stops, Records
    <3> QED BY <2>3, <2>5, <3>1, <3>3, <3>4 DEF EventOk, Stops
  <2>6. CASE e.kind = "RESUME_INTENT"
    <3>1. r.reserved = COST /\ s.reserved = r.reserved /\ s.response = r.response
      BY <2>1, <2>6 DEF EventOk, COST
    <3> QED BY <2>1, <2>6, <3>1 DEF EventOk, Said, Stops
  <2> QED BY <2>2, <2>4, <2>5, <2>6
<1>2. "TERMINAL" \notin KindsOf(l)
  BY DEF LaneOk, EventOk, KindsOf
<1>3. s.response # None => "RESPONSE" \in KindsOf(l)
  BY DEF LaneOk, KindsOf
<1>4. /\ \A n, m \in 1..Len(l) : l[n].kind = l[m].kind => n = m
      /\ Len(l) > 0 => "REQUEST" \in KindsOf(l)
  BY DEF LaneOk
<1> QED BY <1>1, <1>2, <1>3, <1>4 DEF LaneOk

LEMMA RequestStep ==
    ASSUME IInv, NEW roster \in Rosters, NEW now \in Times,
           NEW q \in Requests, NEW wake \in Wakes \cup {None},
           NewRequest(q, wake, roster, now)
    PROVE  IInv'
<1> DEFINE r == [request |-> q, owner |-> Resolve(q, roster), wake |-> wake,
                 state |-> "CREATED", response |-> None, reserved |-> 0,
                 continuation |-> None, reason |-> None, observed |-> now,
                 resumed |-> None, ended |-> None]
<1>1. r \in Records /\ r # None
  <2>1. Resolve(q, roster) \in Owners
    BY DEF Owners
  <2>2. r \in Records
    BY <2>1 DEF Records, STATES, COST
  <2> QED BY <2>2, NoneAssumption
<1>2. q.id \in Ids /\ control' = [control EXCEPT ![q.id] = r]
  BY DEF Ids, NewRequest
<1>3. /\ control' \in [Ids -> Records \cup {None}]
      /\ control'[q.id] = r
      /\ \A i \in Ids : i # q.id => control'[i] = control[i]
  BY <1>1, <1>2 DEF IInv, StoreOk
<1>4. UNCHANGED <<lane, hops, exits>> /\ lane[q.id] = <<>> /\ hops[q.id] = 0
  BY <1>2 DEF NewRequest, Begin, IInv, StoreOk
<1>5. RecordOk(q.id, r, hops[q.id])
  <2>1. q.created <= now
    BY DEF NewRequest
  <2> QED BY <1>4, <2>1, NoneAssumption DEF RecordOk, REASONS, Stops
<1>6. LaneOk(r, lane[q.id])
  BY <1>4 DEF LaneOk, KindsOf
<1>7. StoreOk'
  BY <1>1, <1>2, <1>3, <1>4, <1>5, <1>6 DEF StoreOk, IInv
<1>8. BoundOk'
  <2>1. \A i \in Ids : i # q.id /\ control[i] # None => ~Taken(q, wake, control[i])
    BY DEF NewRequest, Bound
  <2>2. \A i \in Ids : i # q.id /\ control[i] # None
           => ~Taken(control[i].request, control[i].wake, r)
    BY <2>1 DEF Taken
  <2> QED BY <1>1, <1>2, <1>3, <2>1, <2>2 DEF BoundOk, IInv
<1>9. CallOk'
  <2>1. /\ pc' = "recover"
        /\ call' = [op |-> "request", id |-> q.id, response |-> None,
                    roster |-> roster, now |-> now]
    BY DEF NewRequest, Begin
  <2>2. call' \in Calls /\ Rec' = r
    BY <1>2, <1>3, <2>1 DEF Calls, Rec
  <2> QED BY <1>1, <1>4, <2>1, <2>2 DEF CallOk, IInv, PC, Beyond
<1> QED BY <1>7, <1>8, <1>9 DEF IInv

\* The other entries only begin an operation on a record that exists.
LEMMA BeginStep ==
    ASSUME IInv, NEW i \in Ids, NEW roster \in Rosters, NEW now \in Times,
           NEW op \in {"request", "respond", "observe", "resume", "cancel"},
           NEW p \in Responses \cup {None},
           op = "respond" => p \in Responses,
           control[i] # None, UNCHANGED control, Begin(op, i, p, roster, now)
    PROVE  IInv'
<1>1. /\ pc' = "recover" /\ UNCHANGED <<control, lane, hops, exits>>
      /\ call' = [op |-> op, id |-> i, response |-> p, roster |-> roster, now |-> now]
  BY DEF Begin
<1>2. StoreOk' /\ BoundOk'
  BY <1>1 DEF IInv, StoreOk, BoundOk
<1>3. call' \in Calls /\ Rec' # None
  BY <1>1 DEF Calls, Rec
<1>4. CallOk'
  BY <1>1, <1>3 DEF CallOk, IInv, PC, Beyond
<1> QED BY <1>2, <1>4 DEF IInv

LEMMA AskStep ==
    ASSUME IInv, Ask
    PROVE  IInv'
<1>1. PICK roster \in Rosters, now \in Times :
        \/ \E q \in Requests, wake \in Wakes \cup {None} :
              NewRequest(q, wake, roster, now) \/ SameRequest(q, wake, roster, now)
        \/ \E p \in Responses : Respond(p, roster, now)
        \/ \E i \in Ids : Observe(i, roster, now)
        \/ \E q \in Requests, op \in {"resume", "cancel"} : Resume(q, op, roster, now)
  BY DEF Ask
<1>2. ASSUME NEW q \in Requests, NEW wake \in Wakes \cup {None},
             NewRequest(q, wake, roster, now)
      PROVE  IInv'
  BY <1>2, RequestStep
<1>3. ASSUME NEW q \in Requests, NEW wake \in Wakes \cup {None},
             SameRequest(q, wake, roster, now)
      PROVE  IInv'
  <2>1. q.id \in Ids /\ control[q.id] # None /\ UNCHANGED control
        /\ Begin("request", q.id, None, roster, now)
    BY <1>3 DEF SameRequest, Ids
  <2> QED BY <2>1, BeginStep
<1>4. ASSUME NEW p \in Responses, Respond(p, roster, now)
      PROVE  IInv'
  <2>1. /\ p.request.id \in Ids /\ control[p.request.id] # None /\ UNCHANGED control
        /\ Begin("respond", p.request.id, p, roster, now)
    BY <1>4, HumanAssumption DEF Respond, Ids
  <2> QED BY <2>1, BeginStep
<1>5. ASSUME NEW i \in Ids, Observe(i, roster, now)
      PROVE  IInv'
  BY <1>5, BeginStep DEF Observe
<1>6. ASSUME NEW q \in Requests, NEW op \in {"resume", "cancel"}, Resume(q, op, roster, now)
      PROVE  IInv'
  <2>1. /\ q.id \in Ids /\ control[q.id] # None /\ UNCHANGED control
        /\ Begin(op, q.id, None, roster, now)
    BY <1>6 DEF Resume, Ids
  <2> QED BY <2>1, BeginStep
<1> QED BY <1>1, <1>2, <1>3, <1>4, <1>5, <1>6

----------------------------------------------------------------------------
\* One lemma per step of a running operation.

LEMMA RecordRequestStep ==
    ASSUME IInv, RecordRequest
    PROVE  /\ IInv'
           /\ "TERMINAL" \in Kinds(call.id) => lane' = lane
<1>1. /\ pc = "recover" /\ UNCHANGED <<call, exits, control, hops>>
      /\ pc' = IF Rec.state = "CREATED" THEN "wait" ELSE IF Rec.state = "TERMINAL" THEN "finish"
               ELSE "observe"
      /\ Put("REQUEST", Rec, Rec.request.created)
  BY DEF RecordRequest, At, AfterRequest
<1>2. /\ call \in Calls /\ call.id \in Ids /\ Rec \in Records /\ Rec # None
      /\ LaneOk(Rec, lane[call.id]) /\ lane[call.id] \in Seq(Events)
  BY <1>1, InHand
<1>3. Rec.request.created \in Int /\ "REQUEST" \in KINDS
  BY <1>2, HumanAssumption DEF Records, KINDS
<1>4. Kinds(call.id) = KindsOf(lane[call.id])
  BY DEF Kinds, KindsOf
<1>5. "REQUEST" \notin Kinds(call.id) => "TERMINAL" \notin Kinds(call.id)
  BY <1>2, <1>4 DEF LaneOk, KindsOf
<1>6. EventOk(Rec, [kind |-> "REQUEST", says |-> Said("REQUEST", Rec), at |-> Rec.request.created])
  BY DEF EventOk, Stops
<1>7. /\ StoreOk' /\ BoundOk'
      /\ KindsOf(lane'[call.id]) = Kinds(call.id) \cup {"REQUEST"}
      /\ "REQUEST" \in Kinds(call.id) => lane' = lane
  BY <1>1, <1>2, <1>3, <1>5, <1>6, PutKeeps
<1>8. "REQUEST" \in Kinds(call.id)' /\ Rec' = Rec
  BY <1>1, <1>7 DEF Kinds, KindsOf, Rec
<1>9. CallOk'
  BY <1>1, <1>8 DEF CallOk, IInv, PC, Beyond
<1> QED BY <1>5, <1>7, <1>9 DEF IInv

LEMMA WaitStep ==
    ASSUME IInv, Wait
    PROVE  IInv'
<1> DEFINE r == [Rec EXCEPT !.state = "WAITING"]
<1>1. /\ pc = "wait" /\ pc' = "observe" /\ UNCHANGED <<call, exits, lane, hops>>
      /\ Save(r)
  BY DEF Wait, At
<1>2. /\ call.id \in Ids /\ Rec \in Records /\ Rec.state = "CREATED" /\ Rec # None
      /\ RecordOk(call.id, Rec, hops[call.id])
      /\ LaneOk(Rec, lane[call.id]) /\ lane[call.id] \in Seq(Events)
      /\ "REQUEST" \in Kinds(call.id)
  BY <1>1, InHand DEF IInv, CallOk
<1>3. /\ r \in Records /\ r.state = "WAITING"
      /\ r.request = Rec.request /\ r.owner = Rec.owner /\ r.wake = Rec.wake
      /\ r.observed = Rec.observed /\ r.response = Rec.response /\ r.reserved = Rec.reserved
      /\ r.continuation = Rec.continuation /\ r.reason = Rec.reason
      /\ r.resumed = Rec.resumed /\ r.ended = Rec.ended
  BY <1>2 DEF Records, STATES
<1> HIDE DEF r
<1>4. RecordOk(call.id, r, hops[call.id])
  BY <1>2, <1>3 DEF RecordOk
<1>5. r.observed \in Int
  BY <1>3, HumanAssumption DEF Records
<1>6. LaneOk(r, lane[call.id])
  BY <1>2, <1>3, <1>5, LaneMoves
<1>7. StoreOk' /\ BoundOk' /\ control'[call.id] = r
  BY <1>1, <1>3, <1>4, <1>6, SaveKeeps
<1>8. Rec' = r
  BY <1>1, <1>7 DEF Rec
<1>9. CallOk'
  BY <1>1, <1>2, <1>3, <1>8, NoneAssumption DEF CallOk, IInv, PC, Beyond, Kinds
<1> QED BY <1>7, <1>9 DEF IInv

\* Terminate, from any step in which the record is not TERMINAL and the
\* reason is true of it.
LEMMA TerminateStep ==
    ASSUME IInv, pc \notin {"idle", "recover"}, Rec.state # "TERMINAL",
           NEW reason \in REASONS, Terminate(reason),
           reason = "ONE_HOP_COMPLETE" => Rec.continuation # None,
           reason = "RECOVERY_UNKNOWN" => Rec.reserved = COST /\ Rec.continuation = None,
           reason \in {"EXPIRED", "CANCELLED"} => Rec.reserved = 0
    PROVE  IInv'
<1> DEFINE r == [Rec EXCEPT !.state = "TERMINAL", !.reason = reason, !.ended = call.now]
<1>1. /\ pc' = "finish" /\ UNCHANGED <<call, exits, lane, hops>>
      /\ Save(r)
  BY DEF Terminate
<1>2. /\ call \in Calls /\ call.id \in Ids /\ Rec \in Records /\ Rec # None
      /\ RecordOk(call.id, Rec, hops[call.id])
      /\ LaneOk(Rec, lane[call.id]) /\ lane[call.id] \in Seq(Events)
      /\ "REQUEST" \in Kinds(call.id)
  BY InHand DEF IInv, CallOk
<1>3. call.now \in Times /\ call.now # None
  BY <1>2, NoneAssumption DEF Calls
<1>4. /\ r \in Records /\ r.state = "TERMINAL" /\ r.reason = reason /\ r.ended = call.now
      /\ r.request = Rec.request /\ r.owner = Rec.owner /\ r.wake = Rec.wake
      /\ r.observed = Rec.observed /\ r.response = Rec.response /\ r.reserved = Rec.reserved
      /\ r.continuation = Rec.continuation /\ r.resumed = Rec.resumed
  BY <1>2, <1>3 DEF Records, STATES
<1> HIDE DEF r
<1>5. RecordOk(call.id, r, hops[call.id])
  BY <1>2, <1>3, <1>4 DEF RecordOk
<1>6. r.observed \in Int
  BY <1>4, HumanAssumption DEF Records
<1>7. LaneOk(r, lane[call.id])
  BY <1>2, <1>4, <1>6, LaneMoves
<1>8. StoreOk' /\ BoundOk' /\ control'[call.id] = r
  BY <1>1, <1>4, <1>5, <1>7, SaveKeeps
<1>9. Rec' = r /\ r # None
  BY <1>1, <1>4, <1>8, NoneAssumption DEF Rec
<1>10. CallOk'
  BY <1>1, <1>2, <1>4, <1>9 DEF CallOk, IInv, PC, Beyond, Kinds
<1> QED BY <1>8, <1>10 DEF IInv

LEMMA SeeClockStep ==
    ASSUME IInv, SeeClock
    PROVE  IInv'
<1> DEFINE found == Rec.response = None /\ "RESPONSE" \in Kinds(call.id)
           p == Event(call.id, "RESPONSE").says.response
           r == IF found
                THEN [Rec EXCEPT !.observed = call.now, !.state = "RESPONSE_DURABLE",
                                 !.response = p]
                ELSE [Rec EXCEPT !.observed = call.now]
<1>1. /\ pc = "observe" /\ pc' = "decide" /\ UNCHANGED <<call, exits, lane, hops>>
      /\ ~ClockWentBack /\ Save(r)
  BY DEF SeeClock, At, Seen
<1>2. /\ call \in Calls /\ call.id \in Ids /\ Rec \in Records /\ Rec # None
      /\ RecordOk(call.id, Rec, hops[call.id])
      /\ LaneOk(Rec, lane[call.id]) /\ lane[call.id] \in Seq(Events)
      /\ Rec.state # "TERMINAL" /\ "REQUEST" \in Kinds(call.id)
  BY <1>1, InHand DEF IInv, CallOk, Beyond, PC
<1>3. Kinds(call.id) = KindsOf(lane[call.id])
  BY DEF Kinds, KindsOf
<1>4. ASSUME found
      PROVE  /\ p \in Responses
             /\ \E n \in 1..Len(lane[call.id]) :
                   lane[call.id][n].kind = "RESPONSE" /\ lane[call.id][n].says.response = p
  <2>1. PICK n \in 1..Len(lane[call.id]) : lane[call.id][n].kind = "RESPONSE"
    BY <1>4 DEF Kinds
  <2>2. \A e \in {lane[call.id][k] : k \in 1..Len(lane[call.id])} :
           e.kind = "RESPONSE" => e = lane[call.id][n]
    BY <1>2, <2>1 DEF LaneOk
  <2>3. Event(call.id, "RESPONSE") = lane[call.id][n]
    <3> DEFINE S == {lane[call.id][k] : k \in 1..Len(lane[call.id])}
               c == CHOOSE e \in S : e.kind = "RESPONSE"
    <3>1. lane[call.id][n] \in S
      OBVIOUS
    <3>2. c \in S /\ c.kind = "RESPONSE"
      <4> HIDE DEF S
      <4> QED BY <2>1, <3>1
    <3>3. c = lane[call.id][n]
      BY <2>2, <3>2
    <3>4. Event(call.id, "RESPONSE") = c
      BY DEF Event
    <3> QED BY <3>3, <3>4
  <2>4. EventOk(Rec, lane[call.id][n])
    BY <1>2, <2>1 DEF LaneOk
  <2> QED BY <2>1, <2>3, <2>4 DEF EventOk
<1>5. call.now \in Times /\ call.now \in Int /\ Rec.observed \in Int
      /\ Rec.observed <= call.now /\ Rec.request.created \in Int
  <2>1. call.now \in Times /\ Rec.observed \in Times /\ Rec.request \in Requests
    BY <1>2 DEF Calls, Records
  <2> QED BY <1>1, <2>1, HumanAssumption DEF ClockWentBack
<1>6. /\ r \in Records /\ r.observed = call.now /\ r.state # "TERMINAL"
      /\ r.request = Rec.request /\ r.owner = Rec.owner /\ r.wake = Rec.wake
      /\ r.reserved = Rec.reserved /\ r.reason = Rec.reason
      /\ r.continuation = Rec.continuation /\ r.resumed = Rec.resumed /\ r.ended = Rec.ended
      /\ IF found THEN r.response = p ELSE r.response = Rec.response
  <2> DEFINE bound == [Rec EXCEPT !.observed = call.now, !.state = "RESPONSE_DURABLE",
                                 !.response = p]
             seen  == [Rec EXCEPT !.observed = call.now]
  <2>1. CASE found
    <3>1. r = bound /\ p \in Responses
      BY <1>4, <2>1
    <3> HIDE DEF p, found
    <3>2. /\ bound \in Records /\ bound.observed = call.now /\ bound.state # "TERMINAL"
          /\ bound.request = Rec.request /\ bound.owner = Rec.owner /\ bound.wake = Rec.wake
          /\ bound.reserved = Rec.reserved /\ bound.reason = Rec.reason
          /\ bound.continuation = Rec.continuation /\ bound.resumed = Rec.resumed
          /\ bound.ended = Rec.ended /\ bound.response = p
      BY <1>2, <1>5, <3>1 DEF Records, STATES
    <3> HIDE DEF r, bound
    <3> QED BY <2>1, <3>1, <3>2
  <2>2. CASE ~found
    <3>1. r = seen
      BY <2>2
    <3> HIDE DEF p, found
    <3>2. /\ seen \in Records /\ seen.observed = call.now /\ seen.state = Rec.state
          /\ seen.request = Rec.request /\ seen.owner = Rec.owner /\ seen.wake = Rec.wake
          /\ seen.reserved = Rec.reserved /\ seen.reason = Rec.reason
          /\ seen.continuation = Rec.continuation /\ seen.resumed = Rec.resumed
          /\ seen.ended = Rec.ended /\ seen.response = Rec.response
      BY <1>2, <1>5 DEF Records, STATES
    <3> HIDE DEF r, seen
    <3> QED BY <1>2, <2>2, <3>1, <3>2
  <2> QED BY <2>1, <2>2
<1> HIDE DEF r, p
<1>7. RecordOk(call.id, r, hops[call.id])
  <2>1. r.response = None => Rec.response = None
    BY <1>6
  <2> QED BY <1>2, <1>5, <1>6, <2>1 DEF RecordOk
<1>8. \/ r.response = Rec.response
      \/ /\ Rec.response = None /\ Rec.reserved = 0
         /\ \E n \in 1..Len(lane[call.id]) :
               lane[call.id][n].kind = "RESPONSE" /\ lane[call.id][n].says.response = r.response
  BY <1>2, <1>4, <1>6 DEF RecordOk
<1>9. LaneOk(r, lane[call.id])
  BY <1>2, <1>5, <1>6, <1>8, LaneMoves
<1>10. StoreOk' /\ BoundOk' /\ control'[call.id] = r
  BY <1>1, <1>6, <1>7, <1>9, SaveKeeps
<1>11. Rec' = r /\ r # None
  BY <1>1, <1>6, <1>10, NoneAssumption DEF Rec
<1>12. Kinds(call.id)' = Kinds(call.id)
  BY <1>1 DEF Kinds
<1>13. r.response = None => "RESPONSE" \notin Kinds(call.id)
  <2>1. None \notin Responses
    BY NoneAssumption
  <2> QED BY <1>4, <1>6, <2>1
<1>14. CallOk'
  BY <1>1, <1>2, <1>6, <1>11, <1>12, <1>13 DEF CallOk, IInv, PC, Beyond
<1> QED BY <1>10, <1>14 DEF IInv

LEMMA StopStep ==
    ASSUME IInv, StopOnRollback \/ StopInRecovery \/ CancelAnswered \/ CancelRequest \/ Complete
    PROVE  IInv' /\ Rec.state # "TERMINAL" /\ UNCHANGED <<lane, hops>>
           /\ \A i \in Ids : i # call.id => control'[i] = control[i]
<1>1. pc \in Beyond /\ Rec.state # "TERMINAL" /\ pc \notin {"idle", "recover"}
  BY DEF StopOnRollback, StopInRecovery, CancelAnswered, CancelRequest, Complete, Beyond, PC,
         IInv, CallOk
<1>2. /\ RecordOk(call.id, Rec, hops[call.id]) /\ Rec \in Records
      /\ call.id \in Ids /\ Rec = control[call.id]
  BY <1>1, InHand DEF Rec
<1>3. PICK reason \in REASONS :
        /\ Terminate(reason)
        /\ reason = "ONE_HOP_COMPLETE" => Rec.continuation # None
        /\ reason = "RECOVERY_UNKNOWN" => Rec.reserved = COST /\ Rec.continuation = None
        /\ reason \in {"EXPIRED", "CANCELLED"} => Rec.reserved = 0
  <2>1. CASE StopOnRollback
    BY <2>1 DEF StopOnRollback, REASONS, Stops
  <2>2. CASE StopInRecovery
    <3>1. Rec.reserved \in {0, COST} /\ COST = 1
      BY <1>2 DEF Records, COST
    <3>2. Stop \in REASONS \cup {None} /\ Terminate(Stop) /\ Stop # None
      BY <2>2 DEF StopInRecovery, Stop, REASONS, Stops
    <3>3. CASE Rec.reserved > 0
      BY <3>1, <3>2, <3>3 DEF Stop, REASONS, Stops
    <3>4. CASE ~(Rec.reserved > 0)
      <4>1. Rec.reserved = 0
        BY <3>1, <3>4
      <4>2. Stop \in {"EXPIRED", "CANCELLED", None}
        BY <3>4 DEF Stop
      <4> QED BY <3>2, <4>1, <4>2
    <3> QED BY <3>3, <3>4
  <2>3. CASE CancelAnswered \/ CancelRequest
    <3>1. Terminate("CANCELLED") /\ Rec.reserved = 0
      BY <2>3 DEF CancelAnswered, CancelRequest, IInv, CallOk
    <3> QED BY <3>1 DEF REASONS, Stops
  <2>4. CASE Complete
    <3>1. Terminate("ONE_HOP_COMPLETE") /\ Rec.continuation # None
      BY <2>4 DEF Complete, IInv, CallOk
    <3> QED BY <3>1 DEF REASONS, Stops
  <2> QED BY <2>1, <2>2, <2>3, <2>4
<1>4. IInv'
  BY <1>1, <1>3, TerminateStep
<1>5. UNCHANGED <<lane, hops>> /\ \A i \in Ids : i # call.id => control'[i] = control[i]
  BY <1>3 DEF Terminate, Save, IInv, StoreOk
<1> QED BY <1>1, <1>4, <1>5

\* Steps that only move the operation on, or end it.
LEMMA StayStep ==
    ASSUME IInv, UNCHANGED <<control, lane, hops>>, exits' \in Nat,
           \/ GoOn
           \/ pc' = "idle" /\ call' = None
    PROVE  IInv'
<1>1. StoreOk' /\ BoundOk'
  BY DEF IInv, StoreOk, BoundOk
<1>2. CASE pc' = "idle" /\ call' = None
  <2>1. CallOk'
    BY <1>2 DEF CallOk, IInv, PC, Beyond
  <2> QED BY <1>1, <2>1 DEF IInv
<1>3. CASE GoOn
  <2>1. /\ pc = "decide" /\ pc' = "operation" /\ UNCHANGED <<call, exits>> /\ Stop = None
    BY <1>3 DEF GoOn, At
  <2>2. Rec' = Rec /\ Kinds(call.id)' = Kinds(call.id)
    BY <2>1 DEF Rec, Kinds
  <2>3. Rec \in Records /\ call \in Calls
    BY <2>1, InHand
  <2>4. call.now \in Int /\ Rec.request.expires \in Int /\ Rec.reserved \in {0, 1}
    <3>1. call.now \in Times /\ Rec.request \in Requests /\ Rec.reserved \in 0..1
      BY <2>3 DEF Records, Calls, COST
    <3>2. Rec.reserved \in {0, 1}
      BY <3>1
    <3>3. Rec.request.expires \in Int /\ call.now \in Int
      BY <3>1, HumanAssumption
    <3> QED BY <3>2, <3>3
  <2>5. None \notin REASONS
    BY NoneAssumption
  <2>6. ~(Rec.reserved > 0)
    BY <2>1, <2>5 DEF Stop, REASONS, Stops
  <2>7. ~Expired
    BY <2>1, <2>5, <2>6 DEF Stop, REASONS, Stops
  <2>8. Rec.reserved = 0 /\ call.now < Rec.request.expires
    BY <2>4, <2>6, <2>7 DEF Expired
  <2>9. CallOk'
    BY <2>1, <2>2, <2>8 DEF CallOk, IInv, PC, Beyond
  <2> QED BY <1>1, <2>9 DEF IInv
<1> QED BY <1>2, <1>3

LEMMA RecordResponseStep ==
    ASSUME IInv, RecordResponse
    PROVE  /\ IInv' /\ Rec.state # "TERMINAL" /\ "REQUEST" \in Kinds(call.id)
           /\ \A i \in Ids : i # call.id => lane'[i] = lane[i]
<1> DEFINE r == [Rec EXCEPT !.response = call.response]
           e == [kind |-> "RESPONSE", says |-> Said("RESPONSE", r), at |-> call.now]
<1>1. /\ pc = "operation" /\ pc' = "bind" /\ UNCHANGED <<call, exits, control, hops>>
      /\ call.op = "respond" /\ Rec.response = None
      /\ Put("RESPONSE", r, call.now)
  BY DEF RecordResponse, At
<1>2. /\ call \in Calls /\ call.id \in Ids /\ Rec \in Records
      /\ RecordOk(call.id, Rec, hops[call.id]) /\ LaneOk(Rec, lane[call.id])
      /\ call.response \in Responses /\ Rec.state # "TERMINAL"
      /\ "REQUEST" \in Kinds(call.id) /\ "RESPONSE" \notin Kinds(call.id)
      /\ Rec.observed = call.now /\ Rec.reserved = 0
  BY <1>1, InHand DEF IInv, CallOk, Beyond, PC
<1>3. call.now \in Times /\ call.now \in Int /\ Rec.request.created <= call.now
  BY <1>2, HumanAssumption DEF Calls, RecordOk
<1>4. r \in Records /\ r.response = call.response
  BY <1>2 DEF Records
<1>5. e.says = Said("RESPONSE", r) /\ e.says.response = call.response
  BY <1>4 DEF Said
<1>6. EventOk(Rec, e)
  <2>1. [Rec EXCEPT !.response = e.says.response] = r
    BY <1>5
  <2> QED BY <1>1, <1>2, <1>3, <1>5, <2>1 DEF EventOk, Stops
<1>7. "TERMINAL" \notin Kinds(call.id)
  BY <1>2 DEF LaneOk, EventOk, Kinds
<1> HIDE DEF r
<1>8. /\ StoreOk' /\ BoundOk'
      /\ KindsOf(lane'[call.id]) = Kinds(call.id) \cup {"RESPONSE"}
      /\ \A i \in Ids : i # call.id => lane'[i] = lane[i]
      /\ \E n \in 1..Len(lane'[call.id]) : lane'[call.id][n] = e
  BY <1>1, <1>2, <1>3, <1>4, <1>6, <1>7, PutKeeps DEF KINDS
<1>9. Rec' = Rec /\ "REQUEST" \in Kinds(call.id)'
  <2>1. Kinds(call.id)' = KindsOf(lane'[call.id])
    BY <1>1 DEF Kinds, KindsOf
  <2>2. Rec' = Rec
    BY <1>1 DEF Rec
  <2> QED BY <1>2, <1>8, <2>1, <2>2
<1>10. \E n \in 1..Len(lane'[call.id]) :
          lane'[call.id][n].kind = "RESPONSE" /\ lane'[call.id][n].says.response = call.response
  BY <1>5, <1>8
<1>11. CallOk'
  BY <1>1, <1>2, <1>9, <1>10 DEF CallOk, IInv, PC, Beyond
<1> QED BY <1>2, <1>8, <1>11 DEF IInv

LEMMA BindResponseStep ==
    ASSUME IInv, BindResponse
    PROVE  IInv' /\ Rec.state # "TERMINAL"
           /\ \A i \in Ids : i # call.id => control'[i] = control[i]
<1> DEFINE r == [Rec EXCEPT !.response = call.response, !.state = "RESPONSE_DURABLE"]
<1>1. /\ pc = "bind" /\ Save(r) /\ UNCHANGED <<lane, hops, exits>>
      /\ \/ pc' = "cancel" /\ UNCHANGED call
         \/ pc' = "idle" /\ call' = None
  BY DEF BindResponse, Return
<1>2. /\ call \in Calls /\ call.id \in Ids /\ Rec \in Records
      /\ RecordOk(call.id, Rec, hops[call.id]) /\ LaneOk(Rec, lane[call.id])
      /\ lane[call.id] \in Seq(Events)
      /\ call.response \in Responses /\ Rec.state # "TERMINAL" /\ Rec.response = None
      /\ "REQUEST" \in Kinds(call.id)
      /\ Rec.observed = call.now /\ Rec.reserved = 0
      /\ \E n \in 1..Len(lane[call.id]) :
            lane[call.id][n].kind = "RESPONSE" /\ lane[call.id][n].says.response = call.response
  BY <1>1, InHand DEF IInv, CallOk, Beyond, PC
<1>3. /\ r \in Records /\ r.observed = Rec.observed /\ r.state = "RESPONSE_DURABLE"
      /\ r.request = Rec.request /\ r.owner = Rec.owner /\ r.wake = Rec.wake
      /\ r.reserved = Rec.reserved /\ r.reason = Rec.reason
      /\ r.continuation = Rec.continuation /\ r.resumed = Rec.resumed /\ r.ended = Rec.ended
      /\ r.response = call.response
  BY <1>2 DEF Records, STATES
<1> HIDE DEF r
<1>4. RecordOk(call.id, r, hops[call.id])
  BY <1>2, <1>3 DEF RecordOk
<1>5. Rec.observed \in Int
  BY <1>2, HumanAssumption DEF Records
<1>6. LaneOk(r, lane[call.id])
  BY <1>2, <1>3, <1>5, LaneMoves
<1>7. StoreOk' /\ BoundOk' /\ control'[call.id] = r
      /\ \A i \in Ids : i # call.id => control'[i] = control[i]
  BY <1>1, <1>3, <1>4, <1>6, SaveKeeps
<1>8. CallOk'
  <2>1. CASE pc' = "idle" /\ call' = None
    BY <1>1, <2>1 DEF CallOk, IInv, PC, Beyond
  <2>2. CASE pc' = "cancel" /\ UNCHANGED call
    <3>1. Rec' = r /\ Kinds(call.id)' = Kinds(call.id) /\ r # None
      BY <1>1, <1>3, <1>7, <2>2, NoneAssumption DEF Rec, Kinds
    <3> QED BY <1>1, <1>2, <1>3, <2>2, <3>1 DEF CallOk, IInv, PC, Beyond
  <2> QED BY <1>1, <2>1, <2>2
<1> QED BY <1>2, <1>7, <1>8 DEF IInv

LEMMA ReserveStep ==
    ASSUME IInv, Reserve
    PROVE  IInv' /\ Rec.state # "TERMINAL"
           /\ \A i \in Ids : i # call.id => control'[i] = control[i]
<1> DEFINE r == [Rec EXCEPT !.reserved = COST, !.state = "RESUME_INTENT_DURABLE",
                            !.resumed = call.now]
<1>1. /\ pc = "operation" /\ pc' = "intent" /\ Save(r) /\ UNCHANGED <<call, lane, hops, exits>>
      /\ OwnerHolds /\ Rec.response # None /\ Rec.response.command = "CONTINUE"
  BY DEF Reserve, At, Resumable
<1>2. /\ call \in Calls /\ call.id \in Ids /\ Rec \in Records
      /\ RecordOk(call.id, Rec, hops[call.id]) /\ LaneOk(Rec, lane[call.id])
      /\ lane[call.id] \in Seq(Events)
      /\ Rec.state # "TERMINAL" /\ "REQUEST" \in Kinds(call.id)
      /\ Rec.observed = call.now /\ Rec.reserved = 0
      /\ call.now < Rec.request.expires
  BY <1>1, InHand DEF IInv, CallOk, Beyond, PC
<1>3. call.now \in Times /\ call.now # None /\ Rec.observed \in Int /\ COST = 1
  BY <1>2, NoneAssumption, HumanAssumption DEF Records, Calls, COST
<1>4. /\ r \in Records /\ r.observed = Rec.observed /\ r.state = "RESUME_INTENT_DURABLE"
      /\ r.request = Rec.request /\ r.owner = Rec.owner /\ r.wake = Rec.wake
      /\ r.reserved = COST /\ r.reason = Rec.reason
      /\ r.continuation = Rec.continuation /\ r.resumed = call.now /\ r.ended = Rec.ended
      /\ r.response = Rec.response
  <2>1. Rec \in Records /\ COST \in 0..COST
    BY <1>2, <1>3
  <2> QED BY <1>3, <2>1 DEF Records, STATES
<1> HIDE DEF r
<1>5. hops[call.id] = 0 /\ Rec.continuation = None /\ Rec.response \in Responses
  BY <1>1, <1>2 DEF RecordOk, Records
<1>6. RecordOk(call.id, r, hops[call.id])
  BY <1>1, <1>2, <1>3, <1>4, <1>5 DEF RecordOk
<1>7. LaneOk(r, lane[call.id])
  BY <1>2, <1>3, <1>4, LaneMoves
<1>8. StoreOk' /\ BoundOk' /\ control'[call.id] = r
      /\ \A i \in Ids : i # call.id => control'[i] = control[i]
  BY <1>1, <1>4, <1>6, <1>7, SaveKeeps
<1>9. Rec' = r /\ Kinds(call.id)' = Kinds(call.id) /\ r # None
  BY <1>1, <1>4, <1>8, NoneAssumption DEF Rec, Kinds
<1>10. OwnerHolds'
  BY <1>1, <1>4, <1>9 DEF OwnerHolds
<1>11. CallOk'
  BY <1>1, <1>2, <1>4, <1>5, <1>9, <1>10 DEF CallOk, IInv, PC, Beyond
<1> QED BY <1>2, <1>8, <1>11 DEF IInv

LEMMA RecordIntentStep ==
    ASSUME IInv, RecordIntent
    PROVE  /\ IInv' /\ Rec.state # "TERMINAL" /\ "REQUEST" \in Kinds(call.id)
           /\ \A i \in Ids : i # call.id => lane'[i] = lane[i]
<1> DEFINE e == [kind |-> "RESUME_INTENT", says |-> Said("RESUME_INTENT", Rec), at |-> call.now]
<1>1. /\ pc = "intent" /\ pc' = "hop" /\ UNCHANGED <<call, exits, control, hops>>
      /\ Put("RESUME_INTENT", Rec, call.now)
  BY DEF RecordIntent, At
<1>2. /\ call \in Calls /\ call.id \in Ids /\ Rec \in Records
      /\ LaneOk(Rec, lane[call.id]) /\ Rec.state # "TERMINAL"
      /\ "REQUEST" \in Kinds(call.id)
      /\ Rec.reserved = COST
  BY <1>1, InHand DEF IInv, CallOk, Beyond, PC
<1>3. call.now \in Int
  BY <1>2, HumanAssumption DEF Calls
<1>4. EventOk(Rec, e)
  BY <1>2 DEF EventOk, Stops
<1>5. "TERMINAL" \notin Kinds(call.id)
  BY <1>2 DEF LaneOk, EventOk, Kinds
<1>6. /\ StoreOk' /\ BoundOk'
      /\ KindsOf(lane'[call.id]) = Kinds(call.id) \cup {"RESUME_INTENT"}
      /\ \A i \in Ids : i # call.id => lane'[i] = lane[i]
  BY <1>1, <1>2, <1>3, <1>4, <1>5, PutKeeps DEF KINDS
<1>7. Rec' = Rec /\ {"REQUEST", "RESUME_INTENT"} \subseteq Kinds(call.id)'
  <2>1. Kinds(call.id)' = KindsOf(lane'[call.id])
    BY <1>1 DEF Kinds, KindsOf
  <2>2. Rec' = Rec
    BY <1>1 DEF Rec
  <2> QED BY <1>2, <1>6, <2>1, <2>2
<1>8. OwnerHolds' = OwnerHolds
  BY <1>1, <1>7 DEF OwnerHolds
<1>9. CallOk'
  BY <1>1, <1>2, <1>7, <1>8 DEF CallOk, IInv, PC, Beyond
<1> QED BY <1>2, <1>6, <1>9 DEF IInv

LEMMA HopStep ==
    ASSUME IInv, Hop
    PROVE  IInv'
<1>1. /\ pc = "hop" /\ pc' = "receipt" /\ UNCHANGED <<call, exits, control, lane>>
      /\ hops' = [hops EXCEPT ![call.id] = @ + 1]
  BY DEF Hop, At
<1>2. /\ call.id \in Ids /\ Rec = control[call.id] /\ Rec # None
      /\ RecordOk(call.id, Rec, hops[call.id]) /\ Rec.reserved = COST /\ Rec.state # "TERMINAL"
      /\ Rec.continuation = None /\ Rec.reason = None /\ hops[call.id] = 0
      /\ Rec.response \in Responses
  BY <1>1, InHand DEF IInv, CallOk, Beyond, PC, RecordOk, Rec
<1>3. /\ hops' \in [Ids -> Nat] /\ hops'[call.id] = 1
      /\ \A i \in Ids : i # call.id => hops'[i] = hops[i]
  BY <1>1, <1>2 DEF IInv, StoreOk
<1>4. RecordOk(call.id, Rec, 1)
  <2>1. COST = 1 /\ None \notin Responses /\ None \notin REASONS
    BY NoneAssumption DEF COST
  <2> QED BY <1>2, <2>1 DEF RecordOk, REASONS, Stops
<1>5. StoreOk'
  BY <1>1, <1>2, <1>3, <1>4 DEF StoreOk, IInv
<1>6. BoundOk'
  BY <1>1 DEF BoundOk, IInv
<1>7. Rec' = Rec /\ Kinds(call.id)' = Kinds(call.id)
  BY <1>1 DEF Rec, Kinds
<1>8. CallOk'
  BY <1>1, <1>3, <1>7 DEF CallOk, IInv, PC, Beyond
<1> QED BY <1>5, <1>6, <1>8 DEF IInv

LEMMA RecordContinuationStep ==
    ASSUME IInv, RecordContinuation
    PROVE  IInv' /\ Rec.state # "TERMINAL"
           /\ \A i \in Ids : i # call.id => control'[i] = control[i]
<1> DEFINE r == [Rec EXCEPT !.continuation = Rec.response, !.state = "CONTINUATION_COMPLETED"]
<1>1. /\ pc = "receipt" /\ pc' = "complete" /\ Save(r) /\ UNCHANGED <<call, lane, hops, exits>>
  BY DEF RecordContinuation, At
<1>2. /\ call.id \in Ids /\ Rec \in Records
      /\ RecordOk(call.id, Rec, hops[call.id]) /\ LaneOk(Rec, lane[call.id])
      /\ lane[call.id] \in Seq(Events)
      /\ Rec.state # "TERMINAL" /\ "REQUEST" \in Kinds(call.id)
      /\ Rec.observed = call.now
      /\ Rec.response \in Responses /\ hops[call.id] = 1
  BY <1>1, InHand DEF IInv, CallOk, Beyond, PC
<1>3. Rec.response # None
  BY <1>2, NoneAssumption
<1>4. /\ r \in Records /\ r.observed = Rec.observed /\ r.state = "CONTINUATION_COMPLETED"
      /\ r.request = Rec.request /\ r.owner = Rec.owner /\ r.wake = Rec.wake
      /\ r.reserved = Rec.reserved /\ r.reason = Rec.reason
      /\ r.continuation = Rec.response /\ r.resumed = Rec.resumed /\ r.ended = Rec.ended
      /\ r.response = Rec.response
  BY <1>2 DEF Records, STATES
<1> HIDE DEF r
<1>5. None \notin REASONS
  BY NoneAssumption
<1>6. RecordOk(call.id, r, hops[call.id])
  BY <1>2, <1>3, <1>4, <1>5 DEF RecordOk, REASONS, Stops
<1>7. Rec.observed \in Int
  BY <1>2, HumanAssumption DEF Records
<1>8. LaneOk(r, lane[call.id])
  BY <1>2, <1>4, <1>7, LaneMoves
<1>9. StoreOk' /\ BoundOk' /\ control'[call.id] = r
      /\ \A i \in Ids : i # call.id => control'[i] = control[i]
  BY <1>1, <1>4, <1>6, <1>8, SaveKeeps
<1>10. Rec' = r /\ Kinds(call.id)' = Kinds(call.id) /\ r # None
  BY <1>1, <1>4, <1>9, NoneAssumption DEF Rec, Kinds
<1>11. CallOk'
  BY <1>1, <1>2, <1>3, <1>4, <1>10 DEF CallOk, IInv, PC, Beyond
<1> QED BY <1>2, <1>9, <1>11 DEF IInv

Publication == Stops \cup {"CONTINUATION", "TERMINAL"}

LEMMA PublishStep ==
    ASSUME IInv, NEW kind \in Publication, Publish(kind)
    PROVE  /\ IInv'
           /\ "TERMINAL" \notin Kinds(call.id)
           /\ \A i \in Ids : i # call.id => lane'[i] = lane[i]
<1> DEFINE e == [kind |-> kind, says |-> Said(kind, Rec), at |-> EvidenceTime(kind)]
<1>1. /\ pc = "finish" /\ pc' = "finish" /\ UNCHANGED <<call, exits, control, hops>>
      /\ Put(kind, Rec, EvidenceTime(kind)) /\ Owes(kind)
  BY DEF Publish, At
<1>2. /\ call.id \in Ids /\ Rec \in Records
      /\ RecordOk(call.id, Rec, hops[call.id]) /\ LaneOk(Rec, lane[call.id])
      /\ Rec.state = "TERMINAL" /\ "REQUEST" \in Kinds(call.id)
  BY <1>1, InHand DEF IInv, CallOk, PC
<1>3. kind \in KINDS /\ kind # "RESPONSE" /\ kind # "RESUME_INTENT" /\ kind # "REQUEST"
  BY DEF Publication, Stops, KINDS
<1>4. EvidenceTime(kind) \in Int
  <2>1. CASE kind = "CONTINUATION"
    <3>1. Rec.continuation # None
      BY <1>1, <2>1 DEF Owes
    <3>2. Rec.reserved # 0
      BY <1>2, <3>1 DEF RecordOk
    <3>3. Rec.resumed \in Times
      BY <1>2, <3>2 DEF RecordOk, Records
    <3> QED BY <2>1, <3>3, HumanAssumption DEF EvidenceTime
  <2>2. CASE kind # "CONTINUATION"
    <3>1. Rec.ended \in Times
      BY <1>2 DEF RecordOk, Records
    <3> QED BY <2>2, <3>1, HumanAssumption DEF EvidenceTime
  <2> QED BY <2>1, <2>2
<1>5. EventOk(Rec, e)
  BY <1>2, <1>3 DEF EventOk
<1>6. kind \notin Kinds(call.id)
  BY <1>1 DEF Owes
<1>7. Kinds(call.id) = KindsOf(lane[call.id])
  BY DEF Kinds, KindsOf
<1>8. \A k \in KINDS : Owed(Rec, k) <=> k \in Publication \ {"TERMINAL"}
          /\ IF k = "CONTINUATION" THEN Rec.continuation # None ELSE k = Rec.reason
  BY DEF Owed, Publication, Stops
<1>9. \A k \in Publication \ {"TERMINAL"} :
          Owed(Rec, k) /\ k \notin Kinds(call.id) <=> Owes(k)
  BY DEF Owes, Owed, Publication, Stops
<1>10. "TERMINAL" \notin Kinds(call.id)
  <2>1. CASE kind = "TERMINAL"
    BY <1>6, <2>1
  <2>2. CASE kind # "TERMINAL"
    <3>1. Owed(Rec, kind) /\ kind \in KINDS
      BY <1>1, <1>3, <1>9, <2>2
    <3> QED BY <1>2, <1>6, <1>7, <3>1 DEF LaneOk
  <2> QED BY <2>1, <2>2
<1>11. kind = "TERMINAL" => \A k \in KINDS : Owed(Rec, k) => k \in Kinds(call.id)
  <2> SUFFICES ASSUME kind = "TERMINAL", NEW k \in KINDS, Owed(Rec, k), k \notin Kinds(call.id)
               PROVE  FALSE
    OBVIOUS
  <2>1. Owes(k) /\ k \in Stops \cup {"CONTINUATION"}
    BY <1>9 DEF Owed, Publication, Stops
  <2>2. ~Owes("CONTINUATION") /\ \A s \in Stops : ~Owes(s)
    BY DEF Publish
  <2> QED BY <2>1, <2>2
<1>12. /\ StoreOk' /\ BoundOk'
       /\ KindsOf(lane'[call.id]) = Kinds(call.id) \cup {kind}
       /\ \A i \in Ids : i # call.id => lane'[i] = lane[i]
  BY <1>1, <1>2, <1>3, <1>4, <1>5, <1>10, <1>11, PutKeeps
<1>13. Rec' = Rec /\ "REQUEST" \in Kinds(call.id)'
  <2>1. Kinds(call.id)' = KindsOf(lane'[call.id])
    BY <1>1 DEF Kinds, KindsOf
  <2>2. Rec' = Rec
    BY <1>1 DEF Rec
  <2> QED BY <1>2, <1>12, <2>1, <2>2
<1>14. CallOk'
  BY <1>1, <1>2, <1>13 DEF CallOk, IInv, PC, Beyond
<1> QED BY <1>10, <1>12, <1>14 DEF IInv

LEMMA EndStep ==
    ASSUME IInv, GoOn \/ Reply \/ Finished \/ Crash
    PROVE  IInv' /\ UNCHANGED <<control, lane, hops>>
<1>1. exits \in Nat
  BY DEF IInv, CallOk
<1>2. UNCHANGED <<control, lane, hops>> /\ exits' \in Nat
      /\ (GoOn \/ (pc' = "idle" /\ call' = None))
  <2>1. CASE GoOn
    BY <1>1, <2>1 DEF GoOn, At
  <2>2. CASE Reply \/ Finished
    BY <1>1, <2>2 DEF Reply, Finished, Return
  <2>3. CASE Crash
    BY <1>1, <2>3 DEF Crash
  <2> QED BY <2>1, <2>2, <2>3
<1> QED BY <1>2, StayStep

----------------------------------------------------------------------------
\* The inductive invariant, and the properties as theorems.

\* The steps of Next: those that save the record in hand, those that write to
\* its lane, and the rest.
Saving  == Wait \/ SeeClock \/ BindResponse \/ Reserve \/ RecordContinuation
Ending  == StopOnRollback \/ StopInRecovery \/ CancelAnswered \/ CancelRequest \/ Complete
Staying == GoOn \/ Reply \/ Finished \/ Crash

LEMMA NextCases ==
    ASSUME Next
    PROVE  \/ Ask \/ Saving \/ Ending \/ Staying \/ Hop
           \/ RecordRequest \/ RecordResponse \/ RecordIntent
           \/ \E kind \in Publication : Publish(kind)
BY Zenon DEF Next, Proceed, Recover, Saving, Ending, Staying, Publication

LEMMA StepInv == IInv /\ [Next]_vars => IInv'
<1> SUFFICES ASSUME IInv, [Next]_vars PROVE IInv'
  OBVIOUS
<1>1. CASE UNCHANGED vars
  <2>1. StoreOk' /\ BoundOk'
    BY <1>1 DEF vars, IInv, StoreOk, BoundOk
  <2>2. CallOk'
    BY <1>1 DEF vars, IInv, CallOk, Rec, Kinds, OwnerHolds
  <2> QED BY <2>1, <2>2 DEF IInv
<1>2. CASE Ask
  BY <1>2, AskStep
<1>3. CASE Saving
  BY <1>3, WaitStep, SeeClockStep, BindResponseStep, ReserveStep, RecordContinuationStep
     DEF Saving
<1>4. CASE Ending
  BY <1>4, StopStep DEF Ending
<1>5. CASE Staying
  BY <1>5, EndStep DEF Staying
<1>6. CASE Hop
  BY <1>6, HopStep
<1>7. CASE RecordRequest \/ RecordResponse \/ RecordIntent
  BY <1>7, RecordRequestStep, RecordResponseStep, RecordIntentStep
<1>8. CASE \E kind \in Publication : Publish(kind)
  BY <1>8, PublishStep
<1> QED BY <1>1, <1>2, <1>3, <1>4, <1>5, <1>6, <1>7, <1>8, NextCases

LEMMA Invariant == Spec => []IInv
BY InitInv, StepInv, PTL DEF Spec

\* The stores and the running operation are well typed, whatever is asked.
THEOREM TypeCorrect == Spec => []TypeOK
<1>1. IInv => TypeOK
  BY DEF IInv, StoreOk, CallOk, TypeOK
<1> QED BY <1>1, Invariant, PTL

\* One hop per request, and per request id, task and wake of the scope.
THEOREM OneHopHolds == Spec => []OneHop
<1>1. IInv => OneHop
  <2> SUFFICES ASSUME IInv PROVE OneHop
    OBVIOUS
  <2>1. \A i \in Ids : hops[i] <= 1
    BY DEF IInv, StoreOk, RecordOk
  <2>2. \A i \in Hopped : control[i] # None
    BY DEF IInv, StoreOk, Hopped
  <2>3. ASSUME NEW i \in Hopped, NEW j \in Hopped, i # j
        PROVE  /\ control[i].request.requestId # control[j].request.requestId
               /\ control[i].request.task # control[j].request.task
               /\ control[i].wake = control[j].wake => control[i].wake = None
    <3>1. i \in Ids /\ j \in Ids
      BY DEF Hopped
    <3>2. ~Taken(control[i].request, control[i].wake, control[j])
      BY <2>2, <2>3, <3>1 DEF IInv, BoundOk
    <3> QED BY <3>2 DEF Taken
  <2> QED BY <2>1, <2>3 DEF OneHop
<1> QED BY <1>1, Invariant, PTL

\* The record never says less than what happened.
THEOREM CountHolds == Spec => []CountIsTrue
<1>1. IInv => CountIsTrue
  BY DEF IInv, StoreOk, RecordOk, CountIsTrue
<1> QED BY <1>1, Invariant, PTL

\* Journal and snapshot agree at every step of every operation.
THEOREM EvidenceHolds == Spec => []EvidenceAgrees
<1>1. IInv => EvidenceAgrees
  <2> SUFFICES ASSUME IInv, NEW i \in Ids
               PROVE  /\ \A n \in 1..Len(lane[i]) :
                           LET e == lane[i][n]
                           IN  /\ control[i] # None
                               /\ \A m \in 1..Len(lane[i]) : lane[i][m].kind = e.kind => m = n
                               /\ e.kind # "RESPONSE" \/ control[i].response # None
                                  => e.says = Said(e.kind, control[i])
                               /\ e.kind = "TERMINAL" => control[i].state = "TERMINAL"
                      /\ control[i] # None /\ control[i].response # None
                         => "RESPONSE" \in Kinds(i)
                      /\ pc = "operation" /\ i = call.id /\ control[i].response = None
                         => "RESPONSE" \notin Kinds(i)
    BY DEF EvidenceAgrees
  <2>1. control[i] = None => lane[i] = <<>>
    BY DEF IInv, StoreOk
  <2>2. CASE control[i] = None
    BY <2>1, <2>2 DEF IInv, CallOk, Rec
  <2>3. CASE control[i] # None
    <3>1. LaneOk(control[i], lane[i])
      BY <2>3 DEF IInv, StoreOk
    <3>2. control[i].response # None => "RESPONSE" \in Kinds(i)
      BY <3>1 DEF LaneOk, KindsOf, Kinds
    <3>3. pc = "operation" /\ i = call.id /\ control[i].response = None
             => "RESPONSE" \notin Kinds(i)
      BY DEF IInv, CallOk, Rec
    <3> QED BY <2>3, <3>1, <3>2, <3>3 DEF LaneOk, EventOk
  <2> QED BY <2>2, <2>3
<1> QED BY <1>1, Invariant, PTL

\* Only Hop counts a hop.
LEMMA HopsChange ==
    ASSUME Next, hops' # hops
    PROVE  Hop
<1>1. ASSUME Ask PROVE UNCHANGED hops
  <2>1. PICK roster \in Rosters, now \in Times :
        \/ \E q \in Requests, wake \in Wakes \cup {None} :
              NewRequest(q, wake, roster, now) \/ SameRequest(q, wake, roster, now)
        \/ \E p \in Responses : Respond(p, roster, now)
        \/ \E i \in Ids : Observe(i, roster, now)
        \/ \E q \in Requests, op \in {"resume", "cancel"} : Resume(q, op, roster, now)
    BY <1>1 DEF Ask
  <2> QED BY <2>1 DEF NewRequest, SameRequest, Respond, Observe, Resume, Begin
<1>2. ASSUME Saving PROVE UNCHANGED hops
  BY <1>2 DEF Saving, Wait, SeeClock, BindResponse, Reserve, RecordContinuation
<1>3. ASSUME Ending PROVE UNCHANGED hops
  BY <1>3 DEF Ending, StopOnRollback, StopInRecovery, CancelAnswered, CancelRequest, Complete,
              Terminate
<1>4. ASSUME Staying PROVE UNCHANGED hops
  BY <1>4 DEF Staying, GoOn, Reply, Finished, Crash
<1>5. ASSUME RecordRequest \/ RecordResponse \/ RecordIntent PROVE UNCHANGED hops
  BY <1>5 DEF RecordRequest, RecordResponse, RecordIntent
<1>6. ASSUME NEW kind \in Publication, Publish(kind) PROVE UNCHANGED hops
  BY <1>6 DEF Publish
<1> QED BY <1>1, <1>2, <1>3, <1>4, <1>5, <1>6, NextCases

\* A hop is of the bound owner, in the lifetime of the request, after its
\* CONTINUE and its RESUME_INTENT are in the journal.
THEOREM HopAnsweredHolds == Spec => HopIsAnswered
<1> DEFINE Answered(i) ==
          LET q == control[i].request
              owner == Resolve(q, call.roster)
          IN  /\ owner = control[i].owner /\ Unique(q, owner)
              /\ q.created <= call.now /\ call.now < q.expires
              /\ "RESUME_INTENT" \in Kinds(i)
              /\ \E n \in 1..Len(lane[i]) :
                    /\ lane[i][n].kind = "RESPONSE"
                    /\ lane[i][n].says.response.command = "CONTINUE"
                    /\ q.created <= lane[i][n].at /\ lane[i][n].at <= call.now
<1>1. ASSUME IInv, [Next]_vars, NEW i \in Ids, hops'[i] # hops[i]
      PROVE  Answered(i)
  <2>1. Hop
    BY <1>1, HopsChange DEF vars
  <2>2. pc = "hop" /\ i = call.id
    BY <1>1, <2>1 DEF Hop, At, IInv, StoreOk
  <2>3. /\ Rec = control[i] /\ Rec # None /\ RecordOk(i, Rec, hops[i]) /\ LaneOk(Rec, lane[i])
    BY <1>1, <2>2, InHand DEF Rec
  <2>4. /\ OwnerHolds /\ Rec.response.command = "CONTINUE" /\ Rec.response \in Responses
        /\ call.now < Rec.request.expires /\ Rec.observed = call.now
        /\ "RESUME_INTENT" \in Kinds(i)
    BY <1>1, <2>2 DEF IInv, CallOk, Beyond, PC
  <2>5. Rec.request.created <= call.now
    BY <2>3, <2>4 DEF RecordOk
  <2>6. Rec.response # None
    BY <2>4, NoneAssumption
  <2>7. PICK n \in 1..Len(lane[i]) : lane[i][n].kind = "RESPONSE"
    BY <2>3, <2>6 DEF LaneOk, KindsOf
  <2>8. EventOk(Rec, lane[i][n])
    BY <2>3, <2>7 DEF LaneOk
  <2>9. lane[i][n].says = Said("RESPONSE", Rec)
        /\ Rec.request.created <= lane[i][n].at /\ lane[i][n].at <= call.now
    BY <2>4, <2>6, <2>7, <2>8 DEF EventOk
  <2>10. lane[i][n].says.response.command = "CONTINUE"
    BY <2>4, <2>9 DEF Said
  <2> QED BY <2>2, <2>3, <2>4, <2>5, <2>7, <2>9, <2>10 DEF OwnerHolds
<1>2. IInv /\ [Next]_vars => \A i \in Ids : hops'[i] # hops[i] => Answered(i)
  BY <1>1
<1> QED BY <1>2, Invariant, PTL DEF Spec, HopIsAnswered

\* A save of the record in hand, before it is TERMINAL, and no other record.
LEMMA SavesOne ==
    ASSUME IInv, Saving \/ Ending
    PROVE  /\ pc # "idle" /\ Rec.state # "TERMINAL" /\ UNCHANGED lane
           /\ \A i \in Ids : i # call.id => control'[i] = control[i]
<1>1. CASE Ending
  <2>1. pc # "idle"
    BY <1>1 DEF Ending, StopOnRollback, StopInRecovery, CancelAnswered, CancelRequest, Complete
  <2> QED BY <1>1, <2>1, StopStep DEF Ending
<1>2. CASE Saving
  <2>1. pc \in Beyond \cup {"wait"} /\ UNCHANGED lane /\ \E r : Save(r)
    BY <1>2 DEF Saving, Wait, SeeClock, BindResponse, Reserve, RecordContinuation, At, Beyond, PC
  <2>2. Rec.state # "TERMINAL" /\ pc # "idle"
    BY <2>1 DEF IInv, CallOk, Beyond
  <2>3. \A i \in Ids : i # call.id => control'[i] = control[i]
    BY <2>1 DEF Save, IInv, StoreOk
  <2> QED BY <2>1, <2>2, <2>3
<1> QED BY <1>1, <1>2

LEMMA BeginsOne ==
    ASSUME IInv, Ask
    PROVE  /\ UNCHANGED lane
           /\ \A i \in Ids : control[i] # None => control'[i] = control[i]
<1>1. PICK roster \in Rosters, now \in Times :
        \/ \E q \in Requests, wake \in Wakes \cup {None} :
              NewRequest(q, wake, roster, now) \/ SameRequest(q, wake, roster, now)
        \/ \E p \in Responses : Respond(p, roster, now)
        \/ \E i \in Ids : Observe(i, roster, now)
        \/ \E q \in Requests, op \in {"resume", "cancel"} : Resume(q, op, roster, now)
  BY DEF Ask
<1>2. UNCHANGED lane
  BY <1>1 DEF NewRequest, SameRequest, Respond, Observe, Resume, Begin
<1>3. CASE \E q \in Requests, wake \in Wakes \cup {None} : NewRequest(q, wake, roster, now)
  <2>1. PICK q \in Requests, wake \in Wakes \cup {None} : NewRequest(q, wake, roster, now)
    BY <1>3
  <2>2. control[q.id] = None /\ \E r : control' = [control EXCEPT ![q.id] = r]
    BY <2>1 DEF NewRequest
  <2> QED BY <1>2, <2>2 DEF IInv, StoreOk
<1>4. CASE ~\E q \in Requests, wake \in Wakes \cup {None} : NewRequest(q, wake, roster, now)
  <2>1. UNCHANGED control
    BY <1>1, <1>4 DEF SameRequest, Respond, Observe, Resume
  <2> QED BY <1>2, <2>1
<1> QED BY <1>3, <1>4

\* A TERMINAL record never changes; a lane with its TERMINAL never grows.
THEOREM TerminalHolds == Spec => TerminalIsFinal
<1> DEFINE Final(i) ==
          /\ control[i] # None /\ control[i].state = "TERMINAL" => control'[i] = control[i]
          /\ "TERMINAL" \in Kinds(i) => lane'[i] = lane[i]
<1>1. ASSUME IInv, [Next]_vars, NEW i \in Ids
      PROVE  Final(i)
  <2>1. CASE UNCHANGED vars
    BY <2>1 DEF vars
  <2>2. CASE Ask
    BY <1>1, <2>2, BeginsOne
  <2>3. CASE Saving \/ Ending
    BY <1>1, <2>3, SavesOne DEF Rec
  <2>4. CASE Staying
    BY <1>1, <2>4, EndStep DEF Staying
  <2>5. CASE Hop
    BY <2>5 DEF Hop
  <2>6. CASE RecordRequest
    <3>1. UNCHANGED control /\ pc = "recover" /\ Put("REQUEST", Rec, Rec.request.created)
      BY <2>6 DEF RecordRequest, At
    <3>2. \A j \in Ids : j # call.id => lane'[j] = lane[j]
      BY <1>1, <3>1 DEF Put, IInv, StoreOk
    <3> QED BY <1>1, <2>6, <3>1, <3>2, RecordRequestStep
  <2>7. CASE RecordResponse \/ RecordIntent
    <3>1. UNCHANGED control /\ pc # "idle"
      BY <2>7 DEF RecordResponse, RecordIntent, At
    <3>2. Rec.state # "TERMINAL" /\ \A j \in Ids : j # call.id => lane'[j] = lane[j]
      BY <1>1, <2>7, RecordResponseStep, RecordIntentStep
    <3>3. LaneOk(Rec, lane[call.id])
      BY <1>1, <3>1, InHand
    <3>4. "TERMINAL" \notin Kinds(call.id)
      BY <3>2, <3>3 DEF LaneOk, EventOk, Kinds
    <3> QED BY <3>1, <3>2, <3>4
  <2>8. CASE \E kind \in Publication : Publish(kind)
    <3>1. UNCHANGED control
      BY <2>8 DEF Publish
    <3>2. "TERMINAL" \notin Kinds(call.id) /\ \A j \in Ids : j # call.id => lane'[j] = lane[j]
      BY <1>1, <2>8, PublishStep
    <3> QED BY <3>1, <3>2
  <2> QED BY <1>1, <2>1, <2>2, <2>3, <2>4, <2>5, <2>6, <2>7, <2>8, NextCases
<1>2. IInv /\ [Next]_vars => \A i \in Ids : Final(i)
  BY <1>1
<1> QED BY <1>2, Invariant, PTL DEF Spec, TerminalIsFinal

----------------------------------------------------------------------------
\* The order of a lane: ranks rise, and times do unless the clock was caught.

\* What an event's time is, and what it comes after.
TimeOk(r, e) ==
    /\ e.kind = "REQUEST" => e.at = r.request.created
    /\ e.kind = "RESPONSE" /\ r.reserved # 0 => e.at <= r.resumed
    /\ e.kind \in {"RESUME_INTENT", "CONTINUATION"} => r.reserved # 0 /\ e.at = r.resumed
    /\ e.kind \in Stops => e.kind = r.reason
    /\ e.kind \in Stops \cup {"TERMINAL"} => e.at = r.ended

Before(l, kind, at, kinds) ==
    \A n \in 1..Len(l) : /\ Rank[l[n].kind] < Rank[kind]
                         /\ l[n].at <= at \/ "CLOCK_ROLLBACK" \in kinds

OrderOk(r, l) ==
    /\ \A n \in 1..Len(l) : TimeOk(r, l[n])
    /\ \A n, m \in 1..Len(l) : n < m =>
          /\ Rank[l[n].kind] < Rank[l[m].kind]
          /\ l[n].at <= l[m].at \/ "CLOCK_ROLLBACK" \in KindsOf(l)
    /\ r.reserved # 0 => r.request.created <= r.resumed /\ r.resumed <= r.observed
    /\ r.state = "TERMINAL" /\ r.reason # "CLOCK_ROLLBACK" => r.observed <= r.ended
    /\ r.continuation # None /\ KindsOf(l) \cap (Stops \cup {"TERMINAL"}) # {} =>
          "CONTINUATION" \in KindsOf(l)
    /\ "TERMINAL" \in KindsOf(l) /\ r.reason \in Stops => r.reason \in KindsOf(l)

OrderKept ==
    /\ \A i \in Ids : control[i] # None => OrderOk(control[i], lane[i])
    /\ pc = "intent" => Rec.resumed = call.now

LEMMA RankIs ==
    /\ \A k \in KINDS : Rank[k] \in Nat
    /\ Rank["REQUEST"] = 1 /\ Rank["RESPONSE"] = 2 /\ Rank["RESUME_INTENT"] = 3
    /\ Rank["CONTINUATION"] = 4 /\ Rank["TERMINAL"] = 6
    /\ \A k \in Stops : Rank[k] = 5
<1>1. Rank["EXPIRED"] = 5 /\ Rank["CANCELLED"] = 5
  BY DEF Rank, KINDS, Stops
<1>2. Rank["RECOVERY_UNKNOWN"] = 5 /\ Rank["CLOCK_ROLLBACK"] = 5
  BY DEF Rank, KINDS, Stops
<1>3. Rank["REQUEST"] = 1 /\ Rank["RESPONSE"] = 2 /\ Rank["RESUME_INTENT"] = 3
  BY DEF Rank, KINDS, Stops
<1>4. Rank["CONTINUATION"] = 4 /\ Rank["TERMINAL"] = 6
  BY DEF Rank, KINDS, Stops
<1> HIDE DEF Rank
<1> QED BY <1>1, <1>2, <1>3, <1>4 DEF KINDS, Stops

LEMMA KindsOrdered ==
    ASSUME NEW l \in Seq(Events)
    PROVE  /\ Len(l) \in Nat
           /\ \A n \in 1..Len(l) : l[n] \in Events /\ l[n].kind \in KINDS /\ l[n].at \in Int
                                   /\ l[n].kind \in KindsOf(l)
           /\ \A k \in KindsOf(l) : \E n \in 1..Len(l) : l[n].kind = k
<1>1. Len(l) \in Nat /\ \A n \in 1..Len(l) : l[n] \in Events
  OBVIOUS
<1>2. \A e \in Events : e.kind \in KINDS /\ e.at \in Int
  BY DEF Events
<1> QED BY <1>1, <1>2 DEF KindsOf

\* One more event, later than those before it.
LEMMA OrderGrows ==
    ASSUME NEW r, NEW l \in Seq(Events), NEW e \in Events, OrderOk(r, l), TimeOk(r, e),
           Before(l, e.kind, e.at, KindsOf(l) \cup {e.kind}),
           r.continuation # None /\ e.kind \in Stops \cup {"TERMINAL"} => "CONTINUATION" \in KindsOf(l),
           e.kind = "TERMINAL" /\ r.reason \in Stops => r.reason \in KindsOf(l)
    PROVE  OrderOk(r, Append(l, e))
<1> DEFINE m == Append(l, e)
<1>1. /\ Len(m) = Len(l) + 1 /\ Len(l) \in Nat
      /\ \A n \in 1..Len(l) : m[n] = l[n]
      /\ m[Len(l) + 1] = e
      /\ KindsOf(m) = KindsOf(l) \cup {e.kind}
  BY AppendKinds
<1> HIDE DEF m
<1>2. \A n \in 1..Len(m) : n \in 1..Len(l) \/ n = Len(l) + 1
  BY <1>1
<1>3. \A n \in 1..Len(m) : TimeOk(r, m[n])
  BY <1>1, <1>2 DEF OrderOk
<1>4. ASSUME NEW n \in 1..Len(m), NEW k \in 1..Len(m), n < k
      PROVE  /\ Rank[m[n].kind] < Rank[m[k].kind]
             /\ m[n].at <= m[k].at \/ "CLOCK_ROLLBACK" \in KindsOf(m)
  <2>1. n \in 1..Len(l)
    BY <1>1, <1>2, <1>4
  <2>2. CASE k \in 1..Len(l)
    BY <1>1, <1>4, <2>1, <2>2 DEF OrderOk
  <2>3. CASE k = Len(l) + 1
    BY <1>1, <2>1, <2>3 DEF Before
  <2> QED BY <1>2, <2>2, <2>3
<1>5. OrderOk(r, m)
  BY <1>1, <1>3, <1>4 DEF OrderOk
<1> QED BY <1>5 DEF m

LEMMA OrderPut ==
    ASSUME IInv, OrderKept, pc # "idle", NEW kind \in KINDS, NEW r \in Records, NEW at \in Int,
           Put(kind, r, at), UNCHANGED <<control, call>>, pc' # "intent",
           kind \notin Kinds(call.id) =>
              /\ TimeOk(Rec, [kind |-> kind, says |-> Said(kind, r), at |-> at])
              /\ Before(lane[call.id], kind, at, KindsOf(lane[call.id]) \cup {kind})
              /\ Rec.continuation # None /\ kind \in Stops \cup {"TERMINAL"} =>
                    "CONTINUATION" \in KindsOf(lane[call.id])
              /\ kind = "TERMINAL" /\ Rec.reason \in Stops => Rec.reason \in KindsOf(lane[call.id])
    PROVE  OrderKept'
<1> DEFINE id == call.id
           e == [kind |-> kind, says |-> Said(kind, r), at |-> at]
<1>1. /\ id \in Ids /\ Rec = control[id] /\ Rec # None /\ lane[id] \in Seq(Events)
  BY InHand DEF Rec
<1>2. e \in Events /\ e.kind = kind /\ e.at = at
  BY SaidType DEF Events
<1>3. Kinds(id) = KindsOf(lane[id])
  BY DEF Kinds, KindsOf
<1>4. CASE kind \in Kinds(id)
  <2>1. lane' = lane
    BY <1>4 DEF Put
  <2> QED BY <2>1 DEF OrderKept
<1>5. CASE kind \notin Kinds(id)
  <2>1. lane' = [lane EXCEPT ![id] = Append(lane[id], e)] /\ lane \in [Ids -> Seq(Events)]
    BY <1>5 DEF Put, IInv, StoreOk
  <2>2. OrderOk(Rec, Append(lane[id], e))
    <3>1. OrderOk(Rec, lane[id])
      BY <1>1 DEF OrderKept
    <3> HIDE DEF e
    <3> QED BY <1>1, <1>2, <1>5, <3>1, OrderGrows DEF e
  <2> HIDE DEF e
  <2>3. /\ lane'[id] = Append(lane[id], e)
        /\ \A i \in Ids : i # id => lane'[i] = lane[i]
    BY <1>1, <2>1
  <2> QED BY <1>1, <2>2, <2>3 DEF OrderKept
<1> QED BY <1>4, <1>5

\* A save of the record in hand.
LEMMA OrderSave ==
    ASSUME IInv, OrderKept, pc # "idle", NEW r, Save(r), UNCHANGED lane,
           OrderOk(r, lane[call.id]),
           pc' = "intent" => r.resumed = call.now /\ UNCHANGED call
    PROVE  OrderKept'
<1>1. /\ call.id \in Ids
      /\ \A i \in Ids : control'[i] = IF i = call.id THEN r ELSE control[i]
  BY InHand DEF Save, IInv, StoreOk
<1>2. \A i \in Ids : control'[i] # None => OrderOk(control'[i], lane[i])
  BY <1>1 DEF OrderKept
<1>3. pc' = "intent" => Rec'.resumed = call.now
  BY <1>1 DEF Rec
<1> QED BY <1>2, <1>3 DEF OrderKept

\* The lane of a request that waits holds no end and no continuation.
LEMMA NothingLate ==
    ASSUME NEW r, NEW l \in Seq(Events), LaneOk(r, l), r.state # "TERMINAL"
    PROVE  KindsOf(l) \cap (Stops \cup {"CONTINUATION", "TERMINAL"}) = {}
<1>1. \A n \in 1..Len(l) : l[n].kind \notin Stops \cup {"CONTINUATION", "TERMINAL"}
  BY DEF LaneOk, EventOk
<1> QED BY <1>1 DEF KindsOf

LEMMA OrderMoves ==
    ASSUME NEW r, NEW s, NEW l \in Seq(Events), LaneOk(r, l), OrderOk(r, l), r.state # "TERMINAL",
           s.request = r.request,
           \/ s.reserved = r.reserved /\ s.resumed = r.resumed
           \/ r.reserved = 0 /\ s.resumed = r.observed,
           r.request.created \in Int, r.observed \in Int, s.observed \in Int,
           s.reserved # 0 => s.resumed \in Int,
           r.request.created <= r.observed, r.observed <= s.observed,
           s.state = "TERMINAL" /\ s.reason # "CLOCK_ROLLBACK" => s.observed <= s.ended
    PROVE  OrderOk(s, l)
<1>1. KindsOf(l) \cap (Stops \cup {"CONTINUATION", "TERMINAL"}) = {}
  BY NothingLate
<1>2. \A n \in 1..Len(l) : l[n].kind \in KindsOf(l)
  BY KindsOrdered
<1>3. s.reserved # 0 => s.request.created <= s.resumed /\ s.resumed <= s.observed
  <2>1. CASE s.reserved = r.reserved /\ s.resumed = r.resumed
    BY <2>1 DEF OrderOk
  <2>2. CASE r.reserved = 0 /\ s.resumed = r.observed
    BY <2>2
  <2> QED BY <2>1, <2>2
<1>4. ASSUME NEW n \in 1..Len(l)
      PROVE  TimeOk(s, l[n])
  <2>1. TimeOk(r, l[n]) /\ EventOk(r, l[n]) /\ l[n].kind \notin Stops \cup {"CONTINUATION", "TERMINAL"}
    BY <1>1, <1>2 DEF OrderOk, LaneOk
  <2>2. CASE s.reserved = r.reserved /\ s.resumed = r.resumed
    BY <2>1, <2>2 DEF TimeOk
  <2>3. CASE r.reserved = 0 /\ s.resumed = r.observed
    BY <2>1, <2>3 DEF TimeOk, EventOk, COST
  <2> QED BY <2>2, <2>3
<1> QED BY <1>1, <1>3, <1>4 DEF OrderOk

\* The record in hand, its times as numbers.
LEMMA InHandTimes ==
    ASSUME IInv, OrderKept, pc # "idle"
    PROVE  /\ Rec.request.created \in Int /\ Rec.observed \in Int /\ call.now \in Int
           /\ Rec.reserved # 0 => Rec.resumed \in Int
           /\ Rec.ended # None => Rec.ended \in Int
           /\ Rec.request.created <= Rec.observed
           /\ OrderOk(Rec, lane[call.id])
<1>1. call \in Calls /\ Rec \in Records /\ RecordOk(call.id, Rec, hops[call.id]) /\ call.id \in Ids
      /\ Rec # None
  BY InHand
<1>2. Rec.request \in Requests /\ Rec.observed \in Times /\ call.now \in Times
      /\ Rec.resumed \in Times \cup {None} /\ Rec.ended \in Times \cup {None}
  BY <1>1 DEF Calls, Records
<1>3. OrderOk(Rec, lane[call.id])
  BY <1>1 DEF OrderKept, Rec
<1> QED BY <1>1, <1>2, <1>3, HumanAssumption DEF RecordOk

LEMMA OrderSaving ==
    ASSUME IInv, OrderKept, Saving
    PROVE  OrderKept'
<1>0. /\ pc # "idle" /\ Rec.state # "TERMINAL" /\ UNCHANGED <<lane>>
  BY SavesOne
<1>1. /\ call \in Calls /\ call.id \in Ids /\ Rec \in Records
      /\ LaneOk(Rec, lane[call.id]) /\ lane[call.id] \in Seq(Events)
  BY <1>0, InHand
<1>2. /\ Rec.request.created \in Int /\ Rec.observed \in Int /\ call.now \in Int
      /\ Rec.reserved # 0 => Rec.resumed \in Int
      /\ Rec.request.created <= Rec.observed
      /\ OrderOk(Rec, lane[call.id])
  BY <1>0, InHandTimes
<1>3. PICK r : /\ Save(r) /\ r.request = Rec.request /\ r.state # "TERMINAL"
               /\ \/ r.reserved = Rec.reserved /\ r.resumed = Rec.resumed /\ pc' # "intent"
                  \/ Rec.reserved = 0 /\ r.resumed = Rec.observed /\ r.resumed = call.now /\ UNCHANGED call
               /\ r.observed \in Int /\ Rec.observed <= r.observed
  <2>1. CASE Wait
    <3> DEFINE r == [Rec EXCEPT !.state = "WAITING"]
    <3>1. Save(r) /\ pc' = "observe"
      BY <2>1 DEF Wait, At
    <3>2. /\ r.request = Rec.request /\ r.state = "WAITING" /\ r.reserved = Rec.reserved
          /\ r.resumed = Rec.resumed /\ r.observed = Rec.observed
      BY <1>1 DEF Records
    <3> HIDE DEF r
    <3> QED BY <1>2, <3>1, <3>2
  <2>2. CASE SeeClock
    <3>1. Save(Seen) /\ pc' = "decide" /\ Rec.observed <= call.now
      BY <1>2, <2>2 DEF SeeClock, At, ClockWentBack
    <3>2. /\ Seen.request = Rec.request /\ Seen.reserved = Rec.reserved
          /\ Seen.resumed = Rec.resumed /\ Seen.observed = call.now
          /\ Seen.state \in {Rec.state, "RESPONSE_DURABLE"}
      BY <1>1 DEF Records, Seen
    <3> HIDE DEF Seen
    <3> QED BY <1>0, <1>2, <3>1, <3>2
  <2>3. CASE BindResponse
    <3> DEFINE r == [Rec EXCEPT !.response = call.response, !.state = "RESPONSE_DURABLE"]
    <3>1. Save(r) /\ pc' # "intent"
      BY <2>3 DEF BindResponse, Return
    <3>2. /\ r.request = Rec.request /\ r.state = "RESPONSE_DURABLE" /\ r.reserved = Rec.reserved
          /\ r.resumed = Rec.resumed /\ r.observed = Rec.observed
      BY <1>1 DEF Records
    <3> HIDE DEF r
    <3> QED BY <1>2, <3>1, <3>2
  <2>4. CASE Reserve
    <3> DEFINE r == [Rec EXCEPT !.reserved = COST, !.state = "RESUME_INTENT_DURABLE", !.resumed = call.now]
    <3>1. Save(r) /\ UNCHANGED call /\ Rec.observed = call.now /\ Rec.reserved = 0
      BY <2>4 DEF Reserve, At, Resumable, IInv, CallOk, Beyond, PC
    <3>2. /\ r.request = Rec.request /\ r.state = "RESUME_INTENT_DURABLE"
          /\ r.resumed = call.now /\ r.observed = Rec.observed
      BY <1>1 DEF Records
    <3> HIDE DEF r
    <3> QED BY <1>2, <3>1, <3>2
  <2>5. CASE RecordContinuation
    <3> DEFINE r == [Rec EXCEPT !.continuation = Rec.response, !.state = "CONTINUATION_COMPLETED"]
    <3>1. Save(r) /\ pc' = "complete"
      BY <2>5 DEF RecordContinuation, At
    <3>2. /\ r.request = Rec.request /\ r.state = "CONTINUATION_COMPLETED" /\ r.reserved = Rec.reserved
          /\ r.resumed = Rec.resumed /\ r.observed = Rec.observed
      BY <1>1 DEF Records
    <3> HIDE DEF r
    <3> QED BY <1>2, <3>1, <3>2
  <2> QED BY <2>1, <2>2, <2>3, <2>4, <2>5 DEF Saving
<1>4. OrderOk(r, lane[call.id])
  <2>1. r.reserved # 0 => r.resumed \in Int
    BY <1>2, <1>3
  <2> QED BY <1>0, <1>1, <1>2, <1>3, <2>1, OrderMoves
<1> QED BY <1>0, <1>3, <1>4, OrderSave

LEMMA OrderEnding ==
    ASSUME IInv, OrderKept, Ending
    PROVE  OrderKept'
<1>0. /\ pc # "idle" /\ Rec.state # "TERMINAL" /\ UNCHANGED <<lane>>
  BY SavesOne
<1>1. /\ call \in Calls /\ call.id \in Ids /\ Rec \in Records
      /\ LaneOk(Rec, lane[call.id]) /\ lane[call.id] \in Seq(Events)
  BY <1>0, InHand
<1>2. /\ Rec.request.created \in Int /\ Rec.observed \in Int /\ call.now \in Int
      /\ Rec.reserved # 0 => Rec.resumed \in Int
      /\ Rec.request.created <= Rec.observed
      /\ OrderOk(Rec, lane[call.id])
  BY <1>0, InHandTimes
<1>3. PICK reason : /\ Terminate(reason)
                    /\ reason # "CLOCK_ROLLBACK" => Rec.observed <= call.now
  <2>1. CASE StopOnRollback
    BY <2>1 DEF StopOnRollback
  <2>2. CASE StopInRecovery \/ CancelAnswered \/ CancelRequest \/ Complete
    <3>1. pc \in {"decide", "cancel", "operation", "complete"} /\ \E x : Terminate(x)
      BY <2>2 DEF StopInRecovery, CancelAnswered, CancelRequest, Complete
    <3>2. Rec.observed = call.now
      BY <3>1 DEF IInv, CallOk, Beyond, PC
    <3> QED BY <1>2, <3>1, <3>2
  <2> QED BY <2>1, <2>2 DEF Ending
<1> DEFINE r == [Rec EXCEPT !.state = "TERMINAL", !.reason = reason, !.ended = call.now]
<1>4. Save(r) /\ pc' = "finish"
  BY <1>3 DEF Terminate
<1>5. /\ r.request = Rec.request /\ r.reserved = Rec.reserved /\ r.resumed = Rec.resumed
      /\ r.observed = Rec.observed /\ r.reason = reason /\ r.ended = call.now
  BY <1>1 DEF Records
<1> HIDE DEF r
<1>6. OrderOk(r, lane[call.id])
  BY <1>0, <1>1, <1>2, <1>3, <1>5, OrderMoves
<1> QED BY <1>0, <1>4, <1>6, OrderSave

\* Steps that leave both stores alone.
LEMMA OrderStays ==
    ASSUME OrderKept, UNCHANGED <<control, lane>>, pc' # "intent" \/ UNCHANGED <<pc, call>>
    PROVE  OrderKept'
<1>1. pc' = "intent" => Rec' = Rec /\ UNCHANGED <<pc, call>>
  BY DEF Rec
<1> QED BY <1>1 DEF OrderKept

LEMMA OrderAsk ==
    ASSUME IInv, OrderKept, Ask
    PROVE  OrderKept'
<1>1. /\ UNCHANGED lane /\ pc' = "recover"
      /\ \A i \in Ids : control[i] # None => control'[i] = control[i]
  <2>1. PICK roster \in Rosters, now \in Times :
            \/ \E q \in Requests, wake \in Wakes \cup {None} :
                  NewRequest(q, wake, roster, now) \/ SameRequest(q, wake, roster, now)
            \/ \E p \in Responses : Respond(p, roster, now)
            \/ \E i \in Ids : Observe(i, roster, now)
            \/ \E q \in Requests, op \in {"resume", "cancel"} : Resume(q, op, roster, now)
    BY DEF Ask
  <2>2. pc' = "recover"
    BY <2>1 DEF NewRequest, SameRequest, Respond, Observe, Resume, Begin
  <2> QED BY <2>2, BeginsOne
<1>2. ASSUME NEW i \in Ids, control[i] = None, control'[i] # None
      PROVE  OrderOk(control'[i], lane[i])
  <2>1. PICK q \in Requests, wake \in Wakes \cup {None}, roster \in Rosters, now \in Times :
            NewRequest(q, wake, roster, now)
    <3>1. control' # control
      BY <1>2
    <3> QED BY <3>1 DEF Ask, SameRequest, Respond, Observe, Resume
  <2> DEFINE r == [request |-> q, owner |-> Resolve(q, roster), wake |-> wake,
                   state |-> "CREATED", response |-> None, reserved |-> 0,
                   continuation |-> None, reason |-> None, observed |-> now,
                   resumed |-> None, ended |-> None]
  <2>2. control' = [control EXCEPT ![q.id] = r] /\ control[q.id] = None
    BY <2>1 DEF NewRequest
  <2>3. r.state = "CREATED" /\ r.reserved = 0 /\ r.continuation = None /\ r.reason = None
    OBVIOUS
  <2> HIDE DEF r
  <2>4. control'[i] = r
    BY <1>2, <2>2 DEF IInv, StoreOk
  <2>5. lane[i] = <<>> /\ KindsOf(lane[i]) = {}
    BY <1>2 DEF IInv, StoreOk, KindsOf
  <2> QED BY <2>3, <2>4, <2>5 DEF OrderOk
<1> QED BY <1>1, <1>2 DEF OrderKept

LEMMA OrderRequest ==
    ASSUME IInv, OrderKept, RecordRequest
    PROVE  OrderKept'
<1>1. /\ pc = "recover" /\ pc' # "intent" /\ UNCHANGED <<control, call>>
      /\ Put("REQUEST", Rec, Rec.request.created)
  BY DEF RecordRequest, At, AfterRequest
<1>2. /\ Rec \in Records /\ LaneOk(Rec, lane[call.id]) /\ lane[call.id] \in Seq(Events)
      /\ Rec.request.created \in Int /\ OrderOk(Rec, lane[call.id])
  BY <1>1, InHand, InHandTimes
<1>3. "REQUEST" \notin Kinds(call.id) => Len(lane[call.id]) = 0
  <2>1. Kinds(call.id) = KindsOf(lane[call.id]) /\ Len(lane[call.id]) \in Nat
    BY <1>2, KindsOrdered DEF Kinds, KindsOf
  <2> QED BY <1>2, <2>1 DEF LaneOk
<1>4. TimeOk(Rec, [kind |-> "REQUEST", says |-> Said("REQUEST", Rec), at |-> Rec.request.created])
  BY DEF TimeOk, Stops
<1> QED BY <1>1, <1>2, <1>3, <1>4, OrderPut DEF Before, KINDS, Stops

LEMMA OrderResponse ==
    ASSUME IInv, OrderKept, RecordResponse
    PROVE  OrderKept'
<1> DEFINE r == [Rec EXCEPT !.response = call.response]
           l == lane[call.id]
<1>1. /\ pc = "operation" /\ pc' = "bind" /\ UNCHANGED <<control, call>>
      /\ call.op = "respond" /\ Put("RESPONSE", r, call.now)
  BY DEF RecordResponse, At
<1>2. /\ Rec \in Records /\ LaneOk(Rec, l) /\ l \in Seq(Events) /\ OrderOk(Rec, l)
      /\ call.now \in Int /\ Rec.request.created \in Int /\ Rec.request.created <= Rec.observed
      /\ call.response \in Responses /\ Rec.state # "TERMINAL"
      /\ Rec.observed = call.now /\ Rec.reserved = 0
  BY <1>1, InHand, InHandTimes DEF IInv, CallOk, Beyond, PC
<1>3. r \in Records
  BY <1>2 DEF Records
<1>4. Kinds(call.id) = KindsOf(l)
  BY DEF Kinds, KindsOf
<1>5. ASSUME "RESPONSE" \notin Kinds(call.id)
      PROVE  \A n \in 1..Len(l) : l[n].kind = "REQUEST" /\ l[n].at <= call.now
  <2> SUFFICES ASSUME NEW n \in 1..Len(l) PROVE l[n].kind = "REQUEST" /\ l[n].at <= call.now
    OBVIOUS
  <2>1. l[n].kind \in KINDS /\ l[n].kind \in KindsOf(l)
    BY <1>2, KindsOrdered
  <2>2. l[n].kind \notin Stops \cup {"CONTINUATION", "TERMINAL"}
    BY <1>2, <2>1, NothingLate
  <2>3. l[n].kind # "RESUME_INTENT" /\ l[n].kind # "RESPONSE"
    BY <1>2, <1>4, <1>5, <2>1 DEF OrderOk, TimeOk
  <2>4. l[n].kind = "REQUEST"
    BY <2>1, <2>2, <2>3 DEF KINDS
  <2> QED BY <1>2, <2>4 DEF OrderOk, TimeOk
<1>6. TimeOk(Rec, [kind |-> "RESPONSE", says |-> Said("RESPONSE", r), at |-> call.now])
  BY <1>2 DEF TimeOk, Stops
<1>7. "RESPONSE" \notin Kinds(call.id) => Before(l, "RESPONSE", call.now, KindsOf(l) \cup {"RESPONSE"})
  BY <1>5, RankIs DEF Before
<1> HIDE DEF r, l
<1> QED BY <1>1, <1>2, <1>3, <1>6, <1>7, OrderPut DEF KINDS, Stops, l

LEMMA OrderIntent ==
    ASSUME IInv, OrderKept, RecordIntent
    PROVE  OrderKept'
<1> DEFINE l == lane[call.id]
<1>1. /\ pc = "intent" /\ pc' = "hop" /\ UNCHANGED <<control, call>>
      /\ Put("RESUME_INTENT", Rec, call.now)
  BY DEF RecordIntent, At
<1>2. /\ Rec \in Records /\ LaneOk(Rec, l) /\ l \in Seq(Events) /\ OrderOk(Rec, l)
      /\ call.now \in Int /\ Rec.request.created \in Int /\ Rec.request.created <= Rec.observed
      /\ Rec.state # "TERMINAL" /\ Rec.observed = call.now /\ Rec.reserved # 0
      /\ Rec.resumed = call.now
  BY <1>1, InHand, InHandTimes DEF IInv, CallOk, Beyond, PC, COST, OrderKept
<1>3. Kinds(call.id) = KindsOf(l)
  BY DEF Kinds, KindsOf
<1>4. ASSUME "RESUME_INTENT" \notin Kinds(call.id), NEW n \in 1..Len(l)
      PROVE  l[n].kind \in {"REQUEST", "RESPONSE"} /\ l[n].at <= call.now
  <2>1. l[n].kind \in KINDS /\ l[n].kind \in KindsOf(l)
    BY <1>2, KindsOrdered
  <2>2. l[n].kind \notin Stops \cup {"CONTINUATION", "TERMINAL"}
    BY <1>2, <2>1, NothingLate
  <2>3. l[n].kind \in {"REQUEST", "RESPONSE"}
    BY <1>3, <1>4, <2>1, <2>2 DEF KINDS
  <2> QED BY <1>2, <2>3 DEF OrderOk, TimeOk
<1>5. TimeOk(Rec, [kind |-> "RESUME_INTENT", says |-> Said("RESUME_INTENT", Rec), at |-> call.now])
  BY <1>2 DEF TimeOk, Stops
<1>6. "RESUME_INTENT" \notin Kinds(call.id) =>
          Before(l, "RESUME_INTENT", call.now, KindsOf(l) \cup {"RESUME_INTENT"})
  BY <1>4, RankIs DEF Before
<1> HIDE DEF l
<1> QED BY <1>1, <1>2, <1>5, <1>6, OrderPut DEF KINDS, Stops, l

LEMMA OrderPublish ==
    ASSUME IInv, OrderKept, NEW kind \in Publication, Publish(kind)
    PROVE  OrderKept'
<1> DEFINE l == lane[call.id]
           at == EvidenceTime(kind)
           e == [kind |-> kind, says |-> Said(kind, Rec), at |-> at]
<1>1. /\ pc = "finish" /\ pc' = "finish" /\ UNCHANGED <<control, call>>
      /\ Put(kind, Rec, at) /\ Owes(kind)
      /\ kind # "CONTINUATION" => ~Owes("CONTINUATION")
      /\ kind = "TERMINAL" => \A k \in Stops : ~Owes(k)
  BY DEF Publish, At
<1>2. /\ Rec \in Records /\ LaneOk(Rec, l) /\ l \in Seq(Events) /\ OrderOk(Rec, l)
      /\ Rec.request.created \in Int /\ Rec.observed \in Int /\ Rec.request.created <= Rec.observed
      /\ Rec.state = "TERMINAL" /\ Rec.ended # None /\ Rec.ended \in Int
      /\ Rec.reserved # 0 => Rec.resumed \in Int
      /\ Rec.continuation # None => Rec.reserved # 0
      /\ "TERMINAL" \notin Kinds(call.id)
  <2>1. pc # "idle"
    BY <1>1
  <2>2. /\ RecordOk(call.id, Rec, hops[call.id]) /\ Rec.state = "TERMINAL"
    BY <1>1, <2>1, InHand DEF IInv, CallOk
  <2>3. "TERMINAL" \notin Kinds(call.id)
    BY PublishStep
  <2> QED BY <2>1, <2>2, <2>3, InHand, InHandTimes DEF RecordOk
<1>3. Kinds(call.id) = KindsOf(l) /\ kind \notin Kinds(call.id) /\ kind \in KINDS
  BY <1>1 DEF Kinds, KindsOf, Owes, KINDS, Publication
<1>4. /\ kind = "CONTINUATION" => Rec.continuation # None /\ Rec.reserved # 0 /\ at = Rec.resumed
      /\ kind # "CONTINUATION" => at = Rec.ended
      /\ kind \in Stops => kind = Rec.reason
      /\ kind # "CONTINUATION" /\ Rec.continuation # None => "CONTINUATION" \in KindsOf(l)
      /\ kind = "TERMINAL" /\ Rec.reason \in Stops => Rec.reason \in KindsOf(l)
  BY <1>1, <1>2, <1>3 DEF EvidenceTime, Owes, Stops
<1>5. at \in Int
  BY <1>2, <1>4
<1>6. TimeOk(Rec, e)
  <2>1. e.kind = kind /\ e.at = at
    OBVIOUS
  <2> HIDE DEF e, at
  <2> QED BY <1>4, <2>1 DEF TimeOk, Publication, Stops
<1>7. ASSUME NEW n \in 1..Len(l)
      PROVE  Rank[l[n].kind] < Rank[kind]
  <2>1. l[n].kind \in KINDS /\ l[n].kind \in KindsOf(l) /\ TimeOk(Rec, l[n])
    BY <1>2, KindsOrdered DEF OrderOk
  <2>2. l[n].kind # "TERMINAL"
    BY <1>2, <1>3, <2>1
  <2>3. l[n].kind \in Stops => kind = "TERMINAL"
    <3> SUFFICES ASSUME l[n].kind \in Stops, kind # "TERMINAL" PROVE FALSE
      OBVIOUS
    <3>1. l[n].kind = Rec.reason
      BY <2>1 DEF TimeOk
    <3>2. kind \notin Stops
      BY <1>3, <1>4, <2>1, <3>1
    <3>3. kind = "CONTINUATION"
      BY <3>2 DEF Publication
    <3> QED BY <1>2, <1>3, <1>4, <2>1, <3>3 DEF OrderOk
  <2>4. CASE l[n].kind \in Stops
    BY <2>3, <2>4, RankIs
  <2>5. CASE l[n].kind \in {"REQUEST", "RESPONSE", "RESUME_INTENT"}
    BY <2>5, RankIs DEF Publication
  <2>6. CASE l[n].kind = "CONTINUATION"
    <3>1. kind \in Stops \cup {"TERMINAL"}
      BY <1>3, <2>1, <2>6 DEF Publication
    <3> QED BY <2>6, <3>1, RankIs
  <2> QED BY <2>1, <2>2, <2>4, <2>5, <2>6 DEF KINDS
<1>8. ASSUME NEW n \in 1..Len(l)
      PROVE  l[n].at <= at \/ "CLOCK_ROLLBACK" \in KindsOf(l) \cup {kind}
  <2>1. /\ l[n].kind \in KINDS /\ l[n].kind \in KindsOf(l) /\ TimeOk(Rec, l[n]) /\ EventOk(Rec, l[n])
        /\ l[n].at \in Int
    BY <1>2, KindsOrdered DEF OrderOk, LaneOk
  <2>2. Rec.reserved # 0 => Rec.request.created <= Rec.resumed /\ Rec.resumed <= Rec.observed
    BY <1>2 DEF OrderOk
  <2>3. Rec.reason # "CLOCK_ROLLBACK" => Rec.observed <= Rec.ended
    BY <1>2 DEF OrderOk
  <2>4. CASE kind = "CONTINUATION"
    <3>1. l[n].kind \in {"REQUEST", "RESPONSE", "RESUME_INTENT"}
      BY <1>7, <2>1, <2>4, RankIs DEF KINDS
    <3> QED BY <1>2, <1>4, <2>1, <2>2, <2>4, <3>1 DEF TimeOk
  <2>5. CASE kind # "CONTINUATION"
    <3>1. CASE Rec.reason = "CLOCK_ROLLBACK"
      BY <1>3, <1>4, <2>5, <3>1 DEF Stops, Publication
    <3>2. CASE Rec.reason # "CLOCK_ROLLBACK"
      <4>1. CASE l[n].kind \in {"REQUEST", "RESPONSE"}
        BY <1>2, <1>4, <2>1, <2>3, <2>5, <3>2, <4>1 DEF TimeOk, EventOk
      <4>2. CASE l[n].kind \in {"RESUME_INTENT", "CONTINUATION"}
        BY <1>2, <1>4, <2>1, <2>2, <2>3, <2>5, <3>2, <4>2 DEF TimeOk
      <4>3. CASE l[n].kind \in Stops \cup {"TERMINAL"}
        BY <1>2, <1>4, <2>1, <2>5, <4>3 DEF TimeOk
      <4> QED BY <2>1, <4>1, <4>2, <4>3 DEF KINDS
    <3> QED BY <3>1, <3>2
  <2> QED BY <2>4, <2>5
<1>9. Before(l, kind, at, KindsOf(l) \cup {kind})
  BY <1>7, <1>8 DEF Before
<1>10. /\ TimeOk(Rec, [kind |-> kind, says |-> Said(kind, Rec), at |-> at])
       /\ Before(lane[call.id], kind, at, KindsOf(lane[call.id]) \cup {kind})
       /\ Rec.continuation # None /\ kind \in Stops \cup {"TERMINAL"} =>
             "CONTINUATION" \in KindsOf(lane[call.id])
       /\ kind = "TERMINAL" /\ Rec.reason \in Stops => Rec.reason \in KindsOf(lane[call.id])
  <2>1. kind \in Stops \cup {"TERMINAL"} => kind # "CONTINUATION"
    BY DEF Stops
  <2> HIDE DEF at
  <2> QED BY <1>4, <1>6, <1>9, <2>1
<1>11. pc # "idle" /\ pc' # "intent"
  BY <1>1
<1> HIDE DEF l, at, e
<1> QED BY <1>1, <1>2, <1>3, <1>5, <1>10, <1>11, OrderPut

LEMMA OrderStep == IInv /\ OrderKept /\ [Next]_vars => OrderKept'
<1> SUFFICES ASSUME IInv, OrderKept, [Next]_vars PROVE OrderKept'
  OBVIOUS
<1>1. CASE UNCHANGED vars
  BY <1>1, OrderStays DEF vars
<1>2. CASE Staying \/ Hop
  BY <1>2, OrderStays DEF Staying, GoOn, Reply, Finished, Crash, Hop, At, Return
<1>3. CASE Saving \/ Ending
  BY <1>3, OrderSaving, OrderEnding
<1>4. CASE RecordRequest \/ RecordResponse \/ RecordIntent
  BY <1>4, OrderRequest, OrderResponse, OrderIntent
<1>5. CASE \E kind \in Publication : Publish(kind)
  BY <1>5, OrderPublish
<1> QED BY <1>1, <1>2, <1>3, <1>4, <1>5, OrderAsk, NextCases

\* The lane tells the story in order, whatever exits, clocks and operations
\* lie between the writing of its events (runtime.py:604-732).
THEOREM LaneHolds == Spec => []LaneInOrder
<1>1. Init => OrderKept
  BY DEF Init, OrderKept
<1>2. IInv /\ OrderKept => LaneInOrder
  <2> SUFFICES ASSUME IInv, OrderKept, NEW i \in Ids PROVE
          \A n, m \in 1..Len(lane[i]) :
            n < m => /\ Rank[lane[i][n].kind] < Rank[lane[i][m].kind]
                     /\ lane[i][n].at <= lane[i][m].at \/ "CLOCK_ROLLBACK" \in Kinds(i)
    BY DEF LaneInOrder
  <2>1. CASE control[i] = None
    <3>1. lane[i] = <<>>
      BY <2>1 DEF IInv, StoreOk
    <3> QED BY <3>1
  <2>2. CASE control[i] # None
    <3>1. Kinds(i) = KindsOf(lane[i])
      BY DEF Kinds, KindsOf
    <3> QED BY <2>2, <3>1 DEF OrderKept, OrderOk
  <2> QED BY <2>1, <2>2
<1> QED BY <1>1, <1>2, OrderStep, Invariant, PTL DEF Spec
=============================================================================
