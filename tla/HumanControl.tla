---------------------------- MODULE HumanControl ----------------------------
(***************************************************************************)
(* The human handover of companion_mind/owned_home: human_request,         *)
(* human_respond, human_observe and human_resume of runtime.py over the    *)
(* control snapshot of human_control.py and the request's evidence lane in *)
(* the journal.  Two stores, an exit possible between any two durable      *)
(* steps, and a clock that is whatever the opening was given.              *)
(*                                                                         *)
(* Every operation opens its own runtime (testport.py, shell.py), so the   *)
(* record in memory is the saved one at every step below.  One scope.      *)
(***************************************************************************)
EXTENDS Integers, FiniteSets, Sequences

CONSTANTS
    Requests,    \* HumanRequests callers may send
    Responses,   \* HumanResponses: the request answered, an id, a command
    Wakes,       \* wake candidates that pass the gate
    Rosters,     \* owner fixtures of an opening: how often each is listed
    Times,       \* what human_now may be
    MaxRequests, \* 1024 in HumanControl.bind
    MaxExits,    \* bound on exits in a behaviour
    None         \* absent: record, response, continuation, reason, wake, time

Ids     == {q.id : q \in Requests}
Command == {"CONTINUE", "HOLD", "CANCEL", "UNSURE"}
COST    == 1   \* the four costs of continuation.py, of which a budget covers all or not

ASSUME HumanAssumption ==
    /\ Times \subseteq Int
    /\ \A q \in Requests : /\ {q.created, q.expires} \subseteq Int
                           /\ q.created < q.expires
                           /\ q.budget \in 0..COST
    /\ \A p \in Responses : p.request \in Requests /\ p.command \in Command
    /\ MaxRequests \in Nat
    /\ MaxExits \in Nat

VARIABLES
    control,   \* snapshot: records by human_request_id
    lane,      \* journal: the request's evidence, in sequence_no order
    hops,      \* how often one_hop ran for a request
    pc,        \* where the running operation is
    call,      \* the operation, its request or response, and its opening
    exits      \* exits so far

vars == <<control, lane, hops, pc, call, exits>>

STATES  == {"CREATED", "WAITING", "RESPONSE_DURABLE", "RESUME_INTENT_DURABLE",
            "CONTINUATION_COMPLETED", "TERMINAL"}
Stops   == {"EXPIRED", "CANCELLED", "RECOVERY_UNKNOWN", "CLOCK_ROLLBACK"}
REASONS == Stops \cup {"ONE_HOP_COMPLETE"}
KINDS   == Stops \cup {"REQUEST", "RESPONSE", "RESUME_INTENT", "CONTINUATION", "TERMINAL"}
PC      == {"idle", "recover", "wait", "observe", "decide", "operation", "bind",
            "cancel", "intent", "hop", "receipt", "complete", "finish"}

----------------------------------------------------------------------------
\* Owners: the fixtures that match a request, with their multiplicity.  A
\* roster lists active fixtures only, each with the tasks it may own.

Resolve(q, roster) ==
    LET matching == {f \in DOMAIN roster : roster[f] > 0 /\ q.task \in f.tasks}
    IN  [f \in matching |-> roster[f]]

Unique(q, owner) ==
    \E f \in DOMAIN owner : DOMAIN owner = {f} /\ owner[f] = 1 /\ f.owner = q.owner

Owners == {Resolve(q, roster) : q \in Requests, roster \in Rosters}

Records ==
    [request : Requests, owner : Owners, wake : Wakes \cup {None}, state : STATES,
     response : Responses \cup {None}, reserved : 0..COST,
     continuation : Responses \cup {None}, reason : REASONS \cup {None},
     observed : Times, resumed : Times \cup {None}, ended : Times \cup {None}]

\* What evidence of a kind says, from the record it is written from.  The
\* continuation is a function of the response it continued.
Said(kind, r) ==
    [owner        |-> IF kind \in {"REQUEST", "RESUME_INTENT"} THEN r.owner ELSE None,
     response     |-> IF kind \in {"RESPONSE", "RESUME_INTENT", "TERMINAL"}
                      THEN r.response ELSE None,
     continuation |-> IF kind \in {"CONTINUATION", "TERMINAL"} THEN r.continuation ELSE None,
     reason       |-> IF kind \in Stops \cup {"TERMINAL"} THEN r.reason ELSE None,
     used         |-> IF kind \in {"RESUME_INTENT", "TERMINAL"} THEN r.reserved ELSE 0]

Saids  == [owner : Owners \cup {None}, response : Responses \cup {None},
           continuation : Responses \cup {None}, reason : REASONS \cup {None}, used : 0..COST]
Events == [kind : KINDS, says : Saids, at : Int]
Calls  == [op : {"request", "respond", "observe", "resume", "cancel"}, id : Ids,
           response : Responses \cup {None}, roster : Rosters, now : Times]

ASSUME NoneAssumption == None \notin Records \cup Responses \cup Times \cup REASONS

TypeOK ==
    /\ control \in [Ids -> Records \cup {None}]
    /\ lane \in [Ids -> Seq(Events)]
    /\ hops \in [Ids -> Nat]
    /\ pc \in PC
    /\ call \in Calls \cup {None}
    /\ exits \in Nat

Init ==
    /\ control = [i \in Ids |-> None]
    /\ lane = [i \in Ids |-> <<>>]
    /\ hops = [i \in Ids |-> 0]
    /\ pc = "idle"
    /\ call = None
    /\ exits = 0

----------------------------------------------------------------------------
\* What an operation sees and writes.

Rec == control[call.id]

Kinds(i)   == {lane[i][n].kind : n \in 1..Len(lane[i])}
Event(i, k) == CHOOSE e \in {lane[i][n] : n \in 1..Len(lane[i])} : e.kind = k

At(p, next) == pc = p /\ pc' = next /\ UNCHANGED <<call, exits>>
Return      == pc' = "idle" /\ call' = None /\ UNCHANGED exits

Save(r) == control' = [control EXCEPT ![call.id] = r]

\* _human_evidence: one event of a kind, written again only to be found
\* equal.  Different evidence of the kind is HUMAN_EVIDENCE_CONFLICT, which
\* EvidenceAgrees shows never to arise: it would be left without a step here.
Put(kind, r, at) ==
    LET i == call.id
        e == [kind |-> kind, says |-> Said(kind, r), at |-> at]
    IN  IF kind \in Kinds(i)
        THEN Event(i, kind).says = e.says /\ UNCHANGED lane
        ELSE lane' = [lane EXCEPT ![i] = Append(@, e)]

\* Slips, here and below: the definition that follows as a plausible bug
\* would have it.  No action uses them; each breaks a property (README).
OwnerIsUnique == Unique(Rec.request, Resolve(Rec.request, call.roster))

\* _human_owner: the owner of this opening, if still the one bound.
OwnerHolds ==
    LET owner == Resolve(Rec.request, call.roster)
    IN  owner = Rec.owner /\ Unique(Rec.request, owner)

\* _human_finish, once the record is to become TERMINAL.
Terminate(reason) ==
    /\ Save([Rec EXCEPT !.state = "TERMINAL", !.reason = reason, !.ended = call.now])
    /\ pc' = "finish"
    /\ UNCHANGED <<lane, hops, call, exits>>

\* No other record of the scope has the request id, the task or the wake.
Taken(q, wake, r) ==
    \/ r.request.requestId = q.requestId
    \/ r.request.task = q.task
    \/ wake # None /\ r.wake = wake

Bound == {i \in Ids : control[i] # None}

Begin(op, i, p, roster, now) ==
    /\ pc = "idle"
    /\ pc' = "recover"
    /\ call' = [op |-> op, id |-> i, response |-> p, roster |-> roster, now |-> now]
    /\ UNCHANGED <<lane, hops, exits>>

----------------------------------------------------------------------------
\* The four operations, each up to _human_recover.

\* human_request or, with a wake, human_wake of a candidate past its gate.
NewRequest(q, wake, roster, now) ==
    /\ Unique(q, Resolve(q, roster))
    /\ q.created <= now
    /\ control[q.id] = None
    /\ \A i \in Bound : ~Taken(q, wake, control[i])
    /\ Cardinality(Bound) < MaxRequests
    /\ control' = [control EXCEPT ![q.id] =
          [request |-> q, owner |-> Resolve(q, roster), wake |-> wake,
           state |-> "CREATED", response |-> None, reserved |-> 0,
           continuation |-> None, reason |-> None, observed |-> now,
           resumed |-> None, ended |-> None]]
    /\ Begin("request", q.id, None, roster, now)

SameRequest(q, wake, roster, now) ==
    /\ Unique(q, Resolve(q, roster))
    /\ q.created <= now
    /\ control[q.id] # None
    /\ control[q.id].request = q /\ control[q.id].wake = wake
    /\ UNCHANGED control
    /\ Begin("request", q.id, None, roster, now)

\* A response carries the fingerprint of its request.
Respond(p, roster, now) ==
    /\ control[p.request.id] # None /\ control[p.request.id].request = p.request
    /\ UNCHANGED control
    /\ Begin("respond", p.request.id, p, roster, now)

Observe(i, roster, now) ==
    /\ control[i] # None
    /\ UNCHANGED control
    /\ Begin("observe", i, None, roster, now)

Resume(q, op, roster, now) ==
    /\ control[q.id] # None /\ control[q.id].request = q
    /\ op \in {"resume", "cancel"}
    /\ UNCHANGED control
    /\ Begin(op, q.id, None, roster, now)

----------------------------------------------------------------------------
\* _human_recover.

AfterRequest ==
    IF Rec.state = "CREATED" THEN "wait" ELSE IF Rec.state = "TERMINAL" THEN "finish"
    ELSE "observe"

RecordRequest ==
    /\ At("recover", AfterRequest)
    /\ Put("REQUEST", Rec, Rec.request.created)
    /\ UNCHANGED <<control, hops>>

Wait ==
    /\ At("wait", "observe")
    /\ Save([Rec EXCEPT !.state = "WAITING"])
    /\ UNCHANGED <<lane, hops>>

ClockIgnored == FALSE

ClockWentBack == call.now < Rec.observed

StopOnRollback ==
    /\ pc = "observe"
    /\ ClockWentBack
    /\ Terminate("CLOCK_ROLLBACK")

SeenOnly == [Rec EXCEPT !.observed = call.now]

\* The response of an operation that ended between evidence and snapshot is
\* bound before anything is decided.
Seen ==
    IF Rec.response = None /\ "RESPONSE" \in Kinds(call.id)
    THEN [Rec EXCEPT !.observed = call.now, !.state = "RESPONSE_DURABLE",
                     !.response = Event(call.id, "RESPONSE").says.response]
    ELSE [Rec EXCEPT !.observed = call.now]

SeeClock ==
    /\ At("observe", "decide")
    /\ ~ClockWentBack
    /\ Save(Seen)
    /\ UNCHANGED <<lane, hops>>

ExpiredAfter == call.now > Rec.request.expires

Expired == call.now >= Rec.request.expires

\* What _human_recover stops for; None to go on.
StopExpiredFirst ==
    CASE Expired          -> "EXPIRED"
      [] Rec.reserved > 0 -> IF Rec.continuation # None THEN "ONE_HOP_COMPLETE"
                             ELSE "RECOVERY_UNKNOWN"
      [] OTHER            -> IF Rec.response # None /\ Rec.response.command = "CANCEL"
                             THEN "CANCELLED" ELSE None

Stop ==
    IF Rec.reserved > 0
    THEN IF Rec.continuation # None THEN "ONE_HOP_COMPLETE" ELSE "RECOVERY_UNKNOWN"
    ELSE IF Expired THEN "EXPIRED"
    ELSE IF Rec.response # None /\ Rec.response.command = "CANCEL" THEN "CANCELLED"
    ELSE None

StopInRecovery ==
    /\ pc = "decide"
    /\ Stop # None
    /\ Terminate(Stop)

GoOn ==
    /\ At("decide", "operation")
    /\ Stop = None
    /\ UNCHANGED <<control, lane, hops>>

----------------------------------------------------------------------------
\* What the operation does with a record that waits.

\* The response goes to the journal before it goes to the snapshot.
RecordResponse ==
    /\ At("operation", "bind")
    /\ call.op = "respond"
    /\ OwnerHolds /\ Rec.response = None
    /\ Put("RESPONSE", [Rec EXCEPT !.response = call.response], call.now)
    /\ UNCHANGED <<control, hops>>

BindResponse ==
    /\ pc = "bind"
    /\ Save([Rec EXCEPT !.response = call.response, !.state = "RESPONSE_DURABLE"])
    /\ IF call.response.command = "CANCEL"
       THEN pc' = "cancel" /\ UNCHANGED <<call, exits>>
       ELSE Return
    /\ UNCHANGED <<lane, hops>>

CancelAnswered ==
    /\ pc = "cancel"
    /\ Terminate("CANCELLED")

CancelRequest ==
    /\ pc = "operation"
    /\ call.op = "cancel"
    /\ OwnerHolds
    /\ Terminate("CANCELLED")

\* resume_decision says RESUME.
Resumable ==
    /\ OwnerHolds
    /\ Rec.state \in {"WAITING", "RESPONSE_DURABLE"}
    /\ Rec.response # None /\ Rec.response.command = "CONTINUE"
    /\ Rec.reserved = 0
    /\ Rec.request.budget >= COST

ReserveUnsaved ==
    /\ At("operation", "intent")
    /\ call.op = "resume"
    /\ Resumable
    /\ UNCHANGED <<control, lane, hops>>

Reserve ==
    /\ At("operation", "intent")
    /\ call.op = "resume"
    /\ Resumable
    /\ Save([Rec EXCEPT !.reserved = COST, !.state = "RESUME_INTENT_DURABLE",
                        !.resumed = call.now])
    /\ UNCHANGED <<lane, hops>>

RecordIntent ==
    /\ At("intent", "hop")
    /\ Put("RESUME_INTENT", Rec, call.now)
    /\ UNCHANGED <<control, hops>>

Hop ==
    /\ At("hop", "receipt")
    /\ hops' = [hops EXCEPT ![call.id] = @ + 1]
    /\ UNCHANGED <<control, lane>>

RecordContinuation ==
    /\ At("receipt", "complete")
    /\ Save([Rec EXCEPT !.continuation = Rec.response, !.state = "CONTINUATION_COMPLETED"])
    /\ UNCHANGED <<lane, hops>>

Complete ==
    /\ pc = "complete"
    /\ Terminate("ONE_HOP_COMPLETE")

\* An observation, a repeated request, and every reply that writes nothing:
\* another owner, a response replayed or in conflict, a hold, no budget.
Reply ==
    /\ pc = "operation"
    /\ ~(call.op = "respond" /\ OwnerHolds /\ Rec.response = None)
    /\ ~(call.op = "cancel" /\ OwnerHolds)
    /\ ~(call.op = "resume" /\ Resumable)
    /\ Return
    /\ UNCHANGED <<control, lane, hops>>

----------------------------------------------------------------------------
\* The evidence _human_finish owes a TERMINAL record, in its order.

Owes(kind) ==
    /\ CASE kind = "CONTINUATION" -> Rec.continuation # None
         [] kind = "TERMINAL"     -> TRUE
         [] OTHER                 -> kind \in Stops /\ kind = Rec.reason
    /\ kind \notin Kinds(call.id)

EvidenceTime(kind) == IF kind = "CONTINUATION" THEN Rec.resumed ELSE Rec.ended

Publish(kind) ==
    /\ At("finish", "finish")
    /\ Owes(kind)
    /\ kind # "CONTINUATION" => ~Owes("CONTINUATION")
    /\ kind = "TERMINAL" => \A k \in Stops : ~Owes(k)
    /\ Put(kind, Rec, EvidenceTime(kind))
    /\ UNCHANGED <<control, hops>>

Finished ==
    /\ pc = "finish"
    /\ ~Owes("TERMINAL")
    /\ Return
    /\ UNCHANGED <<control, lane, hops>>

\* The process ends; what was saved and written stays.
Crash ==
    /\ pc # "idle"
    /\ exits < MaxExits
    /\ exits' = exits + 1
    /\ pc' = "idle" /\ call' = None
    /\ UNCHANGED <<control, lane, hops>>

Recover == RecordRequest \/ Wait \/ StopOnRollback \/ SeeClock \/ StopInRecovery \/ GoOn

Proceed ==
    \/ Recover
    \/ RecordResponse \/ BindResponse \/ CancelAnswered \/ CancelRequest
    \/ Reserve \/ RecordIntent \/ Hop \/ RecordContinuation \/ Complete \/ Reply
    \/ \E kind \in Stops \cup {"CONTINUATION", "TERMINAL"} : Publish(kind)
    \/ Finished

Ask ==
    \E roster \in Rosters, now \in Times :
        \/ \E q \in Requests, wake \in Wakes \cup {None} :
              NewRequest(q, wake, roster, now) \/ SameRequest(q, wake, roster, now)
        \/ \E p \in Responses : Respond(p, roster, now)
        \/ \E i \in Ids : Observe(i, roster, now)
        \/ \E q \in Requests, op \in {"resume", "cancel"} : Resume(q, op, roster, now)

Next == Ask \/ Proceed \/ Crash

Spec == Init /\ [][Next]_vars

\* Exits stop, an operation that began goes on, and each request is observed
\* again and again at or after its expiry: observation is all the recovery
\* the code has, there is no worker.
Late(i) ==
    \E roster \in Rosters, now \in Times :
        /\ \A q \in Requests : q.id = i => now >= q.expires
        /\ Observe(i, roster, now)

FairSpec ==
    /\ Spec
    /\ WF_vars(Proceed)
    /\ \A i \in Ids : SF_vars(Late(i))

----------------------------------------------------------------------------
\* Properties.

Hopped == {i \in Ids : hops[i] > 0}

\* One hop per request, and per request id, task and wake of the scope: no
\* exit, repeated resume or second handover of a task runs one_hop twice.
OneHop ==
    /\ \A i \in Ids : hops[i] <= 1
    /\ \A i, j \in Hopped :
          i # j => LET r == control[i]
                       s == control[j]
                   IN  /\ r.request.requestId # s.request.requestId
                       /\ r.request.task # s.request.task
                       /\ r.wake = s.wake => r.wake = None

\* one_hop runs only for the owner bound to the request, within its lifetime
\* and after its RESPONSE, a CONTINUE given in that lifetime, and its
\* RESUME_INTENT are in the journal.
HopIsAnswered ==
    [][\A i \in Ids : hops'[i] # hops[i] =>
          LET q == control[i].request
              owner == Resolve(q, call.roster)
          IN  /\ owner = control[i].owner /\ Unique(q, owner)
              /\ q.created <= call.now /\ call.now < q.expires
              /\ "RESUME_INTENT" \in Kinds(i)
              /\ \E n \in 1..Len(lane[i]) :
                    /\ lane[i][n].kind = "RESPONSE"
                    /\ lane[i][n].says.response.command = "CONTINUE"
                    /\ q.created <= lane[i][n].at /\ lane[i][n].at <= call.now
      ]_vars

\* The record never says less than what happened: a request stopped as
\* expired or cancelled, or with nothing reserved, ran no hop, a continuation
\* is of a hop that ran, and only the reserved and unanswered is UNKNOWN.
CountIsTrue ==
    \A i \in Ids :
        IF control[i] = None THEN hops[i] = 0
        ELSE LET r == control[i]
             IN  /\ r.reserved = 0 => hops[i] = 0
                 /\ r.continuation # None => hops[i] = 1
                 /\ r.reason = "ONE_HOP_COMPLETE" => r.continuation # None
                 /\ r.reason = "RECOVERY_UNKNOWN" => r.reserved = COST /\ r.continuation = None
                 /\ r.reason \in {"EXPIRED", "CANCELLED"} => hops[i] = 0

\* Journal and snapshot agree: evidence of a kind is written once and still
\* says what the record says, however many exits lay between the writing of
\* one and of the other, so HUMAN_EVIDENCE_CONFLICT never arises; a bound
\* response is the one in the journal, and a response is accepted only where
\* the journal has none.
EvidenceAgrees ==
    \A i \in Ids :
        /\ \A n \in 1..Len(lane[i]) :
              LET e == lane[i][n]
              IN  /\ control[i] # None
                  /\ \A m \in 1..Len(lane[i]) : lane[i][m].kind = e.kind => m = n
                  /\ e.kind # "RESPONSE" \/ control[i].response # None
                     => e.says = Said(e.kind, control[i])
                  /\ e.kind = "TERMINAL" => control[i].state = "TERMINAL"
        /\ control[i] # None /\ control[i].response # None => "RESPONSE" \in Kinds(i)
        /\ pc = "operation" /\ i = call.id /\ control[i].response = None
           => "RESPONSE" \notin Kinds(i)

Rank == [k \in KINDS |->
            CASE k = "REQUEST" -> 1 [] k = "RESPONSE" -> 2 [] k = "RESUME_INTENT" -> 3
              [] k = "CONTINUATION" -> 4 [] k \in Stops -> 5 [] k = "TERMINAL" -> 6]

\* The lane tells the story in order: kinds in the order of the protocol,
\* one stop reason, nothing after TERMINAL, and times that never decrease
\* unless the lane says CLOCK_ROLLBACK.
LaneInOrder ==
    \A i \in Ids : \A n, m \in 1..Len(lane[i]) :
        n < m => /\ Rank[lane[i][n].kind] < Rank[lane[i][m].kind]
                 /\ lane[i][n].at <= lane[i][m].at \/ "CLOCK_ROLLBACK" \in Kinds(i)

\* A TERMINAL record never changes again and a lane with its TERMINAL event
\* never grows, whatever is asked, answered or observed later.
TerminalIsFinal ==
    [][\A i \in Ids :
          /\ control[i] # None /\ control[i].state = "TERMINAL"
             => control'[i] = control[i]
          /\ "TERMINAL" \in Kinds(i) => lane'[i] = lane[i]
      ]_vars

\* Every request bound is closed: its TERMINAL event becomes durable.
EventuallyClosed ==
    \A i \in Ids : control[i] # None ~> "TERMINAL" \in Kinds(i)
=============================================================================
