-------------------------- MODULE ToolActionProofs --------------------------
(* Proofs about ToolAction, for any requests, openings and bounds. *)
EXTENDS ToolAction, TLAPS

----------------------------------------------------------------------------
\* What an opening makes of an action is of its type.

LEMMA DecisionType ==
    ASSUME NEW q \in Requests, NEW w \in Worlds, NEW b \in {"exact", "stale"}
    PROVE  /\ Intent(q, w) \in Intents
           /\ Intent(q, w).req = q
           /\ Decision(q, w, b) \in Decisions
           /\ Decision(q, w, b).intent = Intent(q, w)
           /\ Decision(q, w, b).verdict \in {"ALLOW", "DENY", "REQUIRE_HUMAN"}
<1>1. Intent(q, w) \in Intents
  BY DEF Intents
<1>2. Intent(q, w).req = q
  BY DEF Intent
<1>3. Decision(q, w, b) \in Decisions
  BY DEF Decisions
<1>4. Decision(q, w, b).intent = Intent(q, w) /\ Decision(q, w, b).verdict = Verdict(q, w, b)
  BY DEF Decision
<1>5. Verdict(q, w, b) \in {"ALLOW", "DENY", "REQUIRE_HUMAN"}
  BY DEF Verdict
<1> QED BY <1>1, <1>2, <1>3, <1>4, <1>5

LEMMA ReceiptType ==
    ASSUME NEW q \in Requests, NEW o \in Script,
           NEW r \in {"NOT_VERIFIED", "VERIFIED", "MISMATCH", "UNAVAILABLE"}
    PROVE  /\ Receipt(q, o, r) \in Receipts
           /\ Receipt(q, o, r).outcome \in {o, "UNKNOWN"}
BY DEF Receipt, Receipts, Script

LEMMA IntentReq ==
    ASSUME NEW i \in Intents
    PROVE  i.req \in Requests
BY DEF Intents, Intent

----------------------------------------------------------------------------
\* The call in progress: what it holds in its hand, and how far it is.

CallType == [req : Requests, key : Keys, world : Worlds, binding : {"exact", "stale"}]

\* Where an operation still has the adapter before it, or has just left it.
Executing == {"authorize", "refuse", "dispatch", "executing", "effect", "receipt"}

StateAt(p) == CASE p \in {"authorize", "refuse", "dispatch"} -> "PERMISSION_ALLOWED"
                [] p = "executing"                           -> "DISPATCH_INTENT_DURABLE"
                [] OTHER                                     -> "EXECUTING_OR_UNKNOWN"

CallInv ==
    /\ pc # "idle" => call \in CallType
    /\ pc = "bind" \/ pc \in Executing => call.key = call.req.key /\ call.req \in users
    /\ pc = "finish" => Rec # None /\ call.req \in users
    /\ pc = "bind" => Rec = None /\ Check(call.req, call.world)
    /\ pc \in Executing =>
          /\ Rec # None
          /\ Rec.intent = Intent(call.req, call.world)
          /\ Rec.state = StateAt(pc)
    /\ pc \in Executing \ {"authorize", "refuse"} =>
          Rec.permission = CallDecision /\ CallDecision.verdict = "ALLOW"
    /\ pc = "refuse" => Rec.permission.verdict # "ALLOW"

\* A record is under its own request's key, the request is in the journal,
\* and no two records share an action id or a request.
OwnedInv ==
    /\ \A k \in Keys : record[k] # None =>
          record[k].intent.req.key = k /\ record[k].intent.req \in users
    /\ \A k, l \in Keys :
          /\ record[k] # None
          /\ record[l] # None
          /\ \/ record[k].intent.req.action = record[l].intent.req.action
             \/ record[k].intent.req.id = record[l].intent.req.id
          => k = l

TypeInv == TypeOK /\ CallInv /\ OwnedInv

LEMMA TypeInit == Init => TypeInv
<1> SUFFICES ASSUME Init PROVE TypeInv
  OBVIOUS
<1>1. TypeOK
  BY DEF Init, TypeOK, PC
<1>2. CallInv /\ OwnedInv
  BY DEF Init, CallInv, OwnedInv, Executing
<1> QED BY <1>1, <1>2 DEF TypeInv

\* The record in hand is a record, and an updated snapshot is a snapshot.
LEMMA RecType ==
    ASSUME TypeInv, pc # "idle", Rec # None
    PROVE  Rec \in Records /\ call \in CallType /\ Rec.intent.req \in Requests
<1>1. call \in CallType /\ Rec \in Records
  BY DEF TypeInv, TypeOK, CallInv, Rec, CallType
<1>2. Rec.intent \in Intents
  BY <1>1 DEF Records
<1> QED BY <1>1, <1>2, IntentReq

LEMMA SaveType ==
    ASSUME TypeOK, call \in CallType, NEW r \in Records,
           record' = [record EXCEPT ![call.key] = r]
    PROVE  /\ record' \in [Keys -> Records \cup {None}]
           /\ record'[call.key] = r
           /\ r # None
           /\ \A k \in Keys : k # call.key => record'[k] = record[k]
BY NoneAssumption DEF TypeOK, CallType

\* What each save writes.  The record in hand moves on; its intent stays.
SavesTo(r) == record' = [record EXCEPT ![call.key] = r] /\ r \in Records

LEMMA SaveBind ==
    ASSUME TypeInv, Bind
    PROVE  \E r \in Records :
              /\ SavesTo(r)
              /\ r.intent = Intent(call.req, call.world)
              /\ r.permission = CallDecision
              /\ r.receipt = None
              /\ IF CallDecision.verdict = "ALLOW"
                 THEN pc' = "authorize" /\ r.state = "PERMISSION_ALLOWED"
                 ELSE pc' = "finish" /\ r.state = "TERMINAL" /\ r.reason = "REFUSED"
<1>1. call \in CallType
  BY DEF TypeInv, CallInv, Bind, At
<1>2. Intent(call.req, call.world) \in Intents /\ CallDecision \in Decisions
  BY <1>1, DecisionType DEF CallType, CallDecision
<1> DEFINE ok == CallDecision.verdict = "ALLOW"
           r  == [intent |-> Intent(call.req, call.world), permission |-> CallDecision,
                  receipt |-> None, reason |-> IF ok THEN None ELSE "REFUSED",
                  state |-> IF ok THEN "PERMISSION_ALLOWED" ELSE "TERMINAL"]
<1>3. r \in Records
  BY <1>2 DEF Records, Reasons, STATES
<1>4. SavesTo(r) /\ pc' = IF ok THEN "authorize" ELSE "finish"
  BY <1>3 DEF SavesTo, Bind
<1> QED BY <1>3, <1>4

LEMMA SaveAuthorize ==
    ASSUME TypeInv, Authorize
    PROVE  \E r \in Records :
              /\ SavesTo(r)
              /\ r = [Rec EXCEPT !.permission = CallDecision]
<1>1. Rec \in Records /\ call \in CallType
  BY RecType DEF TypeInv, CallInv, Authorize, At, Executing
<1>2. CallDecision \in Decisions
  BY <1>1, DecisionType DEF CallType, CallDecision
<1>3. [Rec EXCEPT !.permission = CallDecision] \in Records
  BY <1>1, <1>2 DEF Records
<1>4. SavesTo([Rec EXCEPT !.permission = CallDecision])
  BY <1>3 DEF SavesTo, Authorize, Rec
<1> QED BY <1>3, <1>4

LEMMA SaveRefuse ==
    ASSUME TypeInv, Refuse
    PROVE  \E r \in Records :
              /\ SavesTo(r)
              /\ r = [Rec EXCEPT !.state = "TERMINAL", !.reason = "REFUSED"]
<1>1. Rec \in Records
  BY RecType DEF TypeInv, CallInv, Refuse, At, Executing
<1>2. [Rec EXCEPT !.state = "TERMINAL", !.reason = "REFUSED"] \in Records
  BY <1>1 DEF Records, STATES, Reasons
<1>3. SavesTo([Rec EXCEPT !.state = "TERMINAL", !.reason = "REFUSED"])
  BY <1>2 DEF SavesTo, Refuse, Rec
<1> QED BY <1>2, <1>3

LEMMA SaveState ==
    ASSUME TypeInv, RecordDispatch \/ RecordExecuting
    PROVE  \E r \in Records :
              /\ SavesTo(r)
              /\ r = [Rec EXCEPT !.state = IF pc = "dispatch" THEN "DISPATCH_INTENT_DURABLE"
                                           ELSE "EXECUTING_OR_UNKNOWN"]
<1> DEFINE st == IF pc = "dispatch" THEN "DISPATCH_INTENT_DURABLE" ELSE "EXECUTING_OR_UNKNOWN"
<1>1. Rec \in Records
  BY RecType DEF TypeInv, CallInv, RecordDispatch, RecordExecuting, At, Executing
<1>2. [Rec EXCEPT !.state = st] \in Records
  BY <1>1 DEF Records, STATES
<1>3. SavesTo([Rec EXCEPT !.state = st])
  BY <1>2 DEF SavesTo, RecordDispatch, RecordExecuting, At, Rec
<1> QED BY <1>2, <1>3

LEMMA SaveReceipt ==
    ASSUME TypeInv, RecordReceipt
    PROVE  \E r \in Records :
              /\ SavesTo(r)
              /\ r = [Rec EXCEPT !.state = "RECEIPT_OBSERVED",
                                 !.receipt = Receipt(call.req, call.req.script, "NOT_VERIFIED")]
<1> DEFINE rc == Receipt(call.req, call.req.script, "NOT_VERIFIED")
<1>1. Rec \in Records /\ call \in CallType
  BY RecType DEF TypeInv, CallInv, RecordReceipt, At, Executing
<1>2. rc \in Receipts
  BY <1>1, ToolAssumption, ReceiptType DEF CallType
<1>3. [Rec EXCEPT !.state = "RECEIPT_OBSERVED", !.receipt = rc] \in Records
  BY <1>1, <1>2 DEF Records, STATES
<1>4. SavesTo([Rec EXCEPT !.state = "RECEIPT_OBSERVED", !.receipt = rc])
  BY <1>3 DEF SavesTo, RecordReceipt, Rec
<1> QED BY <1>3, <1>4

LEMMA SaveUnknown ==
    ASSUME TypeInv, FinishUnknown
    PROVE  \E r \in Records :
              /\ SavesTo(r)
              /\ r = [Rec EXCEPT !.state = "TERMINAL",
                                 !.receipt = Receipt(Rec.intent.req, "UNKNOWN", "NOT_VERIFIED"),
                                 !.reason = "UNKNOWN_NO_REDISPATCH"]
<1> DEFINE rc == Receipt(Rec.intent.req, "UNKNOWN", "NOT_VERIFIED")
           r  == [Rec EXCEPT !.state = "TERMINAL", !.receipt = rc,
                             !.reason = "UNKNOWN_NO_REDISPATCH"]
<1>1. Rec \in Records /\ Rec.intent.req \in Requests
  BY RecType DEF TypeInv, CallInv, FinishUnknown, At
<1>2. rc \in Receipts
  BY <1>1, ReceiptType DEF Script
<1>3. r \in Records
  BY <1>1, <1>2 DEF Records, STATES, Reasons
<1>4. SavesTo(r)
  BY <1>3 DEF SavesTo, FinishUnknown, Rec
<1> QED BY <1>3, <1>4

LEMMA ReadbackType ==
    ASSUME NEW q PROVE Readback(q) \in {"UNAVAILABLE", "VERIFIED", "MISMATCH"}
BY DEF Readback

LEMMA SaveReadback ==
    ASSUME TypeInv, FinishReadback
    PROVE  \E seen \in {"VERIFIED", "MISMATCH", "UNAVAILABLE"} : \E r \in Records :
              /\ SavesTo(r)
              /\ r = [Rec EXCEPT !.receipt = Receipt(Rec.intent.req, "SUCCESS", seen),
                                 !.state = IF seen = "VERIFIED" THEN "READBACK_VERIFIED" ELSE "TERMINAL",
                                 !.reason = IF seen = "VERIFIED" THEN Rec.reason
                                            ELSE "P2_READBACK_NOT_VERIFIED"]
<1> DEFINE same == /\ Rec.intent = Intent(call.req, call.world)
                   /\ Rec.permission = Decision(call.req, call.world, "exact")
           seen == IF same THEN Readback(call.req) ELSE "UNAVAILABLE"
           rc   == Receipt(Rec.intent.req, "SUCCESS", seen)
           r    == [Rec EXCEPT !.receipt = rc,
                               !.state = IF seen = "VERIFIED" THEN "READBACK_VERIFIED" ELSE "TERMINAL",
                               !.reason = IF seen = "VERIFIED" THEN Rec.reason
                                          ELSE "P2_READBACK_NOT_VERIFIED"]
<1>1. Rec \in Records /\ Rec.intent.req \in Requests
  BY RecType DEF TypeInv, CallInv, FinishReadback, At
<1>2. seen \in {"VERIFIED", "MISMATCH", "UNAVAILABLE"}
  BY ReadbackType
<1>3. SavesTo(r) \/ r \notin Records
  BY DEF SavesTo, FinishReadback, Rec
<1> HIDE DEF seen
<1>4. rc \in Receipts
  BY <1>1, <1>2, ReceiptType DEF Script
<1>5. r \in Records
  BY <1>1, <1>4 DEF Records, STATES, Reasons
<1> QED BY <1>2, <1>3, <1>5

LEMMA SavePlain ==
    ASSUME TypeInv, FinishPlain
    PROVE  \E r \in Records :
              /\ SavesTo(r)
              /\ r = [Rec EXCEPT !.state = "TERMINAL", !.reason = None]
<1>1. Rec \in Records
  BY RecType DEF TypeInv, CallInv, FinishPlain, At
<1>2. [Rec EXCEPT !.state = "TERMINAL", !.reason = None] \in Records
  BY <1>1 DEF Records, STATES, Reasons
<1>3. SavesTo([Rec EXCEPT !.state = "TERMINAL", !.reason = None])
  BY <1>2 DEF SavesTo, FinishPlain, Rec
<1> QED BY <1>2, <1>3

----------------------------------------------------------------------------
\* TypeInv is inductive.

\* A step that starts an operation leaves the three stores' controls alone.
LEMMA StartStep ==
    ASSUME TypeInv, NEW q \in Requests, NEW k \in Keys, NEW w \in Worlds,
           NEW b \in {"exact", "stale"}, NEW p \in PC, Starts(q, k, w, b, p),
           UNCHANGED record
    PROVE  /\ pc' = p
           /\ call' \in CallType
           /\ call'.req = q /\ call'.key = k /\ call'.world = w
           /\ Rec' = record[k]
BY DEF Starts, CallType, Rec

LEMMA KeyType ==
    ASSUME NEW q \in Requests PROVE q.key \in Keys
BY DEF Keys

LEMMA NewCallUnbound ==
    ASSUME TypeInv, NEW q \in Requests, NEW w \in Worlds, NEW b \in {"exact", "stale"},
           NewCall(q, w, b)
    PROVE  record[q.key] = None
<1> SUFFICES ASSUME record[q.key] # None PROVE FALSE
  OBVIOUS
<1>1. record[q.key].intent = Intent(q, w)
  BY DEF NewCall, Check
<1>2. record[q.key].intent.req = q
  BY <1>1, DecisionType
<1>3. q \in users
  BY <1>2, KeyType DEF TypeInv, OwnedInv
<1> QED BY <1>3 DEF NewCall

LEMMA NewCallType ==
    ASSUME TypeInv, NEW q \in Requests, NEW w \in Worlds, NEW b \in {"exact", "stale"},
           NewCall(q, w, b)
    PROVE  TypeInv'
<1>1. /\ pc' = "bind" /\ call' \in CallType
      /\ call'.req = q /\ call'.key = q.key /\ call'.world = w
      /\ Rec' = record[q.key]
  BY StartStep, KeyType DEF NewCall, PC
<1>2. TypeOK'
  BY <1>1 DEF TypeInv, TypeOK, NewCall, CallType, PC
<1>3. Check(call.req, call.world)'
  BY <1>1 DEF NewCall, Check
<1>4. CallInv'
  BY <1>1, <1>3, NewCallUnbound DEF CallInv, NewCall, Executing
<1>5. OwnedInv'
  BY DEF TypeInv, OwnedInv, NewCall
<1> QED BY <1>2, <1>4, <1>5 DEF TypeInv

LEMMA ResumeCallType ==
    ASSUME TypeInv, NEW q \in Requests, NEW w \in Worlds, NEW b \in {"exact", "stale"},
           ResumeCall(q, w, b)
    PROVE  TypeInv'
<1> DEFINE Begun(p) == /\ pc' = p /\ call' \in CallType
                       /\ call'.req = q /\ call'.key = q.key /\ call'.world = w
                       /\ Rec' = record[q.key]
<1>1. \/ record[q.key] = None /\ Begun("bind")
      \/ /\ record[q.key] # None
         /\ record[q.key].state = "PERMISSION_ALLOWED"
         /\ Begun("authorize")
      \/ record[q.key] # None /\ Begun("finish")
  BY StartStep, KeyType DEF ResumeCall, PC
<1>2. TypeOK'
  BY <1>1 DEF TypeInv, TypeOK, ResumeCall, journal, CallType, PC
<1>3. Check(call.req, call.world)'
  BY <1>1 DEF ResumeCall, Check
<1>4. record[q.key] # None => record[q.key].intent = Intent(q, w)
  BY DEF ResumeCall, Check
<1>5. CallInv'
  BY <1>1, <1>3, <1>4 DEF CallInv, ResumeCall, journal, Executing, StateAt
<1>6. OwnedInv'
  BY DEF TypeInv, OwnedInv, ResumeCall, journal
<1> QED BY <1>2, <1>5, <1>6 DEF TypeInv

LEMMA ObserveCallType ==
    ASSUME TypeInv, NEW q \in Requests, NEW w \in Worlds, ObserveCall(q, w)
    PROVE  TypeInv'
<1>1. PICK k \in Keys : record[k] # None /\ Starts(q, k, w, "exact", "finish")
  BY DEF ObserveCall
<1>2. /\ pc' = "finish" /\ call' \in CallType
      /\ call'.req = q /\ Rec' = record[k]
  BY <1>1, StartStep DEF ObserveCall, PC
<1>3. TypeOK'
  BY <1>2 DEF TypeInv, TypeOK, ObserveCall, journal, CallType, PC
<1>4. CallInv'
  BY <1>1, <1>2 DEF CallInv, ObserveCall, journal, Executing
<1>5. OwnedInv'
  BY DEF TypeInv, OwnedInv, ObserveCall, journal
<1> QED BY <1>3, <1>4, <1>5 DEF TypeInv

LEMMA ReturnType ==
    ASSUME TypeInv, Return, UNCHANGED <<users, record>>,
           answers' \in [Requests -> Evidence \cup {None}],
           resource' = resource, executed' = executed, exits' \in Nat
    PROVE  TypeInv'
<1>1. TypeOK'
  BY DEF TypeInv, TypeOK, Return, PC
<1>2. CallInv' /\ OwnedInv'
  BY DEF TypeInv, CallInv, OwnedInv, Return, Executing
<1> QED BY <1>1, <1>2 DEF TypeInv

LEMMA EvidenceType ==
    ASSUME NEW r \in Records PROVE EvidenceOf(r) \in Evidence /\ EvidenceOf(r) # None
<1>1. EvidenceOf(r) \in Evidence
  BY DEF EvidenceOf, Evidence, Records
<1> QED BY <1>1, NoneAssumption

\* A save that keeps the record's intent keeps all but where the call is.
LEMMA SaveStep ==
    ASSUME TypeInv, pc # "idle", Rec # None, UNCHANGED call, pc' \in PC,
           NEW r \in Records, SavesTo(r), r.intent = Rec.intent,
           UNCHANGED <<users, answers, resource, exits>>, executed' \in [Requests -> Nat]
    PROVE  /\ TypeOK' /\ OwnedInv'
           /\ Rec' = r /\ Rec' # None
           /\ call' \in CallType
<1>1. call \in CallType /\ call' \in CallType
  BY DEF TypeInv, CallInv
<1>2. /\ record' \in [Keys -> Records \cup {None}]
      /\ record'[call.key] = r
      /\ r # None
      /\ \A k \in Keys : k # call.key => record'[k] = record[k]
  BY <1>1, SaveType DEF TypeInv, SavesTo
<1>3. TypeOK'
  BY <1>1, <1>2 DEF TypeInv, TypeOK, CallType
<1>4. \A k \in Keys : record'[k] # None =>
         record[k] # None /\ record'[k].intent = record[k].intent
  BY <1>2 DEF Rec
<1>5. OwnedInv'
  BY <1>4 DEF TypeInv, OwnedInv
<1> QED BY <1>1, <1>2, <1>3, <1>5 DEF Rec

LEMMA BindType == TypeInv /\ Bind => TypeInv'
<1> SUFFICES ASSUME TypeInv, Bind PROVE TypeInv'
  OBVIOUS
<1>1. PICK r \in Records :
         /\ SavesTo(r)
         /\ r.intent = Intent(call.req, call.world)
         /\ r.permission = CallDecision
         /\ r.receipt = None
         /\ IF CallDecision.verdict = "ALLOW"
            THEN pc' = "authorize" /\ r.state = "PERMISSION_ALLOWED"
            ELSE pc' = "finish" /\ r.state = "TERMINAL" /\ r.reason = "REFUSED"
  BY SaveBind
<1>2. /\ call \in CallType /\ call' = call
      /\ call.key = call.req.key /\ call.req \in users
      /\ Check(call.req, call.world)
  BY DEF TypeInv, CallInv, Bind, At
<1>3. /\ record' \in [Keys -> Records \cup {None}]
      /\ record'[call.key] = r
      /\ r # None
      /\ \A k \in Keys : k # call.key => record'[k] = record[k]
  BY <1>1, <1>2, SaveType DEF TypeInv, SavesTo
<1>4. TypeOK'
  BY <1>1, <1>2, <1>3 DEF TypeInv, TypeOK, Bind, journal, CallType, PC
<1>5. CallInv'
  BY <1>1, <1>2, <1>3 DEF CallInv, Rec, Bind, journal, Executing, StateAt
<1>6. r.intent.req = call.req
  BY <1>1, <1>2, DecisionType DEF CallType
<1>7. OwnedInv'
  <2>1. \A k \in Keys \ {call.key} : record'[k] # None =>
           /\ record'[k] = record[k]
           /\ record[k].intent.req.action # call.req.action
           /\ record[k].intent.req.id # call.req.id
    BY <1>2, <1>3 DEF Check
  <2>2. users' = users
    BY DEF Bind, journal
  <2> QED BY <1>2, <1>3, <1>6, <2>1, <2>2 DEF TypeInv, OwnedInv
<1> QED BY <1>4, <1>5, <1>7 DEF TypeInv

LEMMA AuthorizeType == TypeInv /\ Authorize => TypeInv'
<1> SUFFICES ASSUME TypeInv, Authorize PROVE TypeInv'
  OBVIOUS
<1>1. PICK r \in Records : SavesTo(r) /\ r = [Rec EXCEPT !.permission = CallDecision]
  BY SaveAuthorize
<1>2. /\ pc = "authorize" /\ Rec # None /\ call \in CallType /\ call' = call
      /\ call.key = call.req.key /\ call.req \in users
      /\ Rec.intent = Intent(call.req, call.world)
      /\ Rec.state = "PERMISSION_ALLOWED"
  BY DEF TypeInv, CallInv, Authorize, At, Executing, StateAt
<1>3. Rec \in Records
  BY <1>2, RecType
<1>4. /\ r.intent = Rec.intent /\ r.state = Rec.state /\ r.permission = CallDecision
  BY <1>1, <1>3 DEF Records
<1>5. pc' = IF CallDecision.verdict = "ALLOW" THEN "dispatch" ELSE "refuse"
  BY DEF Authorize
<1>6. TypeOK' /\ OwnedInv' /\ Rec' = r /\ Rec' # None /\ call' \in CallType
  BY <1>1, <1>2, <1>4, <1>5, SaveStep DEF Authorize, journal, TypeInv, TypeOK, PC
<1>7. CallDecision' = CallDecision
  BY <1>2 DEF CallDecision
<1>8. CallInv'
  BY <1>2, <1>4, <1>5, <1>6, <1>7 DEF CallInv, Authorize, journal, Executing, StateAt
<1> QED BY <1>6, <1>8 DEF TypeInv

LEMMA StateType == TypeInv /\ (RecordDispatch \/ RecordExecuting) => TypeInv'
<1> SUFFICES ASSUME TypeInv, RecordDispatch \/ RecordExecuting PROVE TypeInv'
  OBVIOUS
<1> DEFINE st == IF pc = "dispatch" THEN "DISPATCH_INTENT_DURABLE" ELSE "EXECUTING_OR_UNKNOWN"
<1>1. PICK r \in Records : SavesTo(r) /\ r = [Rec EXCEPT !.state = st]
  BY SaveState
<1>2. /\ pc \in {"dispatch", "executing"} /\ Rec # None
      /\ call \in CallType /\ call' = call
      /\ call.key = call.req.key /\ call.req \in users
      /\ Rec.intent = Intent(call.req, call.world)
      /\ Rec.permission = CallDecision /\ CallDecision.verdict = "ALLOW"
      /\ UNCHANGED <<users, answers, resource, executed, exits>>
      /\ pc' = IF pc = "dispatch" THEN "executing" ELSE "effect"
  BY DEF TypeInv, CallInv, RecordDispatch, RecordExecuting, At, Executing, journal
<1>3. Rec \in Records
  BY <1>2, RecType
<1>4. r.intent = Rec.intent /\ r.state = st /\ r.permission = Rec.permission
  BY <1>1, <1>3 DEF Records
<1>5. TypeOK' /\ OwnedInv' /\ Rec' = r /\ Rec' # None /\ call' \in CallType
  BY <1>1, <1>2, <1>4, SaveStep DEF TypeInv, TypeOK, PC
<1>6. CallDecision' = CallDecision
  BY <1>2 DEF CallDecision
<1>7. CallInv'
  BY <1>2, <1>4, <1>5, <1>6 DEF CallInv, Executing, StateAt
<1> QED BY <1>5, <1>7 DEF TypeInv

\* Every save that leads to finish, or stays there.
LEMMA FinishStep ==
    ASSUME TypeInv, pc # "idle", Rec # None, call.req \in users, UNCHANGED call,
           pc' = "finish", NEW r \in Records, SavesTo(r), r.intent = Rec.intent,
           UNCHANGED <<users, answers, resource, executed, exits>>
    PROVE  TypeInv' /\ Rec' = r
<1>1. TypeOK' /\ OwnedInv' /\ Rec' = r /\ Rec' # None /\ call' \in CallType
  BY SaveStep DEF PC, TypeInv, TypeOK
<1>2. CallInv'
  BY <1>1 DEF CallInv, Executing
<1> QED BY <1>1, <1>2 DEF TypeInv

Finish == Refuse \/ RecordReceipt \/ FinishUnknown \/ FinishReadback \/ FinishPlain

LEMMA FinishType == TypeInv /\ Finish => TypeInv'
<1> SUFFICES ASSUME TypeInv, Finish PROVE TypeInv'
  OBVIOUS
<1>1. /\ pc # "idle" /\ Rec # None /\ call.req \in users /\ call' = call
      /\ pc' = "finish"
      /\ UNCHANGED <<users, answers, resource, executed, exits>>
  BY DEF TypeInv, CallInv, Finish, Refuse, RecordReceipt, FinishUnknown, FinishReadback,
         FinishPlain, At, Executing, journal
<1>2. Rec \in Records
  BY <1>1, RecType
<1>3. \E r \in Records : SavesTo(r) /\ r.intent = Rec.intent
  <2>1. CASE Refuse         BY <1>2, <2>1, SaveRefuse DEF Records
  <2>2. CASE RecordReceipt  BY <1>2, <2>2, SaveReceipt DEF Records
  <2>3. CASE FinishUnknown  BY <1>2, <2>3, SaveUnknown DEF Records
  <2>4. CASE FinishReadback BY <1>2, <2>4, SaveReadback DEF Records
  <2>5. CASE FinishPlain    BY <1>2, <2>5, SavePlain DEF Records
  <2> QED BY <2>1, <2>2, <2>3, <2>4, <2>5 DEF Finish
<1> QED BY <1>1, <1>3, FinishStep

LEMMA ExecuteType == TypeInv /\ Execute => TypeInv'
<1> SUFFICES ASSUME TypeInv, Execute PROVE TypeInv'
  OBVIOUS
<1>1. /\ pc = "effect" /\ pc' = "receipt" /\ call' = call /\ call \in CallType
      /\ executed' = [executed EXCEPT ![call.req] = @ + 1]
      /\ UNCHANGED <<users, answers, record, exits>>
  BY DEF TypeInv, CallInv, Execute, At, journal
<1> DEFINE t == call.req.target
           f == call.world.fixture[t]
           v == IF call.req.tier = "write" THEN call.req.value
                ELSE IF resource[t] = None THEN 0 ELSE resource[t].value
<1>2. call.req \in Requests /\ call.world \in Worlds /\ t \in Targets /\ f \in Fixtures
  BY <1>1 DEF CallType, Targets, Fixtures
<1>3. v \in Int
  BY <1>2, ToolAssumption DEF TypeInv, TypeOK
<1>4. \/ resource' = resource
      \/ resource' = [resource EXCEPT ![t] = [value |-> v, fixture |-> f]]
  BY DEF Execute
<1>5. resource' \in [Targets -> [value : Int, fixture : Fixtures] \cup {None}]
  <2> HIDE DEF v, f, t
  <2> QED BY <1>2, <1>3, <1>4 DEF TypeInv, TypeOK
<1>6. TypeOK'
  BY <1>1, <1>2, <1>5 DEF TypeInv, TypeOK, PC
<1>7. CallDecision' = CallDecision /\ Rec' = Rec
  BY <1>1 DEF CallDecision, Rec
<1>8. CallInv'
  BY <1>1, <1>7 DEF TypeInv, CallInv, Executing, StateAt
<1>9. OwnedInv'
  BY <1>1 DEF TypeInv, OwnedInv
<1> QED BY <1>6, <1>8, <1>9 DEF TypeInv

\* Steps that end the operation.
Returning == BindRefused \/ ExecuteDrifted \/ Publish \/ Crash

LEMMA ReturningType == TypeInv /\ Returning => TypeInv'
<1> SUFFICES ASSUME TypeInv, Returning PROVE TypeInv'
  OBVIOUS
<1>1. /\ Return /\ UNCHANGED <<users, record, resource, executed>> /\ exits' \in Nat
  BY DEF Returning, BindRefused, ExecuteDrifted, Publish, Crash, journal, TypeInv, TypeOK
<1>2. answers' \in [Requests -> Evidence \cup {None}]
  <2>1. CASE Publish
    <3>1. pc = "finish" /\ Rec # None
      BY <2>1 DEF Publish, TypeInv, CallInv
    <3>2. EvidenceOf(Rec) \in Evidence
      BY <3>1, RecType, EvidenceType
    <3> QED BY <2>1, <3>2 DEF Publish, TypeInv, TypeOK
  <2>2. CASE BindRefused \/ ExecuteDrifted \/ Crash
    BY <2>2 DEF BindRefused, ExecuteDrifted, Crash, journal, TypeInv, TypeOK
  <2> QED BY <2>1, <2>2 DEF Returning
<1> QED BY <1>1, <1>2, ReturnType

\* The disjuncts of Next, as the lemmas group them.
LEMMA NextCases ==
    ASSUME Next
    PROVE  \/ \E q \in Requests, w \in Worlds, b \in {"exact", "stale"} : NewCall(q, w, b)
           \/ \E q \in Requests, w \in Worlds, b \in {"exact", "stale"} : ResumeCall(q, w, b)
           \/ \E q \in Requests, w \in Worlds : ObserveCall(q, w)
           \/ Bind \/ Authorize \/ RecordDispatch \/ RecordExecuting \/ Execute
           \/ Finish \/ Returning
BY Zenon DEF Next, Proceed, Finish, Returning

LEMMA TypeStep == TypeInv /\ [Next]_vars => TypeInv'
<1> SUFFICES ASSUME TypeInv, [Next]_vars PROVE TypeInv'
  OBVIOUS
<1>1. CASE Next
  <2>1. ASSUME NEW q \in Requests, NEW w \in Worlds, NEW b \in {"exact", "stale"},
               NewCall(q, w, b)
        PROVE  TypeInv'
    BY <2>1, NewCallType
  <2>2. ASSUME NEW q \in Requests, NEW w \in Worlds, NEW b \in {"exact", "stale"},
               ResumeCall(q, w, b)
        PROVE  TypeInv'
    BY <2>2, ResumeCallType
  <2>3. ASSUME NEW q \in Requests, NEW w \in Worlds, ObserveCall(q, w)
        PROVE  TypeInv'
    BY <2>3, ObserveCallType
  <2>4. CASE Bind      BY <2>4, BindType
  <2>5. CASE Authorize BY <2>5, AuthorizeType
  <2>6. CASE RecordDispatch \/ RecordExecuting BY <2>6, StateType
  <2>7. CASE Execute   BY <2>7, ExecuteType
  <2>8. CASE Finish    BY <2>8, FinishType
  <2>9. CASE Returning BY <2>9, ReturningType
  <2> QED BY <1>1, <2>1, <2>2, <2>3, <2>4, <2>5, <2>6, <2>7, <2>8, <2>9, NextCases
<1>2. CASE UNCHANGED vars
  <2>1. CallDecision' = CallDecision /\ Rec' = Rec /\ call' = call
        /\ Check(call.req, call.world)' = Check(call.req, call.world)
    BY <1>2 DEF vars, CallDecision, Rec, Check
  <2>2. TypeOK' /\ OwnedInv'
    BY <1>2 DEF vars, TypeInv, TypeOK, OwnedInv
  <2>3. CallInv'
    BY <1>2, <2>1 DEF vars, TypeInv, CallInv
  <2> QED BY <2>2, <2>3 DEF TypeInv
<1> QED BY <1>1, <1>2

\* Every reachable state is well typed, for any requests and openings.
THEOREM TypeCorrect == Spec => []TypeOK
<1>1. Spec => []TypeInv
  BY TypeInit, TypeStep, PTL DEF Spec
<1>2. TypeInv => TypeOK
  BY DEF TypeInv
<1> QED BY <1>1, <1>2, PTL

----------------------------------------------------------------------------
\* How a save moves the record in hand.

Undispatched == {"PERMISSION_ALLOWED", "DISPATCH_INTENT_DURABLE"}
Saving == Bind \/ Authorize \/ RecordDispatch \/ RecordExecuting \/ Finish

LEMMA SaveMoves ==
    ASSUME TypeInv, Saving
    PROVE  \E r \in Records :
              /\ call \in CallType
              /\ call' = call
              /\ record'[call.key] = r
              /\ r # None
              /\ \A k \in Keys : k # call.key => record'[k] = record[k]
              /\ UNCHANGED <<users, answers, executed>>
              /\ \/ Bind /\ Rec = None
                 \/ /\ Rec # None
                    /\ Rec \in Records
                    /\ r.intent = Rec.intent
                    /\ Rec.state # "TERMINAL"
                    /\ Rec.state \in Undispatched \/ r.state \notin Undispatched
<1>1. /\ call \in CallType /\ call' = call
      /\ UNCHANGED <<users, answers, executed>>
      /\ pc # "idle"
      /\ ~Bind => Rec # None
      /\ Bind => Rec = None
  BY DEF TypeInv, CallInv, Saving, Bind, Authorize, RecordDispatch, RecordExecuting, Finish,
         Refuse, RecordReceipt, FinishUnknown, FinishReadback, FinishPlain, At, Executing, journal
<1>2. ~Bind => Rec \in Records
  BY <1>1, RecType
<1>3. \E r \in Records :
         /\ SavesTo(r)
         /\ ~Bind => /\ r.intent = Rec.intent
                     /\ Rec.state # "TERMINAL"
                     /\ Rec.state \in Undispatched \/ r.state \notin Undispatched
  <2>1. CASE Bind          BY <2>1, SaveBind
  <2>2. CASE Authorize
    BY <1>2, <2>2, SaveAuthorize
    DEF Records, TypeInv, CallInv, Authorize, Bind, At, Executing, StateAt, Undispatched
  <2>3. CASE RecordDispatch \/ RecordExecuting
    BY <1>2, <2>3, SaveState
    DEF Records, TypeInv, CallInv, RecordDispatch, RecordExecuting, Bind, At, Executing,
        StateAt, Undispatched
  <2>4. CASE Refuse
    BY <1>2, <2>4, SaveRefuse
    DEF Records, TypeInv, CallInv, Refuse, Bind, At, Executing, StateAt, Undispatched
  <2>5. CASE RecordReceipt
    BY <1>2, <2>5, SaveReceipt
    DEF Records, TypeInv, CallInv, RecordReceipt, Bind, At, Executing, StateAt, Undispatched
  <2>6. CASE FinishUnknown
    BY <1>2, <2>6, SaveUnknown DEF Records, FinishUnknown, Bind, At, Undispatched
  <2>7. CASE FinishReadback
    BY <1>2, <2>7, SaveReadback DEF Records, FinishReadback, Bind, At, Undispatched
  <2>8. CASE FinishPlain
    BY <1>2, <2>8, SavePlain DEF Records, FinishPlain, Bind, At, Undispatched
  <2> QED BY <2>1, <2>2, <2>3, <2>4, <2>5, <2>6, <2>7, <2>8 DEF Saving, Finish
<1>4. PICK r \in Records :
         /\ SavesTo(r)
         /\ ~Bind => /\ r.intent = Rec.intent
                     /\ Rec.state # "TERMINAL"
                     /\ Rec.state \in Undispatched \/ r.state \notin Undispatched
  BY <1>3
<1>5. /\ record'[call.key] = r
      /\ r # None
      /\ \A k \in Keys : k # call.key => record'[k] = record[k]
  BY <1>1, <1>4, SaveType DEF TypeInv, SavesTo
<1> QED BY <1>1, <1>2, <1>4, <1>5

\* Every other step leaves the control snapshot as it is.
LEMMA OtherSteps ==
    ASSUME [Next]_vars, ~Saving
    PROVE  UNCHANGED record
BY NextCases DEF Saving, Finish, Returning, NewCall, ResumeCall, ObserveCall, Execute, BindRefused,
    ExecuteDrifted, Publish, Crash, vars

\* A record that is TERMINAL stays as it is: only an open one is ever saved.
THEOREM TerminalHolds == Spec => TerminalIsFinal
<1>1. TypeInv /\ [Next]_vars =>
         [\A k \in Keys : record[k] # None /\ record[k].state = "TERMINAL" => record'[k] = record[k]]_vars
  <2> SUFFICES ASSUME TypeInv, [Next]_vars, NEW k \in Keys,
                      record[k] # None, record[k].state = "TERMINAL"
               PROVE  record'[k] = record[k]
    OBVIOUS
  <2>1. CASE Saving
    BY <2>1, SaveMoves DEF Rec
  <2>2. CASE ~Saving
    BY <2>2, OtherSteps
  <2> QED BY <2>1, <2>2
<1> QED BY <1>1, TypeInit, TypeStep, PTL DEF Spec, TerminalIsFinal

----------------------------------------------------------------------------
\* At most one effect.

EffectInv ==
    \A q \in Requests : executed[q] > 0 =>
        /\ executed[q] = 1
        /\ record[q.key] # None
        /\ record[q.key].intent.req = q
        /\ record[q.key].state \notin Undispatched
        /\ ~(pc = "effect" /\ call.req = q)

LEMMA EffectStep == TypeInv /\ EffectInv /\ [Next]_vars => EffectInv'
<1> SUFFICES ASSUME TypeInv, EffectInv, [Next]_vars PROVE EffectInv'
  OBVIOUS
<1>1. CASE Saving
  <2> SUFFICES ASSUME NEW q \in Requests, executed'[q] > 0
               PROVE  /\ executed'[q] = 1
                      /\ record'[q.key] # None
                      /\ record'[q.key].intent.req = q
                      /\ record'[q.key].state \notin Undispatched
                      /\ ~(pc' = "effect" /\ call'.req = q)
    BY DEF EffectInv
  <2>1. /\ executed' = executed /\ executed[q] = 1
        /\ record[q.key] # None
        /\ record[q.key].intent.req = q
        /\ record[q.key].state \notin Undispatched
    BY <1>1, SaveMoves DEF EffectInv
  <2>2. /\ record'[q.key] # None
        /\ record'[q.key].intent.req = q
        /\ record'[q.key].state \notin Undispatched
    BY <1>1, <2>1, SaveMoves, KeyType DEF Rec
  <2>3. ASSUME pc' = "effect", call'.req = q PROVE FALSE
    <3>1. RecordExecuting
      BY <1>1, <2>3 DEF Saving, Bind, Authorize, RecordDispatch, Finish, Refuse, RecordReceipt,
         FinishUnknown, FinishReadback, FinishPlain, At
    <3>2. Rec.state = "DISPATCH_INTENT_DURABLE" /\ call.key = call.req.key /\ call' = call
      BY <3>1 DEF RecordExecuting, At, TypeInv, CallInv, Executing, StateAt
    <3> QED BY <2>1, <2>3, <3>2 DEF Rec, Undispatched
  <2> QED BY <2>1, <2>2, <2>3
<1>2. CASE Execute
  <2>1. /\ call \in CallType /\ call.key = call.req.key /\ Rec # None
        /\ Rec.intent = Intent(call.req, call.world)
        /\ Rec.state = "EXECUTING_OR_UNKNOWN"
        /\ pc = "effect" /\ pc' = "receipt" /\ call' = call
        /\ record' = record
        /\ executed' = [executed EXCEPT ![call.req] = @ + 1]
    BY <1>2 DEF Execute, At, TypeInv, CallInv, Executing, StateAt
  <2>2. Rec.intent.req = call.req /\ call.req \in Requests
    BY <2>1, DecisionType DEF CallType
  <2>3. executed[call.req] = 0
    BY <2>1, <2>2 DEF TypeInv, TypeOK, EffectInv
  <2>4. ASSUME NEW q \in Requests, executed'[q] > 0
        PROVE  /\ executed'[q] = 1
               /\ record[q.key] # None
               /\ record[q.key].intent.req = q
               /\ record[q.key].state \notin Undispatched
    <3>1. CASE q = call.req
      BY <2>1, <2>2, <2>3, <3>1 DEF Rec, Undispatched, TypeInv, TypeOK
    <3>2. CASE q # call.req
      BY <2>1, <2>4, <3>2 DEF EffectInv, TypeInv, TypeOK
    <3> QED BY <3>1, <3>2
  <2> QED BY <2>1, <2>4 DEF EffectInv
<1>3. CASE ~Saving /\ ~Execute
  <2>1. record' = record /\ executed' = executed
    BY <1>3, OtherSteps, NextCases DEF Saving, Returning, NewCall, ResumeCall, ObserveCall,
       BindRefused, ExecuteDrifted, Publish, Crash, vars
  <2>2. pc' # "effect" \/ UNCHANGED <<pc, call>>
    BY <1>3, NextCases DEF Saving, Returning, NewCall, ResumeCall, ObserveCall, Starts,
       BindRefused, ExecuteDrifted, Publish, Crash, Return, vars
  <2> QED BY <2>1, <2>2 DEF EffectInv
<1> QED BY <1>1, <1>2, <1>3

\* At most one effect per request, key and action id, whatever the callers,
\* the exits and the openings do.
THEOREM OneEffectHolds == Spec => []OneEffect
<1>1. Init => EffectInv
  BY DEF Init, EffectInv
<1>2. Spec => [](TypeInv /\ EffectInv)
  BY <1>1, TypeInit, TypeStep, EffectStep, PTL DEF Spec
<1>3. TypeInv /\ EffectInv => OneEffect
  <2> SUFFICES ASSUME TypeInv, EffectInv PROVE OneEffect
    OBVIOUS
  <2>1. \A q \in Requests : executed[q] <= 1
    BY DEF EffectInv, TypeInv, TypeOK
  <2>2. ASSUME NEW p \in Requests, NEW q \in Requests, executed[p] > 0, executed[q] > 0,
               p.key = q.key \/ p.action = q.action \/ p.id = q.id
        PROVE  p = q
    <3>1. /\ record[p.key] # None /\ record[p.key].intent.req = p
          /\ record[q.key] # None /\ record[q.key].intent.req = q
      BY <2>2 DEF EffectInv
    <3>2. p.key = q.key
      BY <2>2, <3>1, KeyType DEF TypeInv, OwnedInv
    <3> QED BY <3>1, <3>2
  <2> QED BY <2>1, <2>2 DEF OneEffect
<1> QED BY <1>2, <1>3, PTL

\* An effect is of the action its durable record names, under the decision of
\* the very opening in which it happens.
THEOREM EffectAuthorisedHolds == Spec => EffectIsAuthorised
<1> DEFINE Authorised ==
        \A q \in Requests : executed'[q] # executed[q] =>
            /\ record[q.key] # None
            /\ record[q.key].state = "EXECUTING_OR_UNKNOWN"
            /\ record[q.key].permission = Decision(q, call.world, "exact")
            /\ record[q.key].permission.verdict = "ALLOW"
<1>1. TypeInv /\ [Next]_vars => [Authorised]_vars
  <2> SUFFICES ASSUME TypeInv, [Next]_vars PROVE Authorised
    OBVIOUS
  <2>1. CASE Execute
    <3>1. /\ call \in CallType /\ call.key = call.req.key /\ Rec # None
          /\ Rec.state = "EXECUTING_OR_UNKNOWN"
          /\ Rec.permission = CallDecision /\ CallDecision.verdict = "ALLOW"
          /\ executed' = [executed EXCEPT ![call.req] = @ + 1]
      BY <2>1 DEF Execute, At, TypeInv, CallInv, Executing, StateAt
    <3>2. call.binding = "exact"
      BY <3>1 DEF CallDecision, Decision, Verdict, CallType
    <3>3. \A q \in Requests : executed'[q] # executed[q] => q = call.req
      BY <3>1 DEF TypeInv, TypeOK
    <3> QED BY <3>1, <3>2, <3>3 DEF Rec, CallDecision
  <2>2. CASE ~Execute
    <3>1. executed' = executed
      BY <2>2, SaveMoves, NextCases DEF Saving, Returning, NewCall, ResumeCall, ObserveCall,
         BindRefused, ExecuteDrifted, Publish, Crash, vars
    <3> QED BY <3>1
  <2> QED BY <2>1, <2>2
<1>2. Spec => []TypeInv
  BY TypeInit, TypeStep, PTL DEF Spec
<1>3. Spec => [][Authorised]_vars
  BY <1>1, <1>2, PTL DEF Spec
<1> QED BY <1>3 DEF EffectIsAuthorised

----------------------------------------------------------------------------
\* The three stores agree: a terminal event is the evidence of a TERMINAL record
\* with its request's action id.

Published(q) ==
    answers[q] # None =>
        /\ q \in users
        /\ \E k \in Keys :
              /\ record[k] # None
              /\ record[k].state = "TERMINAL"
              /\ record[k].intent.req.action = q.action
              /\ answers[q] = EvidenceOf(record[k])

StoresInv ==
    /\ \A q \in Requests : Published(q)
    /\ pc = "finish" => Rec.intent.req.action = call.req.action

LEMMA StoresStep ==
    ASSUME TypeInv, StoresInv, [Next]_vars
    PROVE  StoresInv'
<1>1. CASE Saving
  <2>1. /\ call \in CallType /\ call' = call /\ users' = users /\ answers' = answers
    BY <1>1, SaveMoves
  <2>2. \A k \in Keys : record[k] # None /\ record[k].state = "TERMINAL" => record'[k] = record[k]
    BY <1>1, SaveMoves DEF Rec
  <2>3. ASSUME NEW q \in Requests PROVE Published(q)'
    <3>1. CASE answers[q] # None
      <4>1. PICK k \in Keys : /\ record[k] # None
                              /\ record[k].state = "TERMINAL"
                              /\ record[k].intent.req.action = q.action
                              /\ answers[q] = EvidenceOf(record[k])
        BY <3>1 DEF StoresInv, Published
      <4>2. record'[k] = record[k]
        BY <2>2, <4>1
      <4>3. EvidenceOf(record[k])' = EvidenceOf(record[k])
        BY <4>2 DEF EvidenceOf
      <4> QED BY <2>1, <3>1, <4>1, <4>2, <4>3 DEF StoresInv, Published
    <3>2. CASE answers[q] = None
      BY <2>1, <3>2 DEF Published
    <3> QED BY <3>1, <3>2
  <2>4. ASSUME pc' = "finish" PROVE Rec'.intent.req.action = call'.req.action
    <3>1. CASE Bind
      <4>1. Rec'.intent = Intent(call.req, call.world)
        BY <2>1, <3>1, SaveBind, SaveType DEF Rec, SavesTo, TypeInv
      <4> QED BY <2>1, <4>1, DecisionType DEF CallType
    <3>2. CASE ~Bind
      <4>1. Rec'.intent = Rec.intent
        BY <1>1, <3>2, SaveMoves DEF Rec
      <4>2. CASE pc = "finish"
        BY <2>1, <4>1, <4>2 DEF StoresInv
      <4>3. CASE pc \in Executing
        BY <2>1, <4>1, <4>3, DecisionType DEF CallType, TypeInv, CallInv
      <4>4. pc = "finish" \/ pc \in Executing
        BY <1>1, <3>2 DEF Saving, Authorize, RecordDispatch, RecordExecuting, Finish, Refuse,
           RecordReceipt, FinishUnknown, FinishReadback, FinishPlain, At, Executing
      <4> QED BY <4>2, <4>3, <4>4
    <3> QED BY <3>1, <3>2
  <2> QED BY <2>3, <2>4 DEF StoresInv
<1>2. CASE \E q \in Requests, w \in Worlds, b \in {"exact", "stale"} : NewCall(q, w, b)
  BY <1>2 DEF StoresInv, NewCall, Published, EvidenceOf, Starts
<1>3. CASE \E q \in Requests, w \in Worlds, b \in {"exact", "stale"} : ResumeCall(q, w, b)
  <2>1. PICK q \in Requests, w \in Worlds, b \in {"exact", "stale"} : ResumeCall(q, w, b)
    BY <1>3
  <2>2. pc' = "finish" => Rec'.intent.req.action = call'.req.action
    <3>1. pc' = "finish" => Rec' = record[q.key] /\ call'.req = q /\ record[q.key] # None
      BY <2>1, StartStep, KeyType DEF ResumeCall, PC, Starts
    <3> QED BY <2>1, <3>1, DecisionType DEF ResumeCall, Check
  <2> QED BY <2>1, <2>2 DEF StoresInv, ResumeCall, journal, Published, EvidenceOf
<1>4. CASE \E q \in Requests, w \in Worlds : ObserveCall(q, w)
  <2>1. PICK q \in Requests, w \in Worlds : ObserveCall(q, w)
    BY <1>4
  <2>2. PICK k \in Keys : /\ record[k] # None
                          /\ record[k].intent.req.action = q.action
                          /\ Starts(q, k, w, "exact", "finish")
    BY <2>1 DEF ObserveCall
  <2>3. Rec' = record[k] /\ call'.req = q
    BY <2>1, <2>2, StartStep DEF ObserveCall, PC
  <2> QED BY <2>1, <2>2, <2>3 DEF StoresInv, ObserveCall, journal, Published, EvidenceOf
<1>5. CASE Publish
  <2>1. /\ pc = "finish" /\ Rec # None /\ Rec.state = "TERMINAL" /\ call \in CallType
        /\ call.req \in users /\ Rec.intent.req.action = call.req.action
        /\ pc' = "idle" /\ UNCHANGED <<users, record>>
        /\ answers' = [answers EXCEPT ![call.req] = IF @ = None THEN EvidenceOf(Rec) ELSE @]
    BY <1>5 DEF Publish, Return, TypeInv, CallInv, StoresInv
  <2>2. ASSUME NEW q \in Requests PROVE Published(q)'
    <3>1. CASE q = call.req /\ answers[q] = None
      <4>1. answers'[q] = EvidenceOf(Rec) /\ call.key \in Keys
        BY <2>1, <3>1 DEF TypeInv, TypeOK, CallType
      <4> QED BY <2>1, <3>1, <4>1 DEF Published, Rec, EvidenceOf
    <3>2. CASE q # call.req \/ answers[q] # None
      <4>1. answers'[q] = answers[q]
        BY <2>1, <3>2 DEF TypeInv, TypeOK
      <4> QED BY <2>1, <4>1 DEF StoresInv, Published, EvidenceOf
    <3> QED BY <3>1, <3>2
  <2> QED BY <2>1, <2>2 DEF StoresInv
<1>6. CASE Execute \/ BindRefused \/ ExecuteDrifted \/ Crash
  BY <1>6 DEF Execute, BindRefused, ExecuteDrifted, Crash, Return, At, journal, StoresInv,
     Published, EvidenceOf
<1>7. CASE UNCHANGED vars
  BY <1>7 DEF vars, StoresInv, Published, EvidenceOf, Rec
<1> QED BY <1>1, <1>2, <1>3, <1>4, <1>5, <1>6, <1>7, NextCases DEF Saving, Returning

\* Only one record bears an action id, so the record published for a request is
\* its own unless the id is Taken, and then nothing of its own took effect.
LEMMA PublishedIsOwn ==
    ASSUME TypeInv, StoresInv, NEW q \in users, answers[q] # None
    PROVE  \E k \in Keys :
              /\ record[k] # None
              /\ record[k] \in Records
              /\ record[k].state = "TERMINAL"
              /\ record[k].intent.req \in Requests
              /\ record[k].intent.req.key = k
              /\ record[k].intent.req.action = q.action
              /\ record[k].intent.req # q => Taken(q)
              /\ Taken(q) => record[k].intent.req # q
              /\ answers[q] = EvidenceOf(record[k])
<1>1. q \in Requests
  BY DEF TypeInv, TypeOK
<1>2. PICK k \in Keys :
         /\ record[k] # None
         /\ record[k].state = "TERMINAL"
         /\ record[k].intent.req.action = q.action
         /\ answers[q] = EvidenceOf(record[k])
  BY <1>1 DEF StoresInv, Published
<1>3. record[k] \in Records
  BY <1>2 DEF TypeInv, TypeOK
<1>4. record[k].intent.req \in Requests
  BY <1>3, IntentReq DEF Records
<1>5. record[k].intent.req.key = k
  BY <1>2 DEF TypeInv, OwnedInv
<1>6. record[k].intent.req # q => Taken(q)
  BY <1>2 DEF Taken
<1>7. ASSUME Taken(q) PROVE record[k].intent.req # q
  <2>1. PICK l \in Keys : /\ record[l] # None
                          /\ record[l].intent.req.action = q.action
                          /\ record[l].intent.req # q
    BY <1>7 DEF Taken
  <2>2. l = k
    BY <1>2, <2>1 DEF TypeInv, OwnedInv
  <2> QED BY <2>1, <2>2
<1> QED BY <1>2, <1>3, <1>4, <1>5, <1>6, <1>7

\* A terminal event says what a TERMINAL record says, for ever, and it is its
\* own request's record unless another request has bound the action id; then it
\* is that request's.
THEOREM EvidenceHolds == Spec => []EvidenceIsOwn
<1>1. Init => StoresInv
  BY DEF Init, StoresInv, Published
<1>2. TypeInv /\ StoresInv /\ [Next]_vars => StoresInv'
  BY StoresStep
<1>3. TypeInv /\ StoresInv => EvidenceIsOwn
  BY PublishedIsOwn DEF EvidenceIsOwn
<1> QED BY <1>1, <1>2, <1>3, TypeInit, TypeStep, PTL DEF Spec

----------------------------------------------------------------------------
\* What a record says of the adapter is true.

\* outcome o, reported for a request q, agrees with the adapter.
TrueOutcome(o, q) ==
    /\ o \in Script
    /\ o \in {"SUCCESS", "PARTIAL", "FAILED"} => executed[q] = 1 /\ q.script = o

TruthOf(r) ==
    /\ r.state \in Undispatched \cup {"EXECUTING_OR_UNKNOWN"} => r.receipt = None
    /\ r.state \in {"RECEIPT_OBSERVED", "READBACK_VERIFIED"} =>
          r.receipt # None /\ executed[r.intent.req] = 1
    /\ r.state = "TERMINAL" /\ r.receipt = None =>
          /\ r.permission.verdict # "ALLOW"
          /\ executed[r.intent.req] = 0
    /\ r.receipt # None => TrueOutcome(r.receipt.outcome, r.intent.req)

TruthInv ==
    /\ \A k \in Keys : record[k] # None => TruthOf(record[k])
    /\ pc = "receipt" => executed[call.req] = 1

LEMMA ReceiptTruth ==
    ASSUME NEW q \in Requests, NEW o \in Script,
           NEW b \in {"NOT_VERIFIED", "VERIFIED", "MISMATCH", "UNAVAILABLE"},
           o # "UNKNOWN" => executed[q] = 1 /\ q.script = o
    PROVE  /\ Receipt(q, o, b) # None
           /\ TrueOutcome(Receipt(q, o, b).outcome, q)
<1>1. Receipt(q, o, b) \in Receipts /\ Receipt(q, o, b).outcome \in {o, "UNKNOWN"}
  BY ReceiptType
<1>2. Receipt(q, o, b) # None
  BY <1>1, NoneAssumption
<1> QED BY <1>1, <1>2 DEF TrueOutcome, Script

\* The record just saved is true.
LEMMA SavedTruth ==
    ASSUME TypeInv, EffectInv, TruthInv, Saving
    PROVE  \E r \in Records : SavesTo(r) /\ TruthOf(r)
<1>1. /\ call \in CallType
      /\ Rec # None => Rec \in Records /\ Rec.intent.req \in Requests
  <2>1. call \in CallType /\ pc # "idle"
    BY SaveMoves DEF Saving, Bind, Authorize, RecordDispatch, RecordExecuting, Finish, Refuse,
       RecordReceipt, FinishUnknown, FinishReadback, FinishPlain, At
  <2> QED BY <2>1, RecType
<1>2. Rec # None => TruthOf(Rec) /\ Rec.intent.req.key = call.key
  BY <1>1 DEF TruthInv, Rec, CallType, TypeInv, OwnedInv
<1>3. CASE Bind
  <2>1. /\ Rec = None /\ call.key = call.req.key /\ call.req \in Requests
        /\ Intent(call.req, call.world).req = call.req
    BY <1>1, <1>3, DecisionType DEF Bind, At, TypeInv, CallInv, CallType
  <2>2. executed[call.req] = 0
    BY <2>1 DEF Rec, EffectInv, TypeInv, TypeOK
  <2> QED BY <1>3, <2>1, <2>2, SaveBind DEF TruthOf, Undispatched
<1>4. CASE Authorize
  <2>1. Rec # None /\ Rec.state = "PERMISSION_ALLOWED"
    BY <1>4 DEF Authorize, At, TypeInv, CallInv, Executing, StateAt
  <2> QED BY <1>1, <1>2, <1>4, <2>1, SaveAuthorize DEF TruthOf, Records, Undispatched
<1>5. CASE RecordDispatch \/ RecordExecuting
  <2>1. Rec # None /\ Rec.state \in Undispatched
    BY <1>5 DEF RecordDispatch, RecordExecuting, At, TypeInv, CallInv, Executing, StateAt,
       Undispatched
  <2> QED BY <1>1, <1>2, <1>5, <2>1, SaveState DEF TruthOf, Records, Undispatched
<1>6. CASE Refuse
  <2>1. Rec # None /\ Rec.state \in Undispatched /\ Rec.permission.verdict # "ALLOW"
    BY <1>6 DEF Refuse, At, TypeInv, CallInv, Executing, StateAt, Undispatched
  <2>2. executed[Rec.intent.req] = 0
    BY <1>1, <1>2, <2>1 DEF Rec, EffectInv, TypeInv, TypeOK
  <2> QED BY <1>1, <1>2, <1>6, <2>1, <2>2, SaveRefuse DEF TruthOf, Records, Undispatched
<1>7. CASE RecordReceipt
  <2>1. /\ Rec # None /\ Rec.intent = Intent(call.req, call.world)
        /\ executed[call.req] = 1
    BY <1>7 DEF RecordReceipt, At, TypeInv, CallInv, Executing, TruthInv
  <2>2. Rec.intent.req = call.req /\ call.req \in Requests /\ call.req.script \in Script
    BY <1>1, <2>1, DecisionType, ToolAssumption DEF CallType
  <2>3. /\ Receipt(call.req, call.req.script, "NOT_VERIFIED") # None
        /\ TrueOutcome(Receipt(call.req, call.req.script, "NOT_VERIFIED").outcome, call.req)
    BY <2>1, <2>2, ReceiptTruth
  <2>4. PICK r \in Records :
           /\ SavesTo(r)
           /\ r = [Rec EXCEPT !.state = "RECEIPT_OBSERVED",
                              !.receipt = Receipt(call.req, call.req.script, "NOT_VERIFIED")]
    BY <1>7, SaveReceipt
  <2>5. /\ r.intent = Rec.intent /\ r.state = "RECEIPT_OBSERVED"
        /\ r.receipt = Receipt(call.req, call.req.script, "NOT_VERIFIED")
    BY <1>1, <2>1, <2>4 DEF Records
  <2> QED BY <2>1, <2>2, <2>3, <2>4, <2>5 DEF TruthOf, Undispatched
<1>8. CASE FinishUnknown
  <2>1. Rec # None
    BY <1>8 DEF FinishUnknown, At, TypeInv, CallInv
  <2>2. /\ Receipt(Rec.intent.req, "UNKNOWN", "NOT_VERIFIED") # None
        /\ TrueOutcome(Receipt(Rec.intent.req, "UNKNOWN", "NOT_VERIFIED").outcome, Rec.intent.req)
    BY <1>1, <2>1, ReceiptTruth DEF Script
  <2> QED BY <1>1, <1>8, <2>1, <2>2, SaveUnknown DEF TruthOf, Records, Undispatched
<1>9. CASE FinishReadback
  <2>1. /\ Rec # None /\ Rec.intent.req.script = "SUCCESS"
        /\ Rec.state = "RECEIPT_OBSERVED"
    BY <1>9 DEF FinishReadback, NeedsReadback, At, TypeInv, CallInv
  <2>2. executed[Rec.intent.req] = 1
    BY <1>2, <2>1 DEF TruthOf
  <2>3. \A b \in {"VERIFIED", "MISMATCH", "UNAVAILABLE"} :
           /\ Receipt(Rec.intent.req, "SUCCESS", b) # None
           /\ TrueOutcome(Receipt(Rec.intent.req, "SUCCESS", b).outcome, Rec.intent.req)
    BY <1>1, <2>1, <2>2, ReceiptTruth DEF Script
  <2>4. PICK b \in {"VERIFIED", "MISMATCH", "UNAVAILABLE"}, r \in Records :
           /\ SavesTo(r)
           /\ r = [Rec EXCEPT !.receipt = Receipt(Rec.intent.req, "SUCCESS", b),
                              !.state = IF b = "VERIFIED" THEN "READBACK_VERIFIED" ELSE "TERMINAL",
                              !.reason = IF b = "VERIFIED" THEN Rec.reason
                                         ELSE "P2_READBACK_NOT_VERIFIED"]
    BY <1>9, SaveReadback
  <2>5. /\ r.intent = Rec.intent /\ r.state \in {"READBACK_VERIFIED", "TERMINAL"}
        /\ r.receipt = Receipt(Rec.intent.req, "SUCCESS", b)
    BY <1>1, <2>1, <2>4 DEF Records
  <2> QED BY <2>2, <2>3, <2>4, <2>5 DEF TruthOf, Undispatched
<1>10. CASE FinishPlain
  <2>1. Rec # None /\ Rec.state \in {"RECEIPT_OBSERVED", "READBACK_VERIFIED"}
    BY <1>10 DEF FinishPlain, At, TypeInv, CallInv
  <2> QED BY <1>1, <1>2, <1>10, <2>1, SavePlain DEF TruthOf, Records, Undispatched
<1> QED BY <1>3, <1>4, <1>5, <1>6, <1>7, <1>8, <1>9, <1>10 DEF Saving, Finish

LEMMA TruthStep == TypeInv /\ EffectInv /\ TruthInv /\ [Next]_vars => TruthInv'
<1> SUFFICES ASSUME TypeInv, EffectInv, TruthInv, [Next]_vars PROVE TruthInv'
  OBVIOUS
<1>1. CASE Saving
  <2>1. PICK r \in Records : SavesTo(r) /\ TruthOf(r)
    BY <1>1, SavedTruth
  <2>2. call \in CallType /\ executed' = executed
    BY <1>1, SaveMoves
  <2>3. /\ record'[call.key] = r
        /\ \A k \in Keys : k # call.key => record'[k] = record[k]
    BY <2>1, <2>2, SaveType DEF SavesTo, TypeInv
  <2>4. pc' # "receipt"
    BY <1>1 DEF Saving, Bind, Authorize, RecordDispatch, RecordExecuting, Finish, Refuse,
       RecordReceipt, FinishUnknown, FinishReadback, FinishPlain, At
  <2>5. ASSUME NEW k \in Keys, record'[k] # None PROVE TruthOf(record[k])'
    BY <2>1, <2>2, <2>3, <2>5 DEF TruthInv, TruthOf, TrueOutcome
  <2> QED BY <2>4, <2>5 DEF TruthInv
<1>2. CASE Execute
  <2>1. /\ call \in CallType /\ call.key = call.req.key /\ Rec # None
        /\ Rec.intent = Intent(call.req, call.world)
        /\ Rec.state = "EXECUTING_OR_UNKNOWN"
        /\ pc = "effect" /\ pc' = "receipt" /\ call' = call
        /\ record' = record
        /\ executed' = [executed EXCEPT ![call.req] = @ + 1]
    BY <1>2 DEF Execute, At, TypeInv, CallInv, Executing, StateAt
  <2>2. Rec.intent.req = call.req /\ call.req \in Requests
    BY <2>1, DecisionType DEF CallType
  <2>3. executed[call.req] = 0 /\ executed'[call.req] = 1
    BY <2>1, <2>2 DEF TypeInv, TypeOK, EffectInv
  <2>4. ASSUME NEW k \in Keys, record[k] # None PROVE TruthOf(record[k])'
    <3>1. CASE k = call.key
      BY <2>1, <3>1 DEF Rec, TruthInv, TruthOf, Undispatched
    <3>2. CASE k # call.key
      <4>1. record[k].intent.req # call.req
        BY <2>1, <2>4, <3>2 DEF TypeInv, OwnedInv
      <4>2. executed'[record[k].intent.req] = executed[record[k].intent.req]
        BY <2>1, <4>1 DEF TypeInv, TypeOK
      <4> QED BY <2>1, <2>4, <4>2 DEF TruthInv, TruthOf, TrueOutcome
    <3> QED BY <3>1, <3>2
  <2> QED BY <2>1, <2>3, <2>4 DEF TruthInv
<1>3. CASE ~Saving /\ ~Execute
  <2>1. record' = record /\ executed' = executed
    BY <1>3, OtherSteps, NextCases DEF Saving, Returning, NewCall, ResumeCall, ObserveCall,
       BindRefused, ExecuteDrifted, Publish, Crash, vars
  <2>2. pc' # "receipt" \/ UNCHANGED <<pc, call>>
    BY <1>3, NextCases DEF Saving, Returning, NewCall, ResumeCall, ObserveCall, Starts,
       BindRefused, ExecuteDrifted, Publish, Crash, Return, vars
  <2>3. ASSUME NEW k \in Keys, record[k] # None PROVE TruthOf(record[k])'
    BY <2>1, <2>3 DEF TruthInv, TruthOf, TrueOutcome
  <2> QED BY <2>1, <2>2, <2>3 DEF TruthInv
<1> QED BY <1>1, <1>2, <1>3

\* A terminal event agrees with the adapter on the request its evidence names:
\* what it calls refused had no effect and what it reports as an outcome
\* happened; a request that is given another's evidence had no effect.
THEOREM OutcomeHolds == Spec => []OutcomeIsTrue
<1> DEFINE Inv == TypeInv /\ EffectInv /\ StoresInv /\ TruthInv
<1>1. Init => Inv
  BY TypeInit DEF Init, EffectInv, StoresInv, Published, TruthInv
<1>2. Inv /\ [Next]_vars => Inv'
  BY TypeStep, EffectStep, StoresStep, TruthStep
<1>3. Inv => OutcomeIsTrue
  <2> SUFFICES ASSUME Inv, NEW q \in users, answers[q] # None
               PROVE  LET r == answers[q].intent.req  o == Outcome(answers[q]) IN
                      /\ r # q => Taken(q) /\ executed[q] = 0
                      /\ o \in {"DENY", "REQUIRE_HUMAN"} => executed[r] = 0
                      /\ o \in {"SUCCESS", "PARTIAL", "FAILED"} =>
                            executed[r] = 1 /\ r.script = o
    BY DEF OutcomeIsTrue
  <2>1. PICK k \in Keys :
           /\ record[k] # None
           /\ record[k] \in Records
           /\ record[k].state = "TERMINAL"
           /\ record[k].intent.req \in Requests
           /\ record[k].intent.req.key = k
           /\ record[k].intent.req.action = q.action
           /\ record[k].intent.req # q => Taken(q)
           /\ answers[q] = EvidenceOf(record[k])
    BY PublishedIsOwn
  <2> DEFINE r == record[k].intent.req
  <2>2. /\ answers[q].intent.req = r /\ answers[q].receipt = record[k].receipt
        /\ answers[q].permission = record[k].permission
    BY <2>1 DEF EvidenceOf
  <2>3. TruthOf(record[k])
    BY <2>1 DEF TruthInv
  <2>4. ASSUME r # q PROVE Taken(q) /\ executed[q] = 0
    <3>1. q \in Requests /\ q.key \in Keys /\ executed[q] \in Nat
      BY KeyType DEF TypeInv, TypeOK
    <3>2. ASSUME executed[q] > 0 PROVE FALSE
      <4>1. record[q.key] # None /\ record[q.key].intent.req = q
        BY <3>1, <3>2 DEF EffectInv
      <4>2. q.key = k
        BY <2>1, <3>1, <4>1 DEF TypeInv, OwnedInv
      <4> QED BY <2>4, <4>1, <4>2
    <3> QED BY <2>1, <2>4, <3>1, <3>2
  <2>5. CASE record[k].receipt # None
    <3>1. Outcome(answers[q]) = record[k].receipt.outcome
      BY <2>2, <2>5 DEF Outcome
    <3>2. TrueOutcome(Outcome(answers[q]), r)
      BY <2>3, <2>5, <3>1 DEF TruthOf
    <3> QED BY <2>2, <2>4, <3>2 DEF TrueOutcome, Script
  <2>6. CASE record[k].receipt = None
    <3>1. Outcome(answers[q]) = record[k].permission.verdict /\ executed[r] = 0
      BY <2>1, <2>2, <2>3, <2>6 DEF Outcome, TruthOf
    <3>2. record[k].permission.verdict \in {"DENY", "REQUIRE_HUMAN"}
      <4>1. record[k].permission \in Decisions /\ record[k].permission.verdict # "ALLOW"
        BY <2>1, <2>3, <2>6 DEF Records, TruthOf
      <4>2. PICK p \in Requests, w \in Worlds, b \in {"exact", "stale"} :
               record[k].permission = Decision(p, w, b)
        BY <4>1 DEF Decisions
      <4> QED BY <4>1, <4>2, DecisionType
    <3> QED BY <2>2, <2>4, <3>1, <3>2
  <2> QED BY <2>5, <2>6
<1> QED BY <1>1, <1>2, <1>3, PTL DEF Spec

----------------------------------------------------------------------------
\* A session is one turn at a time.
THEOREM TurnsHold == Spec => []TurnsInOrder
<1>1. Init => TurnsInOrder
  BY DEF Init, TurnsInOrder
<1>2. TypeInv /\ TurnsInOrder /\ [Next]_vars => TurnsInOrder'
  <2> SUFFICES ASSUME TypeInv, TurnsInOrder, [Next]_vars PROVE TurnsInOrder'
    OBVIOUS
  <2>1. CASE \E q \in Requests, w \in Worlds, b \in {"exact", "stale"} : NewCall(q, w, b)
    <3>1. PICK q \in Requests : /\ users' = users \cup {q} /\ answers' = answers
                                /\ \A u \in users : u.session = q.session =>
                                      u.turn < q.turn /\ answers[u] # None
      BY <2>1 DEF NewCall, InSession
    <3>2. \A u \in users \cup {q} : u.turn \in Nat
      BY ToolAssumption DEF TypeInv, TypeOK
    <3> QED BY <3>1, <3>2 DEF TurnsInOrder
  <2>2. CASE Publish
    <3>1. /\ users' = users
          /\ \A u \in users : answers[u] # None => answers'[u] # None
      BY <2>2 DEF Publish, TypeInv, TypeOK
    <3> QED BY <3>1 DEF TurnsInOrder
  <2>3. CASE /\ ~Publish
             /\ ~\E q \in Requests, w \in Worlds, b \in {"exact", "stale"} : NewCall(q, w, b)
    <3>1. users' = users /\ answers' = answers
      BY <2>3, SaveMoves, NextCases DEF Saving, Returning, ResumeCall, ObserveCall, Execute,
         BindRefused, ExecuteDrifted, Crash, vars, journal
    <3> QED BY <3>1 DEF TurnsInOrder
  <2> QED BY <2>1, <2>2, <2>3
<1> QED BY <1>1, <1>2, TypeInit, TypeStep, PTL DEF Spec
=============================================================================
