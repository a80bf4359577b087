------------------------------ MODULE Workspace ------------------------------
(***************************************************************************)
(* The browser pages of companion_mind/owned_home/shell.py that ask        *)
(* something of the home, each in one tab: "/" (home), "/continuity",      *)
(* "/models", "/tools" and "/human"; and the server of make_server.        *)
(*                                                                         *)
(* A page keeps one handle: the id it gave its turn, action or decision    *)
(* request ("turn" here), made before anything is sent and kept in         *)
(* localStorage over reloads.  The server is single-threaded and serves    *)
(* connections in the order it accepted them, so what is under way is a    *)
(* queue; a page that hears no answer does not know whether its request is *)
(* lost, still queued, or carried out.                                     *)
(*                                                                         *)
(* Pages share no record, session or turn: a behaviour is of one page.     *)
(***************************************************************************)
EXTENDS Integers, Sequences, FiniteSets

CONSTANTS
    Pages,     \* pages the user may open
    MaxTurns,  \* bound on the handles a page makes
    MaxFaults, \* bound on what goes wrong: see Faulty
    None       \* absent

ASSUME WorkspaceAssumption ==
    /\ Pages \subseteq {"home", "continuity", "models", "tools", "human"}
    /\ MaxTurns \in Nat
    /\ MaxFaults \in Nat

Ids     == 1..MaxTurns
Numbers == 1..(MaxTurns + 1)

VARIABLES
    page,    \* the page of this behaviour
    storage, \* its localStorage record: handle and turn number
    tab,     \* the running script: the same two, the state it shows, what it does
    made,    \* handles made so far
    shown,   \* turns whose end the page has shown
    wire,    \* requests the server will serve, oldest first
    turns,   \* what the server's stores hold of each turn
    faults   \* faults so far

client == <<storage, tab, made, shown>>
vars   == <<page, client, wire, turns, faults>>

----------------------------------------------------------------------------
\* Turns as the server's stores hold them: waiting for an explicit resume,
\* crossed into the provider, tool or hop, ended, or ended without a known
\* outcome.  A decision request is asked before it is answered, and its answer
\* may be to hold.

Ended  == {"closed", "unsure"}
Phases == {"asked", "held", "waiting", "crossed"} \cup Ended

\* What the page shows: nothing, an answer's status, or that a call failed
\* (UNKNOWN, TRANSPORT_UNCERTAIN on the tools page).
Statuses == {"NOT_FOUND", "ASKED", "AWAIT", "UNKNOWN"} \cup Ended
States   == Statuses \cup {None}

ASSUME NoneAssumption ==
    /\ None \notin Ids
    /\ None \notin Statuses
    /\ None \notin [no : Ids, phase : Phases]

\* What the script is busy with, and the request it makes for it.
Request == [look |-> "observe", check |-> "observe", write |-> "turn",
            resume |-> "resume", respond |-> "respond", cancel |-> "cancel"]
Works   == DOMAIN Request
Ops     == {"observe", "turn", "resume", "respond", "cancel"}

TypeOK ==
    /\ page \in Pages
    /\ storage \in [id : Ids \cup {None}, no : Numbers]
    /\ tab \in [id : Ids \cup {None}, no : Numbers, state : States,
                doing : Works \cup {"nothing"}, sent : {"no", "yes"}]
    /\ made \in 0..MaxTurns
    /\ shown \subseteq Ids
    /\ wire \in Seq([op : Ops, id : Ids, no : Numbers, awaited : {"no", "yes"}])
    /\ turns \in [Ids -> [no : Ids, phase : Phases] \cup {None}]
    /\ faults \in Nat

Stored == {i \in Ids : turns[i] # None}

\* These two pages ask everything in a session of its own, number 1.
SessionPerTurn == page \in {"home", "human"}
Session(i)     == IF SessionPerTurn THEN {i} \cap Stored ELSE Stored

\* The number the next turn of a session must have: one more than the highest.
NumberAfter(ids) == CHOOSE n \in Numbers : /\ \A i \in ids : turns[i].no < n
                                           /\ n = 1 \/ \E i \in ids : turns[i].no + 1 = n

Init ==
    /\ page \in Pages
    /\ storage = [id |-> None, no |-> 1]
    /\ tab = [id |-> None, no |-> 1, state |-> None, doing |-> "nothing", sent |-> "no"]
    /\ made = 0
    /\ shown = {}
    /\ wire = <<>>
    /\ turns = [i \in Ids |-> None]
    /\ faults = 0

\* Something goes wrong: a request, answer or exit of the server, a reload.
Faulty == faults < MaxFaults /\ faults' = faults + 1

----------------------------------------------------------------------------
\* What the user does: the buttons a page offers in its state.

Idle == tab.doing = "nothing"

Saved(t) == [id |-> t.id, no |-> t.no]

Start(work) == [tab EXCEPT !.doing = work, !.sent = "no"]

\* A new handle, in storage before the first request is made.
NewHandle ==
    /\ made < MaxTurns
    /\ made' = made + 1
    /\ tab' = [Start("write") EXCEPT !.id = made + 1]
    /\ storage' = Saved(tab')

\* The form is open when no handle is held, or its turn was not found; then
\* the page looks again before it sends a message under the same handle.
Submit ==
    /\ Idle
    /\ \/ tab.id = None /\ NewHandle
       \/ /\ tab.id # None
          /\ tab.state = "NOT_FOUND"
          /\ tab' = Start("look")
          /\ UNCHANGED <<storage, made>>
    /\ UNCHANGED <<page, shown, wire, turns, faults>>

\* "Check" while the outcome is not known, "Resume" while the turn waits.
Unresolved ==
    CASE page \in {"home", "continuity", "human"} -> {"AWAIT", "UNKNOWN"}
      [] page = "models" -> {"AWAIT", "UNKNOWN", "unsure"}
      [] page = "tools" -> {None, "AWAIT", "UNKNOWN"}

\* Slips, here and below: the definition that follows as a plausible bug
\* would have it.  No action uses them; each breaks a property (README).
ResumeAtOnce ==
    /\ Idle
    /\ tab.id # None
    /\ tab.state \in Unresolved
    /\ tab' = Start("resume")
    /\ UNCHANGED <<page, storage, made, shown, wire, turns, faults>>

Resume ==
    /\ Idle
    /\ tab.id # None
    /\ tab.state \in Unresolved
    /\ tab' = Start(IF tab.state = "AWAIT" THEN "resume" ELSE "check")
    /\ UNCHANGED <<page, storage, made, shown, wire, turns, faults>>

\* The person's decision, or a cancellation, where the page offers them.
Decide ==
    /\ page = "human"
    /\ Idle
    /\ \/ tab.state = "ASKED" /\ tab' = Start("respond")
       \/ tab.state \in {"ASKED", "AWAIT"} /\ tab' = Start("cancel")
    /\ UNCHANGED <<page, storage, made, shown, wire, turns, faults>>

DroppableUnlessAwaited == States \ {"AWAIT"}

\* The states in which a page lets go of its handle: not AWAIT or UNKNOWN, and
\* on the tools page not NOT_FOUND either.
Droppable == Ended \cup (IF page = "tools" THEN {} ELSE {None, "NOT_FOUND"})

\* "New turn"; on the models page also "Choose topic", where it is offered.
NewTurn ==
    /\ Idle
    /\ tab.id # None
    /\ tab.state \in Droppable
    /\ tab' = [tab EXCEPT !.id = None, !.state = None]
    /\ storage' = Saved(tab')
    /\ UNCHANGED <<page, made, shown, wire, turns, faults>>

\* "Switch topic" lets go of the handle and asks a turn of the new topic.
Switch ==
    /\ page = "continuity"
    /\ Idle
    /\ tab.state \in Droppable
    /\ made < MaxTurns
    /\ made' = made + 1
    /\ tab' = [Start("write") EXCEPT !.id = made + 1, !.state = None]
    /\ storage' = Saved(tab')
    /\ UNCHANGED <<page, shown, wire, turns, faults>>

----------------------------------------------------------------------------
\* Calls.

Awaited  == \E k \in DOMAIN wire : wire[k].awaited = "yes"
Deserted == [k \in DOMAIN wire |-> [wire[k] EXCEPT !.awaited = "no"]]

\* The request goes out, and is accepted by the server or lost.
Send ==
    /\ tab.doing # "nothing"
    /\ tab.sent = "no"
    /\ tab' = [tab EXCEPT !.sent = "yes"]
    /\ \/ /\ wire' = Append(wire, [op |-> Request[tab.doing], id |-> tab.id, no |-> tab.no,
                                   awaited |-> "yes"])
          /\ UNCHANGED faults
       \/ Faulty /\ UNCHANGED wire
    /\ UNCHANGED <<page, storage, made, shown, turns>>

\* The call fails: there will be no answer, or the page gives up on one.
Fail ==
    /\ tab.sent = "yes"
    /\ IF Awaited THEN Faulty ELSE UNCHANGED faults
    /\ tab' = [Start("nothing") EXCEPT !.state = "UNKNOWN"]
    /\ wire' = Deserted
    /\ UNCHANGED <<page, storage, made, shown, turns>>

\* The tab is loaded anew, at any moment: it takes up the handle in storage
\* and looks what became of it, and asks for nothing else.
Load ==
    /\ Faulty
    /\ tab' = [id |-> storage.id, no |-> storage.no, state |-> None, sent |-> "no",
               doing |-> IF storage.id = None THEN "nothing" ELSE "check"]
    /\ wire' = Deserted
    /\ UNCHANGED <<page, storage, made, shown, turns>>

\* An answer as render takes it: the state to show, and for an ended turn the
\* number of the next one.
Answer(state, next) == [state |-> state, next |-> next]

Error == Answer("UNKNOWN", 1)

Higher(a, b) == IF a < b THEN b ELSE a

\* render, and what the script does next: a resubmission whose turn is still
\* not found goes on to send it.
Hear(answer, id) ==
    /\ tab' = [tab EXCEPT
          !.state = answer.state,
          !.no = IF SessionPerTurn THEN @ ELSE Higher(@, answer.next),
          !.doing = IF tab.doing = "look" /\ answer.state = "NOT_FOUND" THEN "write" ELSE "nothing",
          !.sent = "no"]
    /\ storage' = Saved(tab')
    /\ shown' = IF answer.state \in Ended THEN shown \cup {id} ELSE shown

\* The server answers the request it has served; the page hears it if it
\* still waits and the answer is not lost.
Reply(m, answer) ==
    /\ wire' = Tail(wire)
    /\ \/ m.awaited = "yes" /\ Hear(answer, m.id) /\ UNCHANGED faults
       \/ m.awaited = "yes" /\ Faulty /\ UNCHANGED <<storage, tab, shown>>
       \/ m.awaited = "no" /\ UNCHANGED <<storage, tab, shown, faults>>
    /\ UNCHANGED <<page, made>>

----------------------------------------------------------------------------
\* The server: every request opens the stores anew.

\* Opening the journal ends every turn that had crossed; an action or a
\* decision request is ended by the first request for it.
Recovered(id) ==
    [i \in Ids |->
        IF turns[i] = None \/ turns[i].phase # "crossed" \/ (page \in {"tools", "human"} /\ i # id)
        THEN turns[i]
        ELSE [turns[i] EXCEPT !.phase = IF page \in {"models", "human"} THEN "unsure" ELSE "closed"]]

Undecided == {"asked", "held", "waiting"}

\* A decision request may have expired since, or the clock gone back.
Opened(id) ==
    LET t == Recovered(id) IN
    IF page = "human" /\ t[id] # None /\ t[id].phase \in Undecided
    THEN {t} \cup {[t EXCEPT ![id].phase = p] : p \in Ended}
    ELSE {t}

StatusWithoutNumber(t, id) ==
    IF t[id] = None THEN Answer("NOT_FOUND", 1)
    ELSE CASE t[id].phase = "asked" -> Answer("ASKED", 1)
           [] t[id].phase \in {"waiting", "held"} -> Answer("AWAIT", 1)
           [] OTHER -> Answer(t[id].phase, 1)

\* The answer to a request about a turn; an ended turn's has the number of the
\* next one.  Of a decision request without a known outcome it says UNKNOWN.
Status(t, id) ==
    IF t[id] = None THEN Answer("NOT_FOUND", 1)
    ELSE CASE t[id].phase = "asked" -> Answer("ASKED", 1)
           [] t[id].phase \in {"waiting", "held"} -> Answer("AWAIT", 1)
           [] page = "human" /\ t[id].phase = "unsure" -> Error
           [] OTHER -> Answer(t[id].phase, NumberAfter(Session(id)))

Arrived(ops) == wire # <<>> /\ Head(wire).op \in ops

ServeObserve ==
    /\ Arrived({"observe"})
    /\ \E t \in Opened(Head(wire).id) :
          /\ turns' = t
          /\ Reply(Head(wire), Status(t, Head(wire).id))

\* A turn is refused when its id is taken (a message sent again is never the
\* same), out of number, or asked while another one waits.  A decision request
\* sent again is the same one.
Refused(m, t) ==
    /\ page # "human"
    /\ \/ t[m.id] # None
       \/ m.no # NumberAfter(Session(m.id))
       \/ \E i \in Session(m.id) : t[i].phase \notin Ended

\* How a turn may end, and what may come of it in the request that asks it.
Ends  == IF page = "models" THEN Ended ELSE {"closed"}
First == IF page = "human" THEN {"asked", "closed"} ELSE Ends

Taken(m, t, phase) == [t EXCEPT ![m.id] = [no |-> m.no, phase |-> phase]]
Moved(m, t, phase) == [t EXCEPT ![m.id].phase = phase]

ServeTurn ==
    /\ Arrived({"turn"})
    /\ LET m == Head(wire) IN
       \E t \in Opened(m.id) :
          \/ Refused(m, t) /\ turns' = t /\ Reply(m, Error)
          \/ ~Refused(m, t) /\ t[m.id] # None /\ turns' = t /\ Reply(m, Status(t, m.id))
          \/ /\ ~Refused(m, t)
             /\ t[m.id] = None
             /\ \E phase \in First :
                   /\ turns' = Taken(m, t, phase)
                   /\ Reply(m, Answer(IF phase = "asked" THEN "ASKED" ELSE phase, m.no + 1))

\* What a request about a stored turn makes of it: resume runs a waiting one
\* to its end, the person's answer lets it go on, holds or cancels it.  It is
\* taken that the home has room for the action (ACTION_CONTROL_LIMIT) and that
\* a resumed turn meets the sources it was asked with.
Outcomes(op, phase) ==
    CASE op = "resume" /\ phase = "waiting" -> Ends
      [] op = "respond" /\ phase = "asked" -> {"waiting", "held", "closed"}
      [] op = "cancel" /\ phase \in Undecided -> {"closed"}
      [] OTHER -> {phase}

ServeHandle ==
    /\ Arrived({"resume", "respond", "cancel"})
    /\ LET m == Head(wire) IN
       \E t \in Opened(m.id) :
          IF t[m.id] = None \/ (m.op = "respond" /\ t[m.id].phase # "asked")
          THEN turns' = t /\ Reply(m, Error)
          ELSE \E phase \in Outcomes(m.op, t[m.id].phase) :
                  /\ turns' = Moved(m, t, phase)
                  /\ Reply(m, Status(turns', m.id))

\* The content of a message is refused before any store is opened.
Reject ==
    /\ Arrived({"turn", "respond"})
    /\ Faulty
    /\ wire' = Tail(wire)
    /\ IF Head(wire).awaited = "yes"
       THEN Hear(Error, Head(wire).id)
       ELSE UNCHANGED <<storage, tab, shown>>
    /\ UNCHANGED <<page, made, turns>>

\* How far a request comes that stops on the way.
CutShort(m, t) ==
    IF m.op = "turn"
    THEN {Taken(m, t, p) : p \in IF page = "human" THEN First ELSE {"waiting", "crossed"} \cup Ends}
    ELSE {Moved(m, t, p) : p \in Outcomes(m.op, t[m.id].phase)
                                 \cup IF m.op = "resume" THEN {"crossed"} ELSE {t[m.id].phase}}

\* The operation stops on the way, by an error or an exit of the process; an
\* exit drops every connection.
Cut ==
    /\ Arrived(Ops \ {"observe"})
    /\ Faulty
    /\ LET m == Head(wire) IN
       \E t \in Opened(m.id) :
          /\ IF m.op = "turn" THEN ~Refused(m, t) /\ t[m.id] = None
             ELSE t[m.id] # None /\ Outcomes(m.op, t[m.id].phase) # {t[m.id].phase}
          /\ turns' \in CutShort(m, t)
    /\ wire' \in {Tail(wire), <<>>}
    /\ UNCHANGED <<page, client>>

\* The process exits between two requests and is started again.
Exit ==
    /\ wire # <<>>
    /\ Faulty
    /\ wire' = <<>>
    /\ UNCHANGED <<page, client, turns>>

----------------------------------------------------------------------------
User   == Submit \/ Resume \/ Decide \/ NewTurn \/ Switch \/ Load
Serve  == ServeObserve \/ ServeTurn \/ ServeHandle
Server == Serve \/ Reject \/ Cut \/ Exit

Next == User \/ Send \/ Fail \/ Server

Spec == Init /\ [][Next]_vars

\* The script runs, a call without an answer fails, the server serves what it
\* accepted, and the user goes on pressing Check or Resume where it is shown.
FairSpec ==
    /\ Spec
    /\ WF_vars(Send)
    /\ WF_vars(~Awaited /\ Fail)
    /\ WF_vars(Serve)
    /\ WF_vars(Resume)

----------------------------------------------------------------------------
\* What the pages promise.

\* A turn that is in the journal and whose end the page has not shown is the
\* one whose handle the page keeps, so no turn is lost from sight or left
\* pending without a button that resumes it, and the page never asks another
\* one before (shell.py:95-101, 125-143).
UnseenIsHeld ==
    \A i \in Stored \ shown : storage.id = i

\* No message is refused for what the page did: when the server comes to it,
\* its id is new to the journal, its number is the next one and nothing waits,
\* whatever was lost, reloaded or answered late (runtime.py:391-408).
TurnsFit ==
    \A k \in DOMAIN wire :
        wire[k].op = "turn" => ~Refused(wire[k], Recovered(wire[k].id))

\* Every handle comes to a settled end: its turn's end is shown, or the user
\* knows that there is no turn and may write the message again, or has a
\* decision to make.  The exception is a decision request whose outcome the
\* home itself does not know: its page says UNKNOWN for ever.  Not covered is
\* what Outcomes takes for granted: an action that meets ACTION_CONTROL_LIMIT
\* with its USER event durable (action_control.py:126), or a turn resumed with
\* other sources than it was bound with (store.py:327), never settles.
EventuallySettled ==
    \A i \in Ids :
        storage.id = i ~>
            \/ i \in shown
            \/ tab.id = i /\ tab.state = "NOT_FOUND" /\ turns[i] = None
            \/ page = "human" /\ tab.id = i /\ tab.state \in {"ASKED", "AWAIT"}
            \/ page = "human" /\ turns[i] # None /\ turns[i].phase = "unsure"

=============================================================================
