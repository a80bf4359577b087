---------------------------- MODULE EventRuntime ----------------------------
(***************************************************************************)
(* companion_mind/runtime.py: CompanionRuntime over its JSONL event store. *)
(* A runtime is opened by replaying the log, ingests events one by one and *)
(* answers closure requests; its state is memory, the log is all that      *)
(* outlives it.  Nothing locks the log: several runtimes may be open.      *)
(***************************************************************************)
EXTENDS Integers, Sequences, SequencesExt

CONSTANTS
    Runtimes,  \* CompanionRuntime objects, in one process or in several
    Events,    \* events callers may ingest
    Terminal,  \* terminal_statuses of the MitigationSpec
    Failures,  \* what a failing append may leave in the file, the runtime living on
    MaxLines,  \* bound on lines in the log
    None       \* absent: memory, child, children, verdict

\* An event is an upsert of an agenda item or a closure request, which may
\* bring its own statuses for the children; task is the dedupe_key of the task
\* it leads to.
Upserts  == {e \in Events : e.kind = "agenda_item_upserted"}
Closures == {e \in Events : e.kind = "parent_closure_requested"}
Ids      == {e.id : e \in Events}
Parents  == {e.parent : e \in Events}
Tasks    == {e.task : e \in Closures}
Items    == {e.item : e \in Upserts}
Verdict  == {"ACCEPT", "REJECT", "HOLD"}
Written  == {"nothing", "partial", "unended", "whole"}
ChildStates == [parent : Parents, status : {e.status : e \in Upserts}, required : {0, 1}]

\* The state of an open runtime.
Memories == [parent : [Parents -> {None, "OPEN", "DONE"}], child : [Items -> ChildStates \cup {None}],
             agenda : SUBSET Items, processed : SUBSET Ids, tasks : SUBSET Tasks,
             verdict : [Ids -> Verdict \cup {None}]]

ASSUME EventAssumption ==
    /\ Events = Upserts \cup Closures
    /\ \A e \in Upserts : e.required \in {0, 1}
    /\ Failures \subseteq Written
    /\ MaxLines \in Nat
    /\ None \notin Ids /\ None \notin ChildStates /\ None \notin Memories
    /\ None \notin Verdict \cup {"OPEN", "DONE"}

VARIABLES
    log,     \* the file, line by line: what a line holds and how it ends
    memory,  \* per open runtime: statuses, children, agenda, what was processed, verdicts
    told     \* the first verdict given on the whole log, for each event

vars == <<log, memory, told>>

Garbage == [id |-> None]   \* a line that is no record

Lines    == [event : Events \cup {Garbage}, end : {"newline", "none"}]

\* The file is lines or remains of lines; each open runtime has a state
\* (runtime.py:334-344).
TypeOK ==
    /\ log \in Seq(Lines)
    /\ memory \in [Runtimes -> Memories \cup {None}]
    /\ told \in [Ids -> Verdict \cup {None}]

Fresh == [parent |-> [p \in Parents |-> None], child |-> [i \in Items |-> None],
          agenda |-> {}, processed |-> {}, tasks |-> {}, verdict |-> [i \in Ids |-> None]]

Init ==
    /\ log = <<>>
    /\ memory = [r \in Runtimes |-> None]
    /\ told = [i \in Ids |-> None]

----------------------------------------------------------------------------
\* Events to state.

\* ClosureGuard.evaluate, of the statuses it is given.
Evaluate(statuses) ==
    IF statuses = {} THEN "HOLD"
    ELSE IF statuses \subseteq Terminal THEN "ACCEPT" ELSE "REJECT"

\* Slips, here and below: the definition that follows as a plausible bug
\* would have it.  No action uses them; each breaks a property (README).
AllChildren(m, p) == {m.child[i].status : i \in {j \in Items : m.child[j] # None /\ m.child[j].parent = p}}

ChildrenFromState(m, p) ==
    {m.child[i].status : i \in {j \in Items : /\ m.child[j] # None
                                              /\ m.child[j].parent = p
                                              /\ m.child[j].required = 1}}

\* _apply_event: the child and agenda item of an upsert, the parent if new.
Applied(m, e) ==
    [m EXCEPT !.processed = @ \cup {e.id},
              !.child = IF e \in Upserts
                        THEN [@ EXCEPT ![e.item] = [parent |-> e.parent, status |-> e.status,
                                                    required |-> e.required]]
                        ELSE @,
              !.agenda = IF e \notin Upserts THEN @
                         ELSE IF e.status \in Terminal THEN @ \ {e.item} ELSE @ \cup {e.item},
              !.parent[e.parent] = IF @ = None THEN "OPEN" ELSE @]

\* ingest, past the append: the closure task if its key is new, its
\* evaluation, its commit.
Ingested(m, e) ==
    LET n == Applied(m, e)
        v == Evaluate(IF e.children # None THEN e.children ELSE ChildrenFromState(n, e.parent))
    IN  IF e \in Upserts \/ e.task \in n.tasks THEN n
        ELSE [n EXCEPT !.tasks = @ \cup {e.task},
                       !.verdict[e.id] = v,
                       !.parent[e.parent] = IF v = "ACCEPT" THEN "DONE" ELSE @]

----------------------------------------------------------------------------
\* The store.

LogIds == {log[n].event.id : n \in 1..Len(log)}

\* read accepts the file: every line a record and no id twice.
Readable ==
    /\ \A n \in 1..Len(log) : log[n].event # Garbage
    /\ \A n, m \in 1..Len(log) : log[n].event.id = log[m].event.id => n = m

\* The file after a write of e of which this much arrived.  A line without
\* its end is continued by the next write, and is then no record.
WriteRepairs(e, amount) ==
    LET line == [event |-> IF amount = "partial" THEN Garbage ELSE e,
                 end   |-> IF amount = "whole" THEN "newline" ELSE "none"]
    IN  IF amount = "nothing" THEN log
        ELSE IF log # <<>> /\ Last(log).end = "none"
             THEN Append(Front(log), line) ELSE Append(log, line)

Write(e, amount) ==
    LET line == [event |-> IF amount = "partial" THEN Garbage ELSE e,
                 end   |-> IF amount = "whole" THEN "newline" ELSE "none"]
    IN  IF amount = "nothing" THEN log
        ELSE IF log # <<>> /\ Last(log).end = "none"
             THEN Append(Front(log), [line EXCEPT !.event = Garbage])
             ELSE Append(log, line)

\* What ingesting the lines one after the other makes of a new runtime.
Replayed(lines) ==
    LET memoryAfter[n \in 0..Len(lines)] ==
            IF n = 0 THEN Fresh ELSE Ingested(memoryAfter[n - 1], lines[n].event)
    IN  memoryAfter
ReplayOf(lines) == Replayed(lines)[Len(lines)]

\* CompanionRuntime.replay; a log that cannot be read opens nothing.
Open(r) ==
    /\ memory[r] = None
    /\ Readable
    /\ memory' = [memory EXCEPT ![r] = ReplayOf(log)]
    /\ UNCHANGED <<log, told>>

\* The runtime has taken into account what the log holds, and only that.
UpToDate(r) == memory[r] # None /\ Readable /\ memory[r].processed = LogIds

Answer(r, e, m) ==
    told' = IF e \in Closures /\ UpToDate(r) /\ told[e.id] = None
            THEN [told EXCEPT ![e.id] = m.verdict[e.id]] ELSE told

\* ingest of a new event; one that was processed changes nothing.
Processes(r, e) ==
    /\ memory[r] # None
    /\ e.id \notin memory[r].processed
    /\ Len(log) < MaxLines

Ingest(r, e) ==
    /\ Processes(r, e)
    /\ log' = Write(e, "whole")
    /\ memory' = [memory EXCEPT ![r] = Ingested(@, e)]
    /\ Answer(r, e, memory'[r])

\* The append raises: nothing is applied and the runtime lives on.
IngestKeepsEvent(r, e, amount) ==
    /\ Processes(r, e)
    /\ amount \in Failures
    /\ log' = Write(e, amount)
    /\ memory' = [memory EXCEPT ![r] = Ingested(@, e)]
    /\ Answer(r, e, memory'[r])

IngestFails(r, e, amount) ==
    /\ Processes(r, e)
    /\ amount \in Failures
    /\ log' = Write(e, amount)
    /\ UNCHANGED <<memory, told>>

\* The process ends in the middle of an append, or between two calls.
IngestCut(r, e, amount) ==
    /\ Processes(r, e)
    /\ amount # "nothing"
    /\ log' = Write(e, amount)
    /\ memory' = [memory EXCEPT ![r] = None]
    /\ UNCHANGED told

Close(r) ==
    /\ memory[r] # None
    /\ memory' = [memory EXCEPT ![r] = None]
    /\ UNCHANGED <<log, told>>

Next ==
    \E r \in Runtimes :
        \/ Open(r) \/ Close(r)
        \/ \E e \in Events :
              \/ Ingest(r, e)
              \/ \E amount \in Written : IngestFails(r, e, amount) \/ IngestCut(r, e, amount)

Spec == Init /\ [][Next]_vars

----------------------------------------------------------------------------
\* Properties.

\* Of some lines of the log those that leave a child: for each item its last
\* upsert (any parent may take it over).
LastUpserts(lines) ==
    {k \in lines : /\ log[k].event \in Upserts
                   /\ \A j \in lines : j > k /\ log[j].event \in Upserts
                                       => log[j].event.item # log[k].event.item}

Before(lines, n) == {k \in lines : k < n}

\* What the request of line n is decided on, by one who has seen these lines.
StatusesAt(lines, n) ==
    LET e == log[n].event
    IN  IF e.children # None THEN e.children
        ELSE {log[k].event.status : k \in {j \in LastUpserts(Before(lines, n)) :
                                              /\ log[j].event.parent = e.parent
                                              /\ log[j].event.required = 1}}

AcceptableAt(lines, n) == StatusesAt(lines, n) # {} /\ \A st \in StatusesAt(lines, n) : st \in Terminal

\* The requests that are decided: the first of each task.
Decided(lines) ==
    {n \in lines : /\ log[n].event \in Closures
                   /\ \A k \in Before(lines, n) : log[k].event \in Closures
                                                  => log[k].event.task # log[n].event.task}

Seen(r) == {n \in 1..Len(log) : log[n].event.id \in memory[r].processed}

\* A runtime is in the state that the lines it has taken into account define,
\* ingested or replayed, whatever others wrote between them: each item as its
\* last upsert left it, the agenda the items not terminal, each closure decided
\* once per task on the children as they were at its line, a parent DONE
\* exactly if one was accepted, even when children were added, moved or
\* reopened later (README.md:47, runtime.py:363-396, 435-592).
StateIsRight ==
    \A r \in Runtimes : memory[r] # None /\ Readable =>
        LET m    == memory[r]
            last == LastUpserts(Seen(r))
        IN  /\ {i \in Items : m.child[i] # None} = {log[k].event.item : k \in last}
            /\ \A k \in last : m.child[log[k].event.item].status = log[k].event.status
            /\ m.agenda = {log[k].event.item : k \in {j \in last : log[j].event.status \notin Terminal}}
            /\ \A n \in Seen(r) : m.verdict[log[n].event.id] =
                   IF n \notin Decided(Seen(r)) THEN None
                   ELSE IF AcceptableAt(Seen(r), n) THEN "ACCEPT"
                   ELSE IF StatusesAt(Seen(r), n) = {} THEN "HOLD" ELSE "REJECT"
            /\ \A p \in Parents : m.parent[p] = "DONE"
                   <=> \E n \in Decided(Seen(r)) : log[n].event.parent = p /\ AcceptableAt(Seen(r), n)

\* The verdict a caller was given on the whole log is the verdict of every
\* runtime that has the whole log: no exit and no other runtime makes it
\* vanish or come out another way (docs/architecture.md:19, runtime.py:346-396).
VerdictsStand ==
    \A r \in Runtimes, i \in Ids :
        UpToDate(r) /\ told[i] # None => memory[r].verdict[i] = told[i]

\* Whatever happens to appends and however many runtimes share the log, a log
\* that can still be read holds every event some runtime took into account
\* and every event a caller has a verdict for; damage is refused, never
\* skipped over (docs/architecture.md:19, runtime.py:200-249).
FailsClosed ==
    Readable => /\ \A r \in Runtimes : memory[r] # None => memory[r].processed \subseteq LogIds
                /\ {i \in Ids : told[i] # None} \subseteq LogIds

\* A log whose lines all arrived whole can be replayed.  Refuted by a repeat
\* of an event whose append raised although its line was durable
\* (docs/architecture.md:19, runtime.py:364).
Replayable ==
    (\A n \in 1..Len(log) : log[n].event # Garbage /\ log[n].end = "newline") => Readable
=============================================================================
