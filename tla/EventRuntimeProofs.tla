------------------------ MODULE EventRuntimeProofs --------------------------
(***************************************************************************)
(* Proofs about EventRuntime, for every set of runtimes and events and     *)
(* every length of the log.  A replay is a recursive function of the log;  *)
(* what it computes is proved by induction over the lines, with induction  *)
(* stated of a set of numbers, so that it needs no operator as parameter.  *)
(***************************************************************************)
EXTENDS EventRuntime, WellFoundedInduction, TLAPS

----------------------------------------------------------------------------
\* Induction up to a bound.

\* A set of numbers that is not empty has a least one.
LEMMA LeastNumber ==
    ASSUME NEW T \in SUBSET Nat, T # {}
    PROVE  \E k \in T : \A j \in T : k <= j
<1> DEFINE Less == {ss \in Nat \X Nat : ss[1] < ss[2]}
<1>1. IsWellFoundedOn(Less, Nat)
  BY NatLessThanWellFounded, Zenon DEF OpToRel
<1>2. PICK k \in T : \A j \in T : <<j, k>> \notin Less
  <2> HIDE DEF Less
  <2> QED  BY <1>1, WFMin, Zenon
<1>3. \A j \in T : k <= j
  <2> TAKE j \in T
  <2>1. k \in Nat /\ j \in Nat
    OBVIOUS
  <2>2. ~(j < k)
    BY <1>2, <2>1
  <2> QED  BY <2>1, <2>2
<1> QED  BY <1>3

\* A set that has 0, and n + 1 with every n below N, has every number up to N.
LEMMA UpTo ==
    ASSUME NEW N \in Nat, NEW T,
           0 \in T, \A n \in 0..(N-1) : n \in T => n + 1 \in T
    PROVE  0..N \subseteq T
<1> DEFINE Missing == {n \in 0..N : n \notin T}
<1> SUFFICES ASSUME Missing # {} PROVE FALSE
  OBVIOUS
<1>1. Missing \in SUBSET Nat
  OBVIOUS
<1>2. PICK k \in Missing : \A j \in Missing : k <= j
  <2> HIDE DEF Missing
  <2> QED  BY <1>1, LeastNumber
<1>3. k \in 1..N /\ k - 1 \in 0..(N-1)
  OBVIOUS
<1>4. k - 1 \in T
  BY <1>2, <1>3
<1> QED  BY <1>3, <1>4

----------------------------------------------------------------------------
\* Replay.

\* What a function has to satisfy to be the memory after each line.
Replays(m, lines) ==
    m = [n \in 0..Len(lines) |->
            IF n = 0 THEN Fresh ELSE Ingested(m[n - 1], lines[n].event)]

\* There is such a function for every log.
LEMMA ReplayExists ==
    ASSUME NEW lines, Len(lines) \in Nat
    PROVE  \E m : Replays(m, lines)
<1> DEFINE Step(m, n) == IF n = 0 THEN Fresh ELSE Ingested(m[n - 1], lines[n].event)
           T == {k \in 0..Len(lines) : \E m : m = [n \in 0..k |-> Step(m, n)]}
<1>1. 0 \in T
  <2> DEFINE m == [n \in 0..0 |-> Fresh]
  <2>1. \A n \in 0..0 : Step(m, n) = Fresh
    OBVIOUS
  <2>2. m = [n \in 0..0 |-> Step(m, n)]
    <3> HIDE DEF Step
    <3> QED  BY <2>1, Zenon
  <2> HIDE DEF m, Step
  <2> QED  BY <2>2
<1>2. ASSUME NEW k \in 0..(Len(lines) - 1), k \in T
      PROVE  k + 1 \in T
  <2>1. PICK m : m = [n \in 0..k |-> Step(m, n)]
    BY <1>2
  <2> DEFINE h == [n \in 0..(k+1) |-> IF n = k + 1 THEN Ingested(m[k], lines[k+1].event) ELSE m[n]]
  <2>2. \A n \in 0..(k+1) : h[n] = Step(h, n)
    <3> TAKE n \in 0..(k+1)
    <3>1. CASE n = k + 1
      <4>1. h[n] = Ingested(m[k], lines[n].event) /\ h[n - 1] = m[k] /\ n # 0
        BY <3>1
      <4> QED  BY <4>1
    <3>2. CASE n # k + 1
      <4>1. n \in 0..k /\ h[n] = m[n] /\ (n # 0 => h[n - 1] = m[n - 1])
        BY <3>2
      <4>2. m[n] = Step(m, n)
        <5> HIDE DEF Step
        <5> QED  BY <2>1, <4>1
      <4> QED  BY <4>1, <4>2
    <3> QED  BY <3>1, <3>2
  <2>3. h = [n \in 0..(k+1) |-> Step(h, n)]
    <3>1. h = [n \in 0..(k+1) |-> h[n]]
      OBVIOUS
    <3> HIDE DEF h, Step
    <3> QED  BY <2>2, <3>1
  <2> HIDE DEF h, Step
  <2> QED  BY <2>3
<1>3. Len(lines) \in T
  <2> HIDE DEF T
  <2>1. 0..Len(lines) \subseteq T
    BY <1>1, <1>2, UpTo
  <2> QED  BY <2>1
<1> QED  BY <1>3 DEF Replays

\* The recursive definition of the model is such a function.
LEMMA ReplayedIs ==
    ASSUME NEW lines, Len(lines) \in Nat
    PROVE  Replays(Replayed(lines), lines)
<1>1. Replayed(lines) = CHOOSE m : Replays(m, lines)
  BY Zenon DEF Replayed, Replays
<1> QED  BY <1>1, ReplayExists, Zenon

\* The memory before the first line, and after each line from the one before.
LEMMA ReplayStep ==
    ASSUME NEW lines, Len(lines) \in Nat
    PROVE  /\ Replayed(lines)[0] = Fresh
           /\ \A n \in 1..Len(lines) :
                 Replayed(lines)[n] = Ingested(Replayed(lines)[n - 1], lines[n].event)
<1>1. Replays(Replayed(lines), lines)
  BY ReplayedIs
<1> DEFINE m == Replayed(lines)
<1> HIDE DEF m
<1>2. m = [n \in 0..Len(lines) |->
              IF n = 0 THEN Fresh ELSE Ingested(m[n - 1], lines[n].event)]
  BY <1>1, Zenon DEF Replays, m
<1>3. m[0] = Fresh /\ \A n \in 1..Len(lines) : m[n] = Ingested(m[n - 1], lines[n].event)
  BY <1>2
<1> QED  BY <1>3 DEF m

----------------------------------------------------------------------------
\* What one event does to a memory.

LEMMA EventTypes ==
    /\ \A e \in Upserts : /\ e \in Events /\ e \notin Closures /\ e.item \in Items
                          /\ [parent |-> e.parent, status |-> e.status, required |-> e.required]
                                 \in ChildStates
    /\ \A e \in Closures : e \in Events /\ e \notin Upserts /\ e.task \in Tasks
    /\ \A e \in Events : /\ e \in Upserts \/ e \in Closures
                         /\ e.id \in Ids /\ e.parent \in Parents
BY EventAssumption DEF Upserts, Closures, Ids, Parents, Tasks, Items, ChildStates

LEMMA EvaluateType == \A s : Evaluate(s) \in Verdict
BY DEF Evaluate, Verdict

LEMMA AppliedIs ==
    ASSUME NEW m \in Memories, NEW e \in Events
    PROVE  /\ Applied(m, e) \in Memories
           /\ Applied(m, e).processed = m.processed \cup {e.id}
           /\ Applied(m, e).tasks = m.tasks
           /\ Applied(m, e).verdict = m.verdict
           /\ e \notin Upserts => Applied(m, e).child = m.child /\ Applied(m, e).agenda = m.agenda
           /\ e \in Upserts =>
                 /\ Applied(m, e).child =
                        [m.child EXCEPT ![e.item] = [parent |-> e.parent, status |-> e.status,
                                                     required |-> e.required]]
                 /\ Applied(m, e).agenda =
                        IF e.status \in Terminal THEN m.agenda \ {e.item} ELSE m.agenda \cup {e.item}
           /\ Applied(m, e).parent = [m.parent EXCEPT ![e.parent] = IF @ = None THEN "OPEN" ELSE @]
<1>1. /\ e.id \in Ids /\ e.parent \in Parents
      /\ e \in Upserts => /\ e.item \in Items
                          /\ [parent |-> e.parent, status |-> e.status, required |-> e.required]
                                 \in ChildStates
  BY EventTypes
<1> QED  BY <1>1 DEF Applied, Memories

\* A memory stays one, and only the verdict on the event itself is given.
LEMMA IngestedIs ==
    ASSUME NEW m \in Memories, NEW e \in Events
    PROVE  /\ Ingested(m, e) \in Memories
           /\ Ingested(m, e).processed = m.processed \cup {e.id}
           /\ Ingested(m, e).child = Applied(m, e).child
           /\ Ingested(m, e).agenda = Applied(m, e).agenda
           /\ \A i \in Ids \ {e.id} : Ingested(m, e).verdict[i] = m.verdict[i]
           /\ e \in Upserts \/ e.task \in m.tasks =>
                 /\ Ingested(m, e).tasks = m.tasks
                 /\ Ingested(m, e).verdict = m.verdict
                 /\ Ingested(m, e).parent = Applied(m, e).parent
           /\ ~(e \in Upserts \/ e.task \in m.tasks) =>
                 LET n == Applied(m, e)
                     v == Evaluate(IF e.children # None THEN e.children
                                   ELSE ChildrenFromState(n, e.parent))
                 IN  /\ Ingested(m, e).tasks = m.tasks \cup {e.task}
                     /\ Ingested(m, e).verdict = [m.verdict EXCEPT ![e.id] = v]
                     /\ Ingested(m, e).parent =
                            [n.parent EXCEPT ![e.parent] = IF v = "ACCEPT" THEN "DONE" ELSE @]
<1> DEFINE n == Applied(m, e)
           v == Evaluate(IF e.children # None THEN e.children ELSE ChildrenFromState(n, e.parent))
<1>1. n \in Memories /\ n.processed = m.processed \cup {e.id} /\ n.tasks = m.tasks /\ n.verdict = m.verdict
  BY AppliedIs
<1>2. v \in Verdict
  BY EvaluateType
<1>3. e.id \in Ids /\ e.parent \in Parents /\ (e \notin Upserts => e.task \in Tasks)
  BY EventTypes
<1>4. Ingested(m, e) = IF e \in Upserts \/ e.task \in n.tasks THEN n
                       ELSE [n EXCEPT !.tasks = @ \cup {e.task},
                                      !.verdict[e.id] = v,
                                      !.parent[e.parent] = IF v = "ACCEPT" THEN "DONE" ELSE @]
  BY DEF Ingested
<1> HIDE DEF n, v
<1>5. CASE e \in Upserts \/ e.task \in n.tasks
  BY <1>1, <1>4, <1>5 DEF n, Memories
<1>6. CASE ~(e \in Upserts \/ e.task \in n.tasks)
  <2>1. Ingested(m, e) = [n EXCEPT !.tasks = @ \cup {e.task},
                                   !.verdict[e.id] = v,
                                   !.parent[e.parent] = IF v = "ACCEPT" THEN "DONE" ELSE @]
    BY <1>4, <1>6
  <2>2. /\ n.tasks \in SUBSET Tasks /\ e.task \in Tasks
        /\ n.verdict \in [Ids -> Verdict \cup {None}]
        /\ n.parent \in [Parents -> {None, "OPEN", "DONE"}]
    BY <1>1, <1>3, <1>6 DEF Memories
  <2>3. /\ n.tasks \cup {e.task} \in SUBSET Tasks
        /\ [n.verdict EXCEPT ![e.id] = v] \in [Ids -> Verdict \cup {None}]
        /\ [n.parent EXCEPT ![e.parent] = IF v = "ACCEPT" THEN "DONE" ELSE @]
               \in [Parents -> {None, "OPEN", "DONE"}]
    BY <1>2, <1>3, <2>2
  <2>4. Ingested(m, e) = [n EXCEPT !.tasks = n.tasks \cup {e.task},
                                   !.verdict = [n.verdict EXCEPT ![e.id] = v],
                                   !.parent = [n.parent EXCEPT ![e.parent] =
                                                   IF v = "ACCEPT" THEN "DONE" ELSE @]]
    BY <1>1, <2>1 DEF Memories
  <2>5. Ingested(m, e) \in Memories
    BY <1>1, <2>3, <2>4 DEF Memories
  <2>6. /\ Ingested(m, e).processed = n.processed
        /\ Ingested(m, e).child = n.child
        /\ Ingested(m, e).agenda = n.agenda
        /\ Ingested(m, e).verdict = [n.verdict EXCEPT ![e.id] = v]
        /\ Ingested(m, e).tasks = n.tasks \cup {e.task}
        /\ Ingested(m, e).parent =
               [n.parent EXCEPT ![e.parent] = IF v = "ACCEPT" THEN "DONE" ELSE @]
    BY <1>1, <2>4 DEF Memories
  <2>7. \A i \in Ids \ {e.id} : Ingested(m, e).verdict[i] = m.verdict[i]
    BY <1>1, <2>2, <2>6
  <2> QED  BY <1>1, <1>6, <2>5, <2>6, <2>7 DEF n, v
<1> QED  BY <1>5, <1>6

LEMMA IngestedType ==
    \A m \in Memories, e \in Events :
        /\ Ingested(m, e) \in Memories
        /\ Ingested(m, e).processed = m.processed \cup {e.id}
        /\ \A i \in Ids \ {e.id} : Ingested(m, e).verdict[i] = m.verdict[i]
BY IngestedIs, Zenon

LEMMA FreshType == Fresh \in Memories
BY DEF Fresh, Memories

----------------------------------------------------------------------------
\* What a replay leaves.

\* The replay of a log of events is a memory that has processed what the log
\* holds.
LEMMA ReplayType ==
    ASSUME NEW lines, Len(lines) \in Nat,
           \A n \in 1..Len(lines) : lines[n].event \in Events
    PROVE  \A n \in 0..Len(lines) :
              /\ Replayed(lines)[n] \in Memories
              /\ Replayed(lines)[n].processed = {lines[k].event.id : k \in 1..n}
<1> DEFINE a == Replayed(lines)
           Good(n) == /\ a[n] \in Memories
                      /\ a[n].processed = {lines[k].event.id : k \in 1..n}
           T == {n \in Nat : Good(n)}
<1>1. a[0] = Fresh /\ \A n \in 1..Len(lines) : a[n] = Ingested(a[n - 1], lines[n].event)
  BY ReplayStep
<1> HIDE DEF a
<1>2. 0 \in T
  BY <1>1, FreshType DEF Fresh
<1>3. ASSUME NEW n \in 0..(Len(lines) - 1), n \in T
      PROVE  n + 1 \in T
  <2>1. n + 1 \in 1..Len(lines) /\ (n + 1) - 1 = n
    OBVIOUS
  <2>2. a[n + 1] = Ingested(a[n], lines[n + 1].event) /\ lines[n + 1].event \in Events
    BY <1>1, <2>1
  <2>3. /\ a[n + 1] \in Memories
        /\ a[n + 1].processed = a[n].processed \cup {lines[n + 1].event.id}
    <3>1. a[n] \in Memories
      BY <1>3
    <3> HIDE DEF Good, T
    <3> QED  BY <2>2, <3>1, IngestedType
  <2>4. {lines[k].event.id : k \in 1..(n+1)} = {lines[k].event.id : k \in 1..n} \cup {lines[n + 1].event.id}
    BY <2>1
  <2>5. a[n].processed = {lines[k].event.id : k \in 1..n}
    BY <1>3
  <2>6. Good(n + 1)
    BY <2>3, <2>4, <2>5, Zenon
  <2> QED  BY <2>1, <2>6
<1>4. 0..Len(lines) \subseteq T
  <2> HIDE DEF T
  <2> QED  BY <1>2, <1>3, UpTo
<1> QED  BY <1>4 DEF a

----------------------------------------------------------------------------
\* The state that some lines of the log define.

ChildOf(e) == [parent |-> e.parent, status |-> e.status, required |-> e.required]

TaskAt(n) == log[n].event.task

TasksRight(m, lines) ==
    m.tasks = {TaskAt(k) : k \in {j \in lines : log[j].event \in Closures}}

ChildrenRight(m, lines) ==
    /\ \A k \in LastUpserts(lines) : m.child[log[k].event.item] = ChildOf(log[k].event)
    /\ \A i \in Items : m.child[i] # None => \E k \in LastUpserts(lines) : log[k].event.item = i

AgendaRight(m) ==
    \A i \in Items : i \in m.agenda <=> m.child[i] # None /\ m.child[i].status \notin Terminal

VerdictsRight(m, lines) ==
    /\ \A k \in lines : m.verdict[log[k].event.id] =
                           IF k \in Decided(lines) THEN Evaluate(StatusesAt(lines, k)) ELSE None
    /\ \A i \in Ids : m.verdict[i] # None => \E k \in lines : log[k].event.id = i

ParentsRight(m, lines) ==
    \A p \in Parents : m.parent[p] = "DONE"
                       <=> \E k \in Decided(lines) : log[k].event.parent = p /\ AcceptableAt(lines, k)

RightFor(m, lines) ==
    /\ TasksRight(m, lines)
    /\ ChildrenRight(m, lines)
    /\ AgendaRight(m)
    /\ VerdictsRight(m, lines)
    /\ ParentsRight(m, lines)

----------------------------------------------------------------------------
\* One line more, after all of them.

LEMMA BeforeStep ==
    ASSUME NEW n \in Nat, NEW lines \in SUBSET (1..(n-1))
    PROVE  /\ n \notin lines
           /\ Before(lines \cup {n}, n) = lines
           /\ \A k \in lines : Before(lines \cup {n}, k) = Before(lines, k)
<1>1. \A k \in lines : k \in Nat /\ k < n
  OBVIOUS
<1>2. n \notin lines /\ Before(lines \cup {n}, n) = lines
  <2>1. ~(n < n) /\ n \notin lines
    BY <1>1
  <2> QED  BY <1>1, <2>1, Zenon DEF Before
<1>3. ASSUME NEW k \in lines  PROVE Before(lines \cup {n}, k) = Before(lines, k)
  <2>1. ~(n < k)
    BY <1>1
  <2> QED  BY <2>1, Zenon DEF Before
<1> QED  BY <1>2, <1>3

\* The last upserts are then those of other items, and the line itself.
LEMMA LastStep ==
    ASSUME NEW n \in Nat, NEW lines \in SUBSET (1..(n-1))
    PROVE  /\ log[n].event \notin Upserts => LastUpserts(lines \cup {n}) = LastUpserts(lines)
           /\ log[n].event \in Upserts =>
                 LastUpserts(lines \cup {n}) =
                     {k \in LastUpserts(lines) : log[k].event.item # log[n].event.item} \cup {n}
<1> DEFINE up(k) == log[k].event \in Upserts
           item(k) == log[k].event.item
           last(L) == {k \in L : up(k) /\ \A j \in L : j > k /\ up(j) => item(j) # item(k)}
           more == lines \cup {n}
<1>1. \A L : LastUpserts(L) = last(L)
  BY DEF LastUpserts
<1>4. n \notin lines /\ \A k \in lines : n > k /\ ~(k > n)
  OBVIOUS
<1>5. ~(n > n)
  OBVIOUS
<1> HIDE DEF up, item
<1>2. ASSUME ~up(n)  PROVE last(more) = last(lines)
  <2>1. \A k : k \in last(more) <=> k \in last(lines)
    BY <1>2
  <2> HIDE DEF last, more
  <2> QED  BY <2>1
<1>3. ASSUME up(n)
      PROVE  last(more) = {k \in last(lines) : item(k) # item(n)} \cup {n}
  <2>1. \A k \in lines : k \in last(more) <=> k \in last(lines) /\ item(k) # item(n)
    BY <1>3, <1>4
  <2>2. n \in last(more) /\ last(more) \subseteq lines \cup {n} /\ last(lines) \subseteq lines
    BY <1>3, <1>4, <1>5
  <2> HIDE DEF last, more
  <2> QED  BY <1>4, <2>1, <2>2
<1> HIDE DEF last, more
<1> QED  BY <1>1, <1>2, <1>3 DEF up, item, more

\* Each is an upsert, and no two are of one item.
LEMMA LastIsOne ==
    ASSUME NEW lines \in SUBSET Nat
    PROVE  /\ LastUpserts(lines) \subseteq lines
           /\ \A k \in LastUpserts(lines) : log[k].event \in Upserts
           /\ \A k, j \in LastUpserts(lines) : log[k].event.item = log[j].event.item => k = j
<1>1. LastUpserts(lines) \subseteq lines /\ \A k \in LastUpserts(lines) : log[k].event \in Upserts
  BY DEF LastUpserts
<1>2. \A k, j \in LastUpserts(lines) : log[k].event.item = log[j].event.item => k = j
  <2> TAKE k, j \in LastUpserts(lines)
  <2> HAVE log[k].event.item = log[j].event.item
  <2>1. k \in Nat /\ j \in Nat /\ ~(k < j) /\ ~(j < k)
    BY <1>1 DEF LastUpserts
  <2> QED  BY <2>1
<1> QED  BY <1>1, <1>2

LEMMA DecidedStep ==
    ASSUME NEW n \in Nat, NEW lines \in SUBSET (1..(n-1))
    PROVE  /\ Decided(lines) \subseteq lines
           /\ n \in Decided(lines \cup {n}) <=>
                 /\ log[n].event \in Closures
                 /\ TaskAt(n) \notin {TaskAt(k) : k \in {j \in lines : log[j].event \in Closures}}
           /\ Decided(lines \cup {n}) =
                  IF n \in Decided(lines \cup {n}) THEN Decided(lines) \cup {n} ELSE Decided(lines)
<1> DEFINE more == lines \cup {n}
<1>1. /\ n \notin lines
      /\ Before(more, n) = lines
      /\ \A k \in lines : Before(more, k) = Before(lines, k)
  BY BeforeStep
<1> HIDE DEF more
<1>2. \A k \in lines : k \in Decided(more) <=> k \in Decided(lines)
  BY <1>1 DEF Decided, more
<1>3. Decided(lines) \subseteq lines /\ Decided(more) \subseteq lines \cup {n}
  BY DEF Decided, more
<1>4. n \in Decided(more) <=>
          /\ log[n].event \in Closures
          /\ TaskAt(n) \notin {TaskAt(k) : k \in {j \in lines : log[j].event \in Closures}}
  BY <1>1 DEF Decided, more, TaskAt
<1>5. Decided(more) = IF n \in Decided(more) THEN Decided(lines) \cup {n} ELSE Decided(lines)
  <2>1. CASE n \in Decided(more)
    BY <1>2, <1>3, <2>1
  <2>2. CASE n \notin Decided(more)
    <3>1. \A k : k \in Decided(more) <=> k \in Decided(lines)
      BY <1>2, <1>3, <2>2
    <3> QED  BY <2>2, <3>1
  <2> QED  BY <2>1, <2>2
<1> QED  BY <1>3, <1>4, <1>5 DEF more

\* What was decided on stays what it was.
LEMMA StatusesStay ==
    ASSUME NEW n \in Nat, NEW lines \in SUBSET (1..(n-1)), NEW k \in lines
    PROVE  StatusesAt(lines \cup {n}, k) = StatusesAt(lines, k)
<1>1. Before(lines \cup {n}, k) = Before(lines, k)
  BY BeforeStep
<1> QED  BY <1>1, Zenon DEF StatusesAt

LEMMA AcceptableIs ==
    \A lines, k : AcceptableAt(lines, k) <=> Evaluate(StatusesAt(lines, k)) = "ACCEPT"
BY DEF AcceptableAt, Evaluate

\* Children taken over by a memory.
LEMMA ChildrenStep ==
    ASSUME NEW m \in Memories, NEW n \in Nat, NEW lines \in SUBSET (1..(n-1)),
           log[n].event \in Events, ChildrenRight(m, lines), AgendaRight(m)
    PROVE  LET a == Applied(m, log[n].event)
           IN  ChildrenRight(a, lines \cup {n}) /\ AgendaRight(a)
<1> DEFINE e == log[n].event
           a == Applied(m, e)
           more == lines \cup {n}
<1>1. m.child \in [Items -> ChildStates \cup {None}] /\ m.agenda \in SUBSET Items
  BY DEF Memories
<1>2. CASE e \notin Upserts
  <2>1. a.child = m.child /\ a.agenda = m.agenda
    BY <1>2, AppliedIs
  <2>2. LastUpserts(more) = LastUpserts(lines)
    BY <1>2, LastStep
  <2> HIDE DEF a, more
  <2> QED  BY <2>1, <2>2 DEF ChildrenRight, AgendaRight, a, more
<1>3. CASE e \in Upserts
  <2>1. e.item \in Items /\ ChildOf(e) \in ChildStates
    BY <1>3, EventTypes DEF ChildOf
  <2>2. /\ a.child = [m.child EXCEPT ![e.item] = ChildOf(e)]
        /\ a.agenda = IF e.status \in Terminal THEN m.agenda \ {e.item} ELSE m.agenda \cup {e.item}
    BY <1>3, AppliedIs DEF ChildOf
  <2>3. LastUpserts(more) = {k \in LastUpserts(lines) : log[k].event.item # e.item} \cup {n}
    BY <1>3, LastStep
  <2>4. \A k \in LastUpserts(lines) : log[k].event \in Upserts
    BY LastIsOne
  <2>5. \A k \in LastUpserts(lines) : log[k].event.item \in Items
    BY <2>4, EventTypes
  <2> HIDE DEF a, more
  <2>6. a.child[e.item] = ChildOf(e) /\ \A i \in Items \ {e.item} : a.child[i] = m.child[i]
    BY <1>1, <2>1, <2>2
  <2>7. ASSUME NEW k \in LastUpserts(more)
        PROVE  a.child[log[k].event.item] = ChildOf(log[k].event)
    BY <2>3, <2>5, <2>6, <2>7 DEF ChildrenRight
  <2>8. ASSUME NEW i \in Items, a.child[i] # None
        PROVE  \E k \in LastUpserts(more) : log[k].event.item = i
    BY <2>3, <2>6, <2>8 DEF ChildrenRight
  <2>9. ChildOf(e) # None /\ ChildOf(e).status = e.status
    BY <2>1, EventAssumption DEF ChildOf
  <2>10. AgendaRight(a)
    BY <2>1, <2>2, <2>6, <2>9 DEF AgendaRight
  <2> QED  BY <2>7, <2>8, <2>10 DEF ChildrenRight, a, more
<1> QED  BY <1>2, <1>3

\* The statuses a closure request is decided on.
LEMMA StatusesStep ==
    ASSUME NEW m \in Memories, NEW n \in Nat, NEW lines \in SUBSET (1..(n-1)),
           log[n].event \in Events, log[n].event \notin Upserts, ChildrenRight(m, lines)
    PROVE  LET e == log[n].event
           IN  (IF e.children # None THEN e.children
                ELSE ChildrenFromState(Applied(m, e), e.parent)) = StatusesAt(lines \cup {n}, n)
<1> DEFINE e == log[n].event
<1>1. Applied(m, e).child = m.child
  BY AppliedIs
<1>2. /\ \A k \in LastUpserts(lines) : log[k].event \in Upserts
      /\ \A k, j \in LastUpserts(lines) : log[k].event.item = log[j].event.item => k = j
  BY LastIsOne
<1>3. \A k \in LastUpserts(lines) :
          /\ log[k].event.item \in Items
          /\ m.child[log[k].event.item] = ChildOf(log[k].event)
          /\ ChildOf(log[k].event) # None
  BY <1>2, EventTypes, EventAssumption DEF ChildrenRight, ChildOf
<1> DEFINE ev(k) == log[k].event
           its(k) == m.child[ev(k).item]
<1>4. \A k \in LastUpserts(lines) :
          /\ ev(k).item \in Items /\ its(k) # None
          /\ its(k).parent = ev(k).parent /\ its(k).required = ev(k).required
          /\ its(k).status = ev(k).status
  <2> TAKE k \in LastUpserts(lines)
  <2>1. its(k) = ChildOf(ev(k)) /\ ev(k).item \in Items /\ ChildOf(ev(k)) # None
    BY <1>3
  <2> HIDE DEF ev, its
  <2> QED  BY <2>1 DEF ChildOf
<1> DEFINE L == ChildrenFromState(Applied(m, e), e.parent)
           R == {log[k].event.status : k \in {j \in LastUpserts(lines) :
                                                 /\ log[j].event.parent = e.parent
                                                 /\ log[j].event.required = 1}}
<1>5. L = R
  <2>1. ASSUME NEW s \in L PROVE s \in R
    <3>1. PICK i \in Items : /\ m.child[i] # None /\ m.child[i].parent = e.parent
                             /\ m.child[i].required = 1 /\ s = m.child[i].status
      BY <1>1, <2>1 DEF ChildrenFromState
    <3>2. PICK k \in LastUpserts(lines) : log[k].event.item = i
      BY <3>1 DEF ChildrenRight
    <3>3. /\ ev(k).parent = e.parent /\ ev(k).required = 1 /\ ev(k).status = s
      BY <1>4, <3>1, <3>2
    <3> QED  BY <3>3
  <2>2. ASSUME NEW s \in R PROVE s \in L
    <3>1. PICK k \in LastUpserts(lines) : /\ log[k].event.parent = e.parent
                                          /\ log[k].event.required = 1
                                          /\ s = log[k].event.status
      BY <2>2
    <3>2. LET i == log[k].event.item
          IN  /\ i \in Items /\ m.child[i] # None /\ m.child[i].parent = e.parent
              /\ m.child[i].required = 1 /\ s = m.child[i].status
      BY <1>4, <3>1
    <3> QED  BY <1>1, <3>2 DEF ChildrenFromState
  <2> HIDE DEF L, R
  <2> QED  BY <2>1, <2>2
<1>6. Before(lines \cup {n}, n) = lines
  BY BeforeStep
<1> QED  BY <1>5, <1>6 DEF StatusesAt

\* A memory that is right for some lines is right for one more after it.
LEMMA RightStep ==
    ASSUME NEW n \in Nat, NEW lines \in SUBSET (1..(n-1)),
           \A k \in lines \cup {n} : log[k].event \in Events,
           \A k \in lines : log[k].event.id # log[n].event.id,
           NEW m \in Memories, RightFor(m, lines)
    PROVE  RightFor(Ingested(m, log[n].event), lines \cup {n})
<1> DEFINE e == log[n].event
           a == Applied(m, e)
           i == Ingested(m, e)
           more == lines \cup {n}
           v == Evaluate(StatusesAt(more, n))
           T(L) == {TaskAt(k) : k \in {j \in L : log[j].event \in Closures}}
<1>1. /\ \A k \in more : log[k].event \in Events /\ log[k].event.id \in Ids
      /\ \A k \in lines : log[k].event.id # e.id
      /\ e \in Events /\ e.id \in Ids /\ e.parent \in Parents
  BY EventTypes
<1>2. ChildrenRight(i, more) /\ AgendaRight(i)
  <2>1. ChildrenRight(a, more) /\ AgendaRight(a)
    BY <1>1, ChildrenStep DEF RightFor
  <2>2. i.child = a.child /\ i.agenda = a.agenda
    BY <1>1, IngestedIs
  <2> HIDE DEF a, i, more
  <2> QED  BY <2>1, <2>2 DEF ChildrenRight, AgendaRight
<1>3. /\ m.tasks = T(lines)
      /\ \A k \in lines : m.verdict[log[k].event.id] =
             IF k \in Decided(lines) THEN Evaluate(StatusesAt(lines, k)) ELSE None
      /\ \A j \in Ids : m.verdict[j] # None => \E k \in lines : log[k].event.id = j
      /\ \A p \in Parents : m.parent[p] = "DONE"
             <=> \E k \in Decided(lines) : log[k].event.parent = p /\ AcceptableAt(lines, k)
  BY DEF RightFor, TasksRight, VerdictsRight, ParentsRight
<1>4. /\ n \notin lines /\ Decided(lines) \subseteq lines
      /\ n \in Decided(more) <=> e \in Closures /\ e.task \notin m.tasks
      /\ Decided(more) = IF n \in Decided(more) THEN Decided(lines) \cup {n} ELSE Decided(lines)
      /\ \A k \in lines : StatusesAt(more, k) = StatusesAt(lines, k)
      /\ \A k \in lines : AcceptableAt(more, k) <=> AcceptableAt(lines, k)
  <2>1. \A k \in lines : StatusesAt(more, k) = StatusesAt(lines, k)
    BY StatusesStay
  <2>2. \A k \in lines : AcceptableAt(more, k) <=> AcceptableAt(lines, k)
    BY <2>1, AcceptableIs
  <2>3. e.task = TaskAt(n)
    BY DEF TaskAt
  <2>4. /\ Decided(lines) \subseteq lines
        /\ n \in Decided(more) <=> e \in Closures /\ TaskAt(n) \notin T(lines)
        /\ Decided(more) = IF n \in Decided(more) THEN Decided(lines) \cup {n} ELSE Decided(lines)
    BY DecidedStep
  <2>5. n \notin lines
    BY BeforeStep
  <2> HIDE DEF more, e, T
  <2> QED  BY <1>3, <2>1, <2>2, <2>3, <2>4, <2>5
<1>5. /\ m.parent \in [Parents -> {None, "OPEN", "DONE"}]
      /\ m.verdict \in [Ids -> Verdict \cup {None}]
      /\ a.parent = [m.parent EXCEPT ![e.parent] = IF @ = None THEN "OPEN" ELSE @]
      /\ \A p \in Parents : a.parent[p] = "DONE" <=> m.parent[p] = "DONE"
      /\ a.parent \in [Parents -> {None, "OPEN", "DONE"}]
  <2>1. /\ m.parent \in [Parents -> {None, "OPEN", "DONE"}]
        /\ m.verdict \in [Ids -> Verdict \cup {None}]
    BY DEF Memories
  <2>2. a.parent = [m.parent EXCEPT ![e.parent] = IF @ = None THEN "OPEN" ELSE @]
    BY <1>1, AppliedIs
  <2>3. None # "DONE"
    BY EventAssumption
  <2> HIDE DEF a, e
  <2> QED  BY <1>1, <2>1, <2>2, <2>3
<1>6. m.verdict[e.id] = None
  BY <1>1, <1>3
<1>7. T(more) = IF e \in Closures THEN T(lines) \cup {e.task} ELSE T(lines)
  BY DEF TaskAt
<1>8. CASE e \in Upserts \/ e.task \in m.tasks
  <2>1. i.tasks = m.tasks /\ i.verdict = m.verdict /\ i.parent = a.parent
    BY <1>1, <1>8, IngestedIs
  <2>2. n \notin Decided(more) /\ Decided(more) = Decided(lines)
    BY <1>4, <1>8, EventTypes
  <2>3. T(more) = m.tasks
    <3>1. e \in Closures => e.task \in T(lines)
      BY <1>3, <1>8, EventTypes
    <3> HIDE DEF T, e, more
    <3> QED  BY <1>3, <1>7, <3>1
  <2> HIDE DEF i, a, more, e
  <2>4. TasksRight(i, more)
    BY <2>1, <2>3 DEF TasksRight
  <2>5. VerdictsRight(i, more)
    <3>1. ASSUME NEW k \in more
          PROVE  m.verdict[log[k].event.id] =
                     IF k \in Decided(more) THEN Evaluate(StatusesAt(more, k)) ELSE None
      <4>1. CASE k = n
        BY <1>6, <2>2, <4>1 DEF e
      <4>2. CASE k # n
        <5>1. k \in lines
          BY <4>2 DEF more
        <5> QED  BY <1>3, <1>4, <2>2, <5>1
      <4> QED  BY <4>1, <4>2
    <3>2. \A j \in Ids : m.verdict[j] # None => \E k \in more : log[k].event.id = j
      BY <1>3 DEF more
    <3> QED  BY <2>1, <3>1, <3>2 DEF VerdictsRight
  <2>6. ParentsRight(i, more)
    <3>1. \A k \in Decided(lines) : AcceptableAt(more, k) <=> AcceptableAt(lines, k)
      BY <1>4
    <3>2. \A p \in Parents : i.parent[p] = "DONE" <=> m.parent[p] = "DONE"
      BY <1>5, <2>1
    <3> QED  BY <1>3, <2>2, <3>1, <3>2 DEF ParentsRight
  <2> QED  BY <1>2, <2>4, <2>5, <2>6 DEF RightFor, i, more, e
<1>9. CASE ~(e \in Upserts \/ e.task \in m.tasks)
  <2>1. e \in Closures /\ n \in Decided(more) /\ Decided(more) = Decided(lines) \cup {n}
    BY <1>1, <1>4, <1>9, EventTypes
  <2>2. (IF e.children # None THEN e.children ELSE ChildrenFromState(a, e.parent)) = StatusesAt(more, n)
    BY <1>1, <1>9, StatusesStep DEF RightFor
  <2>3. /\ i.tasks = m.tasks \cup {e.task}
        /\ i.verdict = [m.verdict EXCEPT ![e.id] = v]
        /\ i.parent = [a.parent EXCEPT ![e.parent] = IF v = "ACCEPT" THEN "DONE" ELSE @]
    <3>1. LET u == Evaluate(IF e.children # None THEN e.children ELSE ChildrenFromState(a, e.parent))
          IN  /\ i.tasks = m.tasks \cup {e.task}
              /\ i.verdict = [m.verdict EXCEPT ![e.id] = u]
              /\ i.parent = [a.parent EXCEPT ![e.parent] = IF u = "ACCEPT" THEN "DONE" ELSE @]
      BY <1>1, <1>9, IngestedIs
    <3> HIDE DEF a, i
    <3> QED  BY <2>2, <3>1
  <2> HIDE DEF i, a, more, e, v
  <2>4. TasksRight(i, more)
    BY <1>3, <1>7, <2>1, <2>3 DEF TasksRight
  <2>5. VerdictsRight(i, more)
    <3>1. i.verdict[e.id] = v /\ \A j \in Ids \ {e.id} : i.verdict[j] = m.verdict[j]
      BY <1>1, <1>5, <2>3
    <3>2. ASSUME NEW k \in more
          PROVE  i.verdict[log[k].event.id] =
                     IF k \in Decided(more) THEN Evaluate(StatusesAt(more, k)) ELSE None
      <4>1. CASE k = n
        BY <2>1, <3>1, <4>1 DEF v, e
      <4>2. CASE k # n
        <5>1. k \in lines /\ log[k].event.id \in Ids \ {e.id}
          BY <1>1, <4>2 DEF more
        <5>2. k \in Decided(more) <=> k \in Decided(lines)
          BY <2>1, <4>2
        <5> QED  BY <1>3, <1>4, <3>1, <5>1, <5>2
      <4> QED  BY <4>1, <4>2
    <3>3. \A j \in Ids : i.verdict[j] # None => \E k \in more : log[k].event.id = j
      <4> TAKE j \in Ids
      <4>1. CASE j = e.id
        BY <4>1 DEF more, e
      <4>2. CASE j # e.id
        BY <1>3, <3>1, <4>2 DEF more
      <4> QED  BY <4>1, <4>2
    <3> QED  BY <3>2, <3>3 DEF VerdictsRight
  <2>6. ParentsRight(i, more)
    <3>1. v = "ACCEPT" <=> AcceptableAt(more, n)
      BY AcceptableIs DEF v
    <3>2. \A p \in Parents : i.parent[p] = "DONE"
                             <=> m.parent[p] = "DONE" \/ (p = e.parent /\ v = "ACCEPT")
      BY <1>1, <1>5, <2>3
    <3>3. log[n].event.parent = e.parent
      BY DEF e
    <3> QED  BY <1>3, <1>4, <2>1, <3>1, <3>2, <3>3 DEF ParentsRight
  <2> QED  BY <1>2, <2>4, <2>5, <2>6 DEF RightFor, i, more, e
<1> QED  BY <1>8, <1>9

\* Right before the first line.
LEMMA RightInit == RightFor(Fresh, {})
<1>1. LastUpserts({}) = {} /\ Decided({}) = {}
  BY DEF LastUpserts, Decided
<1>2. TasksRight(Fresh, {})
  BY DEF TasksRight, Fresh
<1>3. ChildrenRight(Fresh, {}) /\ AgendaRight(Fresh)
  BY <1>1 DEF ChildrenRight, AgendaRight, Fresh
<1>4. VerdictsRight(Fresh, {})
  BY DEF VerdictsRight, Fresh
<1>5. ParentsRight(Fresh, {})
  BY <1>1, EventAssumption DEF ParentsRight, Fresh
<1> QED  BY <1>2, <1>3, <1>4, <1>5 DEF RightFor

LEMMA ReadableEvents ==
    ASSUME TypeOK, Readable
    PROVE  /\ Len(log) \in Nat
           /\ \A n \in 1..Len(log) : log[n].event \in Events
           /\ \A n, k \in 1..Len(log) : log[n].event.id = log[k].event.id => n = k
<1>1. Len(log) \in Nat /\ \A n \in 1..Len(log) : log[n] \in Lines
  BY DEF TypeOK
<1>2. \A n \in 1..Len(log) : log[n].event \in Events
  BY <1>1 DEF Lines, Readable
<1> QED  BY <1>1, <1>2, Zenon DEF Readable

All == 1..Len(log)

\* The replay of a readable log is a memory, has processed the whole log and
\* is right for all its lines.
LEMMA ReplayRight ==
    ASSUME TypeOK, Readable
    PROVE  /\ ReplayOf(log) \in Memories
           /\ ReplayOf(log).processed = LogIds
           /\ RightFor(ReplayOf(log), All)
<1> DEFINE a == Replayed(log)
           T == {n \in Nat : RightFor(a[n], 1..n)}
<1>1. /\ Len(log) \in Nat
      /\ \A n \in 1..Len(log) : log[n].event \in Events
      /\ \A n, k \in 1..Len(log) : log[n].event.id = log[k].event.id => n = k
      /\ a[0] = Fresh
      /\ \A n \in 1..Len(log) : a[n] = Ingested(a[n - 1], log[n].event)
      /\ \A n \in 0..Len(log) : /\ a[n] \in Memories
                                /\ a[n].processed = {log[k].event.id : k \in 1..n}
  BY ReadableEvents, ReplayStep, ReplayType
<1> HIDE DEF a
<1>2. 0 \in T
  <2>1. 1..0 = {}
    OBVIOUS
  <2> QED  BY <1>1, <2>1, RightInit
<1>3. ASSUME NEW n \in 0..(Len(log) - 1), n \in T
      PROVE  n + 1 \in T
  <2>1. /\ n + 1 \in 1..Len(log) /\ n + 1 \in Nat /\ (n + 1) - 1 = n /\ n \in 0..Len(log)
        /\ 1..n \in SUBSET (1..((n+1) - 1))
        /\ 1..n \cup {n + 1} = 1..(n + 1) /\ 1..(n+1) \subseteq 1..Len(log)
        /\ \A k \in 1..n : k # n + 1
    BY <1>1
  <2>2. a[n + 1] = Ingested(a[n], log[n + 1].event) /\ a[n] \in Memories
    BY <1>1, <2>1
  <2>3. /\ \A k \in 1..n \cup {n + 1} : log[k].event \in Events
        /\ \A k \in 1..n : log[k].event.id # log[n + 1].event.id
    BY <1>1, <2>1
  <2>4. RightFor(a[n], 1..n)
    BY <1>3
  <2>5. RightFor(Ingested(a[n], log[n + 1].event), 1..n \cup {n + 1})
    BY <2>1, <2>2, <2>3, <2>4, RightStep
  <2> QED  BY <2>1, <2>2, <2>5
<1>4. Len(log) \in T
  <2> HIDE DEF T
  <2>1. 0..Len(log) \subseteq T
    BY <1>1, <1>2, <1>3, UpTo
  <2> QED  BY <1>1, <2>1
<1> QED  BY <1>1, <1>4 DEF ReplayOf, a, All, LogIds

----------------------------------------------------------------------------
\* The invariant.

\* An open runtime has processed events that the log holds, and is right for
\* their lines, while the log can be read.
RuntimeOk(r) ==
    memory[r] # None => memory[r].processed \subseteq LogIds /\ RightFor(memory[r], Seen(r))

\* What a caller was told is the verdict that the whole log gives.
ToldOk(i) ==
    told[i] # None => \E n \in Decided(All) : /\ log[n].event.id = i
                                              /\ told[i] = Evaluate(StatusesAt(All, n))

LogOk == Readable => (\A r \in Runtimes : RuntimeOk(r)) /\ (\A i \in Ids : ToldOk(i))

IInv == TypeOK /\ LogOk

----------------------------------------------------------------------------
\* Lines stay what they are.

\* What some lines define is not changed by a write that leaves them.
LEMMA RightStays ==
    ASSUME NEW lines, NEW m, \A k \in lines : log'[k] = log[k]
    PROVE  /\ RightFor(m, lines)' <=> RightFor(m, lines)
           /\ Decided(lines)' = Decided(lines)
           /\ \A k \in lines : StatusesAt(lines, k)' = StatusesAt(lines, k)
<1>1. \A L : L \subseteq lines => LastUpserts(L)' = LastUpserts(L)
  BY DEF LastUpserts
<1>2. \A k : Before(lines, k) \subseteq lines
  BY DEF Before
<1>3. Decided(lines)' = Decided(lines)
  BY <1>2 DEF Decided
<1>4. ASSUME NEW k \in lines
      PROVE  /\ StatusesAt(lines, k)' = StatusesAt(lines, k)
             /\ AcceptableAt(lines, k)' <=> AcceptableAt(lines, k)
  <2> DEFINE L == LastUpserts(Before(lines, k))
  <2>1. LastUpserts(Before(lines, k))' = L
    <3>1. Before(lines, k)' = Before(lines, k)
      BY DEF Before
    <3> QED  BY <1>1, <1>2, <3>1
  <2>2. L \subseteq lines
    BY <1>2 DEF LastUpserts
  <2> HIDE DEF L
  <2>3. log'[k] = log[k] /\ \A j \in L : log'[j] = log[j]
    BY <2>2
  <2>4. StatusesAt(lines, k)' = StatusesAt(lines, k)
    BY <2>1, <2>3 DEF StatusesAt, L
  <2> QED  BY <2>4 DEF AcceptableAt
<1>5. LastUpserts(lines)' = LastUpserts(lines) /\ LastUpserts(lines) \subseteq lines
  BY <1>1 DEF LastUpserts
<1>6. TasksRight(m, lines)' <=> TasksRight(m, lines)
  BY DEF TasksRight, TaskAt
<1>7. ChildrenRight(m, lines)' <=> ChildrenRight(m, lines)
  BY <1>5 DEF ChildrenRight
<1>8. AgendaRight(m)' <=> AgendaRight(m)
  BY DEF AgendaRight
<1>9. VerdictsRight(m, lines)' <=> VerdictsRight(m, lines)
  BY <1>3, <1>4 DEF VerdictsRight
<1>10. ParentsRight(m, lines)' <=> ParentsRight(m, lines)
  <2>1. Decided(lines) \subseteq lines
    BY DEF Decided
  <2> QED  BY <1>3, <1>4, <2>1 DEF ParentsRight
<1>11. RightFor(m, lines)' <=> RightFor(m, lines)
  BY <1>6, <1>7, <1>8, <1>9, <1>10 DEF RightFor
<1> QED  BY <1>3, <1>4, <1>11

\* The step to one line more, in the state after a write.
StepIsRight ==
    \A n \in Nat : \A lines \in SUBSET (1..(n-1)) : \A m \in Memories :
        /\ \A k \in lines \cup {n} : log[k].event \in Events
        /\ \A k \in lines : log[k].event.id # log[n].event.id
        /\ RightFor(m, lines)
        => RightFor(Ingested(m, log[n].event), lines \cup {n})

LEMMA RightSteps == StepIsRight
BY RightStep DEF StepIsRight

LEMMA RightStepsAfter == StepIsRight'
BY RightSteps, PTL

\* What was decided stays decided, and on the same, when a line is added.
GrowthIsRight ==
    \A n \in Nat : \A lines \in SUBSET (1..(n-1)) :
        /\ Decided(lines) \subseteq Decided(lines \cup {n})
        /\ \A k \in lines : StatusesAt(lines \cup {n}, k) = StatusesAt(lines, k)

LEMMA Growth == GrowthIsRight
<1> SUFFICES ASSUME NEW n \in Nat, NEW lines \in SUBSET (1..(n-1))
             PROVE  /\ Decided(lines) \subseteq Decided(lines \cup {n})
                    /\ \A k \in lines : StatusesAt(lines \cup {n}, k) = StatusesAt(lines, k)
  BY DEF GrowthIsRight
<1>1. Decided(lines \cup {n}) =
          IF n \in Decided(lines \cup {n}) THEN Decided(lines) \cup {n} ELSE Decided(lines)
  BY DecidedStep
<1>2. Decided(lines) \subseteq Decided(lines \cup {n})
  <2>1. CASE n \in Decided(lines \cup {n})
    BY <1>1, <2>1
  <2>2. CASE n \notin Decided(lines \cup {n})
    BY <1>1, <2>2
  <2> QED  BY <2>1, <2>2
<1> QED  BY <1>2, StatusesStay

LEMMA GrowthAfter == GrowthIsRight'
BY Growth, PTL

----------------------------------------------------------------------------
\* A write.

\* The log has the event more, which is new to it.
Adds(e) ==
    /\ e.id \notin LogIds
    /\ LogIds' = LogIds \cup {e.id}
    /\ Len(log') = Len(log) + 1
    /\ \A k \in All : log'[k] = log[k]
    /\ log'[Len(log) + 1].event = e

\* A log that can be read after a write could be read before, and is what it
\* was or has the event more.
LEMMA WriteIs ==
    ASSUME TypeOK, NEW e \in Events, NEW amount \in Written, log' = Write(e, amount)
    PROVE  /\ log' \in Seq(Lines)
           /\ Readable' => /\ Readable
                           /\ \/ amount = "nothing" /\ log' = log
                              \/ amount # "nothing" /\ Adds(e)
<1> DEFINE line == [event |-> IF amount = "partial" THEN Garbage ELSE e,
                    end   |-> IF amount = "whole" THEN "newline" ELSE "none"]
<1>1. log \in Seq(Lines) /\ Len(log) \in Nat /\ line \in Lines
  BY DEF TypeOK, Lines
<1>2. CASE amount = "nothing"
  BY <1>1, <1>2 DEF Write, Readable
<1>3. CASE amount # "nothing" /\ log # <<>> /\ Last(log).end = "none"
  <2> DEFINE cut == [line EXCEPT !.event = Garbage]
  <2>1. log' = Append(Front(log), cut) /\ cut \in Lines /\ cut.event = Garbage
    BY <1>1, <1>3 DEF Write, Lines
  <2>2. Front(log) \in Seq(Lines)
    BY <1>1, <1>3 DEF Front
  <2> HIDE DEF cut
  <2>3. log' \in Seq(Lines) /\ Len(log') \in 1..Len(log') /\ log'[Len(log')] = cut
    BY <2>1, <2>2
  <2> QED  BY <2>1, <2>3 DEF Readable
<1>4. CASE amount # "nothing" /\ ~(log # <<>> /\ Last(log).end = "none")
  <2>1. log' = Append(log, line)
    BY <1>4 DEF Write
  <2> HIDE DEF line
  <2>2. /\ log' \in Seq(Lines) /\ Len(log') = Len(log) + 1
        /\ \A n \in 1..Len(log) : log'[n] = log[n]
        /\ log'[Len(log')] = line
    BY <1>1, <2>1
  <2>3. ASSUME Readable'
        PROVE  Readable /\ Adds(e)
    <3>1. /\ \A n \in 1..Len(log') : log'[n].event # Garbage
          /\ \A n, m \in 1..Len(log') : log'[n].event.id = log'[m].event.id => n = m
      BY <2>3 DEF Readable
    <3>2. line.event = e
      BY <1>1, <2>2, <3>1 DEF line
    <3>3. Readable
      BY <1>1, <2>2, <3>1 DEF Readable
    <3>4. e.id \notin LogIds
      BY <1>1, <2>2, <3>1, <3>2 DEF LogIds
    <3>5. LogIds' = LogIds \cup {e.id}
      BY <1>1, <2>2, <3>2 DEF LogIds
    <3> QED  BY <2>2, <3>2, <3>3, <3>4, <3>5 DEF Adds, All
  <2> QED  BY <1>4, <2>2, <2>3
<1> QED  BY <1>2, <1>3, <1>4

\* What a line more means for the lines one has seen.
LEMMA SeenAfter ==
    ASSUME TypeOK, NEW e \in Events, Adds(e), NEW S \in SUBSET LogIds
    PROVE  LET n == Len(log) + 1
               seen == {k \in All : log[k].event.id \in S}
           IN  /\ n \in Nat /\ seen \in SUBSET (1..(n-1)) /\ All \in SUBSET (1..(n-1))
               /\ All' = All \cup {n}
               /\ {k \in All' : log'[k].event.id \in S} = seen
               /\ {k \in All' : log'[k].event.id \in S \cup {e.id}} = seen \cup {n}
<1> DEFINE n == Len(log) + 1
           seen == {k \in All : log[k].event.id \in S}
<1>1. Len(log) \in Nat /\ n \in Nat /\ n \notin All /\ All' = All \cup {n} /\ All = 1..(n-1)
  BY DEF TypeOK, All, Adds
<1>2. e.id \notin S /\ log'[n].event = e /\ \A k \in All : log'[k] = log[k]
  BY DEF Adds
<1>3. \A k \in All : log[k].event.id # e.id
  BY DEF Adds, LogIds, All
<1> HIDE DEF n
<1>4. \A k : k \in All' /\ log'[k].event.id \in S <=> k \in seen
  BY <1>1, <1>2
<1>5. \A k : k \in All' /\ log'[k].event.id \in S \cup {e.id} <=> k \in seen \cup {n}
  BY <1>1, <1>2, <1>3
<1>6. seen \in SUBSET (1..(n-1)) /\ All \in SUBSET (1..(n-1))
  BY <1>1
<1>7. {k \in All' : log'[k].event.id \in S} = seen
  <2> HIDE DEF seen
  <2> QED  BY <1>4
<1>8. {k \in All' : log'[k].event.id \in S \cup {e.id}} = seen \cup {n}
  <2> HIDE DEF seen
  <2> QED  BY <1>5
<1> QED  BY <1>1, <1>6, <1>7, <1>8 DEF n

\* A runtime that is left alone is right after a write for what it had seen.
LEMMA RuntimeStays ==
    ASSUME TypeOK, log' = log \/ \E e \in Events : Adds(e),
           NEW r \in Runtimes, RuntimeOk(r), memory'[r] = memory[r]
    PROVE  RuntimeOk(r)'
<1> USE DEF RuntimeOk
<1> SUFFICES ASSUME memory[r] # None
             PROVE  memory[r].processed \subseteq LogIds' /\ RightFor(memory[r], Seen(r))'
  OBVIOUS
<1>1. memory[r].processed \subseteq LogIds /\ RightFor(memory[r], Seen(r))
  OBVIOUS
<1>2. LogIds \subseteq LogIds' /\ \A k \in All : log'[k] = log[k]
  BY DEF Adds, LogIds, All
<1>3. Seen(r)' = Seen(r)
  <2>1. CASE log' = log
    BY <2>1 DEF Seen
  <2>2. ASSUME NEW e \in Events, Adds(e)
        PROVE  Seen(r)' = Seen(r)
    <3>1. {k \in All' : log'[k].event.id \in memory[r].processed}
              = {k \in All : log[k].event.id \in memory[r].processed}
      BY <1>1, <2>2, SeenAfter
    <3> QED  BY <3>1 DEF Seen, All
  <2> QED  BY <2>1, <2>2
<1>4. PICK m, lines : m = memory[r] /\ lines = Seen(r)
  OBVIOUS
<1>5. \A k \in lines : log'[k] = log[k]
  BY <1>2, <1>4 DEF Seen, All
<1>6. RightFor(m, lines)' <=> RightFor(m, lines)
  BY <1>5, RightStays
<1>7. RightFor(memory[r], Seen(r))'
  BY <1>1, <1>3, <1>4, <1>6
<1> QED  BY <1>1, <1>2, <1>7

\* So is what a caller was told.
LEMMA ToldStays ==
    ASSUME TypeOK, log' = log \/ \E e \in Events : Adds(e),
           NEW i \in Ids, ToldOk(i), told'[i] = told[i]
    PROVE  ToldOk(i)'
<1> SUFFICES ASSUME told[i] # None
             PROVE  \E n \in Decided(All)' : /\ log'[n].event.id = i
                                             /\ told[i] = Evaluate(StatusesAt(All, n)')
  BY DEF ToldOk
<1>1. PICK n \in Decided(All) : log[n].event.id = i /\ told[i] = Evaluate(StatusesAt(All, n))
  BY DEF ToldOk
<1>2. PICK lines : lines = All
  OBVIOUS
<1>3. n \in lines /\ \A k \in lines : log'[k] = log[k]
  BY <1>1, <1>2 DEF Decided, Adds, All
<1>4. Decided(lines)' = Decided(lines) /\ StatusesAt(lines, n)' = StatusesAt(lines, n)
  BY <1>3, RightStays
<1>5. Decided(lines)' \subseteq Decided(All)' /\ StatusesAt(All, n)' = StatusesAt(lines, n)'
  <2>1. CASE log' = log
    <3>1. All' = lines
      BY <1>2, <2>1 DEF All
    <3> QED  BY <3>1
  <2>2. ASSUME NEW e \in Events, Adds(e)
        PROVE  /\ Decided(lines)' \subseteq Decided(All)'
               /\ StatusesAt(All, n)' = StatusesAt(lines, n)'
    <3>1. PICK l : l = Len(log) + 1
      OBVIOUS
    <3>2. {} \in SUBSET LogIds
      OBVIOUS
    <3>3. l \in Nat /\ lines \in SUBSET (1..(l-1)) /\ All' = lines \cup {l}
      BY <1>2, <2>2, <3>1, <3>2, SeenAfter
    <3>4. /\ Decided(lines)' \subseteq Decided(lines \cup {l})'
          /\ StatusesAt(lines \cup {l}, n)' = StatusesAt(lines, n)'
      BY <1>3, <3>3, GrowthAfter DEF GrowthIsRight
    <3> QED  BY <3>3, <3>4
  <2> QED  BY <2>1, <2>2
<1> QED  BY <1>1, <1>2, <1>3, <1>4, <1>5

----------------------------------------------------------------------------
\* The steps.

LEMMA InitOk == Init => IInv
<1> SUFFICES ASSUME Init PROVE IInv
  OBVIOUS
<1>1. TypeOK
  BY DEF Init, TypeOK
<1>2. LogOk
  BY DEF Init, LogOk, RuntimeOk, ToldOk
<1> QED  BY <1>1, <1>2 DEF IInv

\* Steps that write something or nothing and leave every runtime as it was,
\* or closed.
LEMMA WriteKeeps ==
    ASSUME IInv, NEW r \in Runtimes, NEW e \in Events, NEW amount \in Written,
           log' = Write(e, amount), told' = told,
           memory' = memory \/ memory' = [memory EXCEPT ![r] = None]
    PROVE  IInv'
<1>1. /\ TypeOK /\ memory \in [Runtimes -> Memories \cup {None}]
      /\ \A q \in Runtimes : memory'[q] = memory[q] \/ memory'[q] = None
      /\ memory' \in [Runtimes -> Memories \cup {None}]
  BY DEF IInv, TypeOK
<1>2. log' \in Seq(Lines)
  BY <1>1, WriteIs
<1>3. TypeOK'
  BY <1>1, <1>2 DEF TypeOK
<1>4. ASSUME Readable'
      PROVE  (\A q \in Runtimes : RuntimeOk(q)') /\ (\A i \in Ids : ToldOk(i)')
  <2>1. Readable /\ (log' = log \/ Adds(e))
    BY <1>1, <1>4, WriteIs
  <2>2. (\A q \in Runtimes : RuntimeOk(q)) /\ (\A i \in Ids : ToldOk(i))
    BY <2>1 DEF IInv, LogOk
  <2>3. ASSUME NEW q \in Runtimes PROVE RuntimeOk(q)'
    <3>1. CASE memory'[q] = memory[q]
      BY <1>1, <2>1, <2>2, <3>1, RuntimeStays
    <3>2. CASE memory'[q] = None
      BY <3>2 DEF RuntimeOk
    <3> QED  BY <1>1, <3>1, <3>2
  <2>4. ASSUME NEW i \in Ids PROVE ToldOk(i)'
    <3>1. told'[i] = told[i]
      OBVIOUS
    <3> QED  BY <1>1, <2>1, <2>2, <3>1, ToldStays
  <2> QED  BY <2>3, <2>4
<1>5. LogOk'
  BY <1>4 DEF LogOk
<1> QED  BY <1>3, <1>5 DEF IInv

LEMMA OpenKeeps ==
    ASSUME IInv, NEW r \in Runtimes, Open(r)
    PROVE  IInv'
<1>1. /\ TypeOK /\ Readable /\ memory' = [memory EXCEPT ![r] = ReplayOf(log)]
      /\ log' = log /\ told' = told
      /\ memory \in [Runtimes -> Memories \cup {None}]
  BY DEF IInv, Open, TypeOK
<1>2. /\ ReplayOf(log) \in Memories /\ ReplayOf(log).processed = LogIds
      /\ RightFor(ReplayOf(log), All)
  BY <1>1, ReplayRight
<1>3. TypeOK'
  BY <1>1, <1>2 DEF TypeOK
<1>4. (\A q \in Runtimes : RuntimeOk(q)) /\ (\A i \in Ids : ToldOk(i))
  BY <1>1 DEF IInv, LogOk
<1>5. ASSUME NEW q \in Runtimes  PROVE RuntimeOk(q)'
  <2>1. CASE q = r
    <3>1. PICK m, lines : m = ReplayOf(log) /\ lines = All
      OBVIOUS
    <3>2. memory'[q] = m /\ m.processed = LogIds
      BY <1>1, <1>2, <2>1, <3>1
    <3>3. LogIds' = LogIds
      BY <1>1 DEF LogIds
    <3>4. Seen(q)' = lines
      BY <1>1, <3>1, <3>2 DEF Seen, All, LogIds
    <3>5. RightFor(m, lines)'
      BY <1>1, <1>2, <3>1, RightStays
    <3> QED  BY <3>2, <3>3, <3>4, <3>5 DEF RuntimeOk
  <2>2. CASE q # r
    <3>1. memory'[q] = memory[q]
      BY <1>1, <2>2
    <3> QED  BY <1>1, <1>4, <3>1, RuntimeStays
  <2> QED  BY <2>1, <2>2
<1>6. ASSUME NEW i \in Ids  PROVE ToldOk(i)'
  <2>1. ToldOk(i) /\ told'[i] = told[i]
    BY <1>1, <1>4
  <2> QED  BY <1>1, <2>1, ToldStays
<1>7. LogOk'
  BY <1>5, <1>6 DEF LogOk
<1> QED  BY <1>3, <1>7 DEF IInv

LEMMA IngestKeeps ==
    ASSUME IInv, NEW r \in Runtimes, NEW e \in Events, Ingest(r, e)
    PROVE  IInv'
<1>1. /\ TypeOK /\ memory \in [Runtimes -> Memories \cup {None}]
      /\ told \in [Ids -> Verdict \cup {None}]
      /\ memory[r] # None /\ memory[r] \in Memories /\ e.id \notin memory[r].processed
      /\ log' = Write(e, "whole")
      /\ memory' = [memory EXCEPT ![r] = Ingested(memory[r], e)]
      /\ Answer(r, e, memory'[r])
      /\ e.id \in Ids
  BY EventTypes DEF IInv, TypeOK, Ingest, Processes
<1>2. PICK m, i : m = memory[r] /\ i = Ingested(m, e)
  OBVIOUS
<1>3. /\ i \in Memories /\ i.processed = m.processed \cup {e.id}
      /\ i.verdict[e.id] \in Verdict \cup {None}
  <2>1. i \in Memories /\ i.processed = m.processed \cup {e.id}
    BY <1>1, <1>2, IngestedType
  <2> QED  BY <1>1, <2>1 DEF Memories
<1>4. memory'[r] = i /\ \A q \in Runtimes \ {r} : memory'[q] = memory[q]
  BY <1>1, <1>2
<1>5. told' = IF e \in Closures /\ UpToDate(r) /\ told[e.id] = None
              THEN [told EXCEPT ![e.id] = i.verdict[e.id]] ELSE told
  BY <1>1, <1>4 DEF Answer
<1>6. log' \in Seq(Lines)
  BY <1>1, WriteIs DEF Written
<1>7. memory' \in [Runtimes -> Memories \cup {None}]
  BY <1>1, <1>2, <1>3
<1>8. TypeOK'
  BY <1>1, <1>3, <1>5, <1>6, <1>7 DEF TypeOK
<1>9. ASSUME Readable'
      PROVE  (\A q \in Runtimes : RuntimeOk(q)') /\ (\A j \in Ids : ToldOk(j)')
  <2>1. Readable /\ Adds(e)
    BY <1>1, <1>9, WriteIs DEF Written
  <2>2. (\A q \in Runtimes : RuntimeOk(q)) /\ (\A j \in Ids : ToldOk(j))
    BY <2>1 DEF IInv, LogOk
  <2>3. m \in Memories /\ m.processed \subseteq LogIds /\ RightFor(m, Seen(r))
    BY <1>1, <1>2, <2>2 DEF RuntimeOk
  <2>4. PICK n, lines : n = Len(log) + 1 /\ lines = Seen(r)
    OBVIOUS
  <2>5. /\ n \in Nat /\ lines \in SUBSET (1..(n-1)) /\ All' = All \cup {n}
        /\ All \in SUBSET (1..(n-1))
        /\ {k \in All' : log'[k].event.id \in m.processed \cup {e.id}} = lines \cup {n}
        /\ lines = {k \in All : log[k].event.id \in m.processed}
    <3>1. lines = {k \in All : log[k].event.id \in m.processed}
      BY <1>2, <2>4 DEF Seen, All
    <3>2. TypeOK /\ Adds(e) /\ m.processed \in SUBSET LogIds
      BY <1>1, <2>1, <2>3
    <3>3. LET l    == Len(log) + 1
              seen == {k \in All : log[k].event.id \in m.processed}
          IN  /\ l \in Nat /\ seen \in SUBSET (1..(l-1)) /\ All \in SUBSET (1..(l-1))
              /\ All' = All \cup {l}
              /\ {k \in All' : log'[k].event.id \in m.processed \cup {e.id}} = seen \cup {l}
      BY <3>2, SeenAfter
    <3> QED  BY <2>4, <3>1, <3>3
  <2>6. Seen(r)' = lines \cup {n}
    BY <1>3, <1>4, <2>5 DEF Seen, All
  <2>7. /\ log'[n].event = e
        /\ \A k \in lines : log'[k] = log[k] /\ log[k].event.id # e.id /\ log[k].event \in Events
    <3>1. \A k \in All : log'[k] = log[k] /\ log[k].event.id # e.id
      BY <2>1 DEF Adds, LogIds, All
    <3>2. \A k \in All : log[k].event \in Events
      BY <1>1, <2>1, ReadableEvents DEF All
    <3> QED  BY <2>1, <2>4, <2>5, <3>1, <3>2 DEF Adds
  <2>8. RightFor(i, lines \cup {n})'
    <3>1. RightFor(m, lines)'
      BY <2>3, <2>4, <2>7, RightStays
    <3>2. /\ \A k \in lines \cup {n} : log'[k].event \in Events
          /\ \A k \in lines : log'[k].event.id # log'[n].event.id
      BY <2>7
    <3>3. RightFor(Ingested(m, log[n].event), lines \cup {n})'
      BY <2>3, <2>5, <3>1, <3>2, RightStepsAfter DEF StepIsRight
    <3> QED  BY <1>2, <2>7, <3>3
  <2>9. ASSUME NEW q \in Runtimes  PROVE RuntimeOk(q)'
    <3>1. CASE q = r
      <4>1. i.processed \subseteq LogIds'
        BY <1>3, <2>1, <2>3 DEF Adds
      <4> QED  BY <1>4, <2>6, <2>8, <3>1, <4>1 DEF RuntimeOk
    <3>2. CASE q # r
      BY <1>1, <1>4, <2>1, <2>2, <3>2, RuntimeStays
    <3> QED  BY <3>1, <3>2
  <2>10. ASSUME NEW j \in Ids  PROVE ToldOk(j)'
    <3>1. CASE told'[j] = told[j]
      BY <1>1, <2>1, <2>2, <3>1, ToldStays
    <3>2. CASE told'[j] # told[j]
      <4>1. j = e.id /\ UpToDate(r) /\ told'[j] = i.verdict[j] /\ i.verdict[j] # None
        BY <1>1, <1>5, <3>2
      <4>2. lines = All
        <5>1. m.processed = LogIds
          BY <1>2, <4>1 DEF UpToDate
        <5>2. \A k \in All : log[k].event.id \in LogIds
          BY DEF LogIds, All
        <5> QED  BY <2>5, <5>1, <5>2
      <4>3. VerdictsRight(i, All)'
        BY <2>5, <2>8, <4>2 DEF RightFor
      <4>4. n \in All' /\ log'[n].event.id = j
        BY <2>5, <2>7, <4>1
      <4>5. i.verdict[j] = IF n \in Decided(All)' THEN Evaluate(StatusesAt(All, n)') ELSE None
        BY <4>3, <4>4 DEF VerdictsRight
      <4> QED  BY <4>1, <4>4, <4>5 DEF ToldOk
    <3> QED  BY <3>1, <3>2
  <2> QED  BY <2>9, <2>10
<1>10. LogOk'
  BY <1>9 DEF LogOk
<1> QED  BY <1>8, <1>10 DEF IInv

LEMMA StepOk == IInv /\ [Next]_vars => IInv'
<1> SUFFICES ASSUME IInv, [Next]_vars PROVE IInv'
  OBVIOUS
<1>1. ASSUME NEW r \in Runtimes, Open(r)  PROVE IInv'
  BY <1>1, OpenKeeps
<1>2. ASSUME log' = log, told' = told, memory' \in [Runtimes -> Memories \cup {None}],
             \A q \in Runtimes : memory'[q] = memory[q] \/ memory'[q] = None
      PROVE  IInv'
  <2>1. TypeOK' /\ (Readable' <=> Readable)
    BY <1>2 DEF IInv, TypeOK, Readable
  <2>2. ASSUME Readable
        PROVE  (\A q \in Runtimes : RuntimeOk(q)') /\ (\A i \in Ids : ToldOk(i)')
    <3>1. TypeOK /\ (\A q \in Runtimes : RuntimeOk(q)) /\ (\A i \in Ids : ToldOk(i))
      BY <2>2 DEF IInv, LogOk
    <3>2. ASSUME NEW q \in Runtimes  PROVE RuntimeOk(q)'
      <4>1. CASE memory'[q] = memory[q]
        BY <1>2, <3>1, <4>1, RuntimeStays
      <4>2. CASE memory'[q] = None
        BY <4>2 DEF RuntimeOk
      <4> QED  BY <1>2, <4>1, <4>2
    <3>3. ASSUME NEW i \in Ids  PROVE ToldOk(i)'
      <4>1. told'[i] = told[i]
        BY <1>2
      <4> QED  BY <1>2, <3>1, <4>1, ToldStays
    <3> QED  BY <3>2, <3>3
  <2> QED  BY <2>1, <2>2 DEF IInv, LogOk
<1>3. ASSUME NEW r \in Runtimes, NEW e \in Events, Ingest(r, e)  PROVE IInv'
  BY <1>3, IngestKeeps
<1>4. ASSUME NEW r \in Runtimes, NEW e \in Events, NEW amount \in Written, IngestFails(r, e, amount)
      PROVE  IInv'
  BY <1>4, WriteKeeps DEF IngestFails
<1>5. ASSUME NEW r \in Runtimes, NEW e \in Events, NEW amount \in Written, IngestCut(r, e, amount)
      PROVE  IInv'
  BY <1>5, WriteKeeps DEF IngestCut
<1>6. CASE UNCHANGED vars
  BY <1>2, <1>6 DEF vars, IInv, TypeOK
<1>7. ASSUME NEW r \in Runtimes, Close(r)  PROVE IInv'
  BY <1>2, <1>7 DEF Close, IInv, TypeOK
<1> QED  BY <1>1, <1>3, <1>4, <1>5, <1>6, <1>7 DEF Next

----------------------------------------------------------------------------
\* Theorems.

\* The file is lines or remains of lines and each open runtime has a state of
\* the kinds the code gives it (runtime.py:334-344).
THEOREM TypeCorrect == Spec => []TypeOK
<1>1. IInv => TypeOK
  BY DEF IInv
<1> QED  BY <1>1, InitOk, StepOk, PTL DEF Spec

\* A log that can be read holds every event some runtime took into account
\* and every event a caller has a verdict for (runtime.py:200-249).
THEOREM FailsClosedHolds == Spec => []FailsClosed
<1>1. IInv => FailsClosed
  <2> SUFFICES ASSUME IInv, Readable
               PROVE  /\ \A r \in Runtimes : memory[r] # None => memory[r].processed \subseteq LogIds
                      /\ {i \in Ids : told[i] # None} \subseteq LogIds
    BY DEF FailsClosed
  <2>1. (\A r \in Runtimes : RuntimeOk(r)) /\ (\A i \in Ids : ToldOk(i))
    BY DEF IInv, LogOk
  <2>2. ASSUME NEW i \in Ids, told[i] # None  PROVE i \in LogIds
    BY <2>1, <2>2 DEF ToldOk, Decided, All, LogIds
  <2> QED  BY <2>1, <2>2 DEF RuntimeOk
<1> QED  BY <1>1, InitOk, StepOk, PTL DEF Spec

\* The verdict a caller was given on the whole log is that of every runtime
\* that has the whole log (runtime.py:346-396).
THEOREM VerdictsHold == Spec => []VerdictsStand
<1>1. IInv => VerdictsStand
  <2> SUFFICES ASSUME IInv, NEW r \in Runtimes, NEW i \in Ids, UpToDate(r), told[i] # None
               PROVE  memory[r].verdict[i] = told[i]
    BY DEF VerdictsStand
  <2>1. RuntimeOk(r) /\ ToldOk(i) /\ memory[r] # None
    BY DEF IInv, LogOk, UpToDate
  <2>2. Seen(r) = All
    <3>1. \A n \in All : log[n].event.id \in memory[r].processed
      BY DEF UpToDate, LogIds, All
    <3> QED  BY <3>1 DEF Seen, All
  <2>3. PICK n \in Decided(All) : /\ log[n].event.id = i
                                  /\ told[i] = Evaluate(StatusesAt(All, n))
    BY <2>1 DEF ToldOk
  <2>4. VerdictsRight(memory[r], All) /\ n \in All
    BY <2>1, <2>2 DEF RuntimeOk, RightFor, Decided
  <2> QED  BY <2>3, <2>4 DEF VerdictsRight
<1> QED  BY <1>1, InitOk, StepOk, PTL DEF Spec

\* Every open runtime is in the state that the lines it has taken into account
\* define, for logs of any length, any events and any number of runtimes
\* writing between them (runtime.py:363-396, 435-592).
THEOREM StateHolds == Spec => []StateIsRight
<1>1. IInv => StateIsRight
  <2> SUFFICES ASSUME IInv, NEW r \in Runtimes, memory[r] # None, Readable
               PROVE  LET m    == memory[r]
                          last == LastUpserts(Seen(r))
                      IN  /\ {i \in Items : m.child[i] # None} = {log[k].event.item : k \in last}
                          /\ \A k \in last : m.child[log[k].event.item].status = log[k].event.status
                          /\ m.agenda = {log[k].event.item :
                                            k \in {j \in last : log[j].event.status \notin Terminal}}
                          /\ \A n \in Seen(r) : m.verdict[log[n].event.id] =
                                 IF n \notin Decided(Seen(r)) THEN None
                                 ELSE IF AcceptableAt(Seen(r), n) THEN "ACCEPT"
                                 ELSE IF StatusesAt(Seen(r), n) = {} THEN "HOLD" ELSE "REJECT"
                          /\ \A p \in Parents : m.parent[p] = "DONE"
                                 <=> \E n \in Decided(Seen(r)) :
                                         log[n].event.parent = p /\ AcceptableAt(Seen(r), n)
    BY Zenon DEF StateIsRight
  <2> DEFINE m == memory[r]
             lines == Seen(r)
             last == LastUpserts(lines)
             ev(k) == log[k].event
  <2>1. RightFor(m, lines) /\ m \in Memories /\ Len(log) \in Nat
    BY ReadableEvents DEF IInv, LogOk, RuntimeOk, TypeOK
  <2>2. lines \in SUBSET Nat
    BY <2>1 DEF Seen
  <2> HIDE DEF m, lines
  <2>3. \A k \in last : /\ ev(k).item \in Items
                        /\ m.child[ev(k).item] # None
                        /\ m.child[ev(k).item].status = ev(k).status
    <3> TAKE k \in last
    <3>1. ev(k) \in Upserts
      BY <2>2, LastIsOne
    <3>2. ev(k).item \in Items /\ ChildOf(ev(k)) \in ChildStates
      BY <3>1, EventTypes DEF ChildOf
    <3>3. m.child[ev(k).item] = ChildOf(ev(k))
      BY <2>1 DEF RightFor, ChildrenRight
    <3> HIDE DEF ev
    <3> QED  BY <3>2, <3>3, EventAssumption DEF ChildOf
  <2>4. \A i \in Items : m.child[i] # None => \E k \in last : ev(k).item = i
    BY <2>1 DEF RightFor, ChildrenRight
  <2>5. m.agenda \subseteq Items /\ \A i \in Items : i \in m.agenda <=>
            m.child[i] # None /\ m.child[i].status \notin Terminal
    BY <2>1 DEF RightFor, AgendaRight, Memories
  <2> HIDE DEF last, ev
  <2>6. {i \in Items : m.child[i] # None} = {ev(k).item : k \in last}
    BY <2>3, <2>4
  <2>7. m.agenda = {ev(k).item : k \in {j \in last : ev(j).status \notin Terminal}}
    BY <2>3, <2>4, <2>5
  <2>8. \A n \in lines : m.verdict[log[n].event.id] =
            IF n \notin Decided(lines) THEN None
            ELSE IF AcceptableAt(lines, n) THEN "ACCEPT"
            ELSE IF StatusesAt(lines, n) = {} THEN "HOLD" ELSE "REJECT"
    BY <2>1 DEF RightFor, VerdictsRight, Evaluate, AcceptableAt
  <2>9. \A p \in Parents : m.parent[p] = "DONE"
            <=> \E n \in Decided(lines) : log[n].event.parent = p /\ AcceptableAt(lines, n)
    BY <2>1 DEF RightFor, ParentsRight
  <2> QED  BY <2>3, <2>6, <2>7, <2>8, <2>9 DEF m, lines, last, ev
<1> QED  BY <1>1, InitOk, StepOk, PTL DEF Spec

\* Damage stays visible: no append makes a log that cannot be read readable
\* again, by whatever runtime still has it open (runtime.py:200-270).
THEOREM DamageStays == Spec => [][~Readable => ~Readable']_vars
<1>1. IInv /\ [Next]_vars => [~Readable => ~Readable']_vars
  <2> SUFFICES ASSUME IInv, Next, Readable'  PROVE Readable
    OBVIOUS
  <2>1. TypeOK
    BY DEF IInv
  <2>2. ASSUME log' = log  PROVE Readable
    BY <2>2 DEF Readable
  <2>3. ASSUME NEW e \in Events, NEW amount \in Written, log' = Write(e, amount)
        PROVE  Readable
    BY <2>1, <2>3, WriteIs
  <2>4. "whole" \in Written
    BY DEF Written
  <2> QED  BY <2>2, <2>3, <2>4 DEF Next, Open, Close, Ingest, IngestFails, IngestCut
<1> QED  BY <1>1, InitOk, StepOk, PTL DEF Spec
=============================================================================
