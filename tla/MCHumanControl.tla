--------------------------- MODULE MCHumanControl ---------------------------
(* A small instance of HumanControl: a handover, another of the same task    *)
(* under another id, and one under that id without budget; an opening with   *)
(* the owner bound or the owner under another fixture; the time of creation, *)
(* one before expiry and the moment of expiry, and a clock that goes back.   *)
EXTENDS HumanControl

CONSTANTS h1, h2, r1, r2, t1, t2, alice, w1, p1, p2

Request(id, requestId, task, budget) ==
    [id |-> id, requestId |-> requestId, task |-> task, owner |-> alice,
     created |-> 1, expires |-> 3, budget |-> budget]

First  == Request(h1, r1, t1, 1)
Again  == Request(h2, r2, t1, 1)
Poor   == Request(h2, r2, t1, 0)
MCRequests == {First, Again, Poor}

Answer(q, id, command) == [request |-> q, id |-> id, command |-> command]
MCResponses == {Answer(First, p1, c) : c \in {"CONTINUE", "CANCEL"}}
               \cup {Answer(First, p2, "HOLD"), Answer(Again, p1, "CONTINUE"),
                     Answer(Poor, p1, "CONTINUE")}

Anything  == [owner |-> alice, tasks |-> {t1, t2}]
OneTask   == [owner |-> alice, tasks |-> {t1}]
MCRosters == {[f \in {Anything} |-> 1], [f \in {OneTask} |-> 1]}
=============================================================================
