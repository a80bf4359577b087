----------------------------- MODULE MCJournal -----------------------------
(* A small instance of Journal: one session, two turns, a retry of the    *)
(* first turn under a second attempt, and the events that could get in    *)
(* their way: a stolen slot, a slot wanted twice, a reworded USER, two    *)
(* corrections sharing an id.                                             *)
EXTENDS Journal

CONSTANTS u1, r1, r2, x, c1, c2,   \* event ids
          s,                       \* the session
          k,                       \* a correction id
          original, edited, blank, \* contents
          a1, a2                   \* attempts

MCIds == {u1, r1, r2, x, c1, c2}
Plain(i, q, b) == [id |-> i, session |-> s, seq |-> q, corrects |-> None,
                   corrId |-> None, body |-> b]
Fix(i, q, of)  == [Plain(i, q, edited) EXCEPT !.corrects = of, !.corrId = k]

User     == Plain(u1, 1, original)
Reply(i, q) == Plain(i, q, blank)

MCEvents == {User, Plain(u1, 1, edited), Plain(x, 2, original), Plain(x, 4, original),
             Fix(c1, 4, u1), Fix(c2, 5, c1)}

Turn(a, i, q, frames, outcome) ==
    [attempt |-> a, user |-> User, reply |-> Reply(i, q),
     frames |-> frames, outcome |-> outcome]

\* a1 streams two frames; a2 retries the same USER in a later slot, or asks
\* for the slot a1 holds; a1 may also come back with another script.
MCCalls == {Turn(a1, r1, 2, <<"text", "blank">>, "complete"),
            Turn(a1, r1, 2, <<"blank">>, "failed"),
            Turn(a2, r2, 3, <<"text">>, "partial"),
            Turn(a2, r2, 3, <<"text", "bulk">>, "complete"),
            Turn(a2, r2, 2, <<>>, "complete")}

\* One turn with a script whose terminal event is larger than an event may be.
MCBulkCalls == {Turn(a1, r1, 2, <<"bulk">>, "complete")}
=============================================================================
