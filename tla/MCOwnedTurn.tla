---------------------------- MODULE MCOwnedTurn -----------------------------
(* A small instance of OwnedTurn: up to four turns of a session over two    *)
(* topics and two premises, one of them a model turn and one plain, and     *)
(* another session; openings before and after a source is rewritten,        *)
(* revoked and doubled.                                                     *)
EXTENDS OwnedTurn

CONSTANTS s1, s2, A, B, p, q, small, large, old, new, past

Need(source, route) == [source |-> source, route |-> route, version |-> None, revision |-> None]
Exact(source, version, revision) ==
    [source |-> source, route |-> "EXACT", version |-> version, revision |-> revision]

Turn(no, topic, premise, needs) ==
    [request |-> no, session |-> s1, no |-> no, topic |-> topic, premise |-> premise,
     needs |-> needs, budget |-> 6, intent |-> None]

Plain(no, source, version, budget) ==
    [Turn(no, None, None, {Exact(source, version, None)}) EXCEPT !.budget = budget]

AnyProfile ==
    [preferred |-> small, allowed |-> {small, large}, required |-> {}, minimum |-> 2,
     fallback |-> TRUE]

MCTurns ==
    {Turn(1, A, p, {Need(1, "CURRENT")}),
     Turn(2, A, p, {Need(1, "CURRENT"), Need(1, "HISTORY")}), Turn(2, B, p, {Exact(2, 1, None)}),
     Turn(3, A, q, {}), [Turn(3, A, p, {}) EXCEPT !.intent = AnyProfile],
     Turn(4, A, p, {}),
     [Turn(1, A, p, {Need(1, "CURRENT"), Need(1, "HISTORY")}) EXCEPT
         !.request = 4, !.session = s2, !.budget = 2],
     Plain(3, 2, 1, 2), [Plain(2, 1, 1, 6) EXCEPT !.session = s2]}

Fixture(source, version, status, text) ==
    [source |-> source, version |-> version, revision |-> 1, status |-> status, text |-> text]
Grant(source, version, decision) == [source |-> source, version |-> version, decision |-> decision]
P(id, rank, usable) == [id |-> id, rank |-> rank, usable |-> usable, up |-> TRUE, offers |-> {}]

Base ==
    [fixtures |-> {Fixture(1, 1, "CURRENT", old), Fixture(1, 2, "HISTORY", past),
                   Fixture(2, 1, "CURRENT", past)},
     first    |-> {Fixture(1, 1, "CURRENT", old), Fixture(1, 2, "HISTORY", past),
                   Fixture(2, 1, "CURRENT", past)},
     grants   |-> {Grant(1, 1, "ALLOW"), Grant(1, 2, "ALLOW"), Grant(2, 1, "ALLOW")},
     profiles |-> {P(small, 1, 4), P(large, 2, 3)}]
Rewritten ==
    [Base EXCEPT !.fixtures = (@ \ {Fixture(1, 1, "CURRENT", old)}) \cup
                     {Fixture(1, 1, "CURRENT", new), [Fixture(2, 1, "CURRENT", new) EXCEPT !.revision = 2]},
                 !.first = {Fixture(1, 1, "CURRENT", new), Fixture(1, 2, "HISTORY", past),
                            [Fixture(2, 1, "CURRENT", new) EXCEPT !.revision = 2]},
                 !.profiles = {P(large, 2, 3)}]
Revoked == [Base EXCEPT !.grants = @ \cup {Grant(1, 1, "DENY"), Grant(2, 1, "UNKNOWN")},
                        !.profiles = {[P(small, 1, 4) EXCEPT !.up = FALSE], P(large, 2, 3)}]

MCWorlds == {Base, Rewritten, Revoked}
MCBytes  == [t \in {old, new, past} |-> IF t = past THEN 2 ELSE 1]
=============================================================================
