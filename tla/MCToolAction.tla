---------------------------- MODULE MCToolAction ----------------------------
(* Small instances of ToolAction: two sessions writing to one target, one  *)
(* with a second turn, a reworded request, a claimed key and a claimed     *)
(* action id; openings with the grant in force, after its revocation, and  *)
(* with the target redefined.                                              *)
EXTENDS ToolAction

CONSTANTS one, two, three, x1, x2, x3, k1, k2, k3, s1, s2, t, g

\* A write that asks for a readback.
Write(id, action, key, session, value, mode) ==
    [id |-> id, action |-> action, key |-> key, session |-> session, turn |-> 1,
     tier |-> "write", target |-> t, grant |-> g, value |-> value,
     script |-> "SUCCESS", mode |-> mode]

First    == Write(one, x1, k1, s1, 1, "VERIFY")
Reworded == [First EXCEPT !.key = k2, !.value = 2]
Second   == Write(two, x2, k2, s2, 2, "MISMATCH")
StolenKey == [Second EXCEPT !.id = three, !.action = x3, !.key = k1, !.tier = "read"]
StolenAction == [Second EXCEPT !.action = x1]
NextTurn(q, tier, script) ==
    [q EXCEPT !.id = three, !.action = x3, !.key = k3, !.turn = 2, !.tier = tier,
              !.script = script]

Opening(fixture, grant) ==
    [fixture |-> [y \in {t} |-> fixture], grant |-> [y \in {g} |-> grant]]

\* In force, revoked, redefined and narrowed, and a front end with no tools.
MCWorlds == {Opening(1, {"read", "write"}), Opening(1, {}), Opening(2, {"write"}),
             Opening(None, {})}

\* A second turn of the first session, in one of its wordings.
MCRequests == {First, Reworded, Second, StolenKey, StolenAction,
               NextTurn(First, "read", "PARTIAL"), NextTurn(First, "pure", "FAILED"),
               NextTurn(First, "human", "SUCCESS"), NextTurn(First, "closed", "SUCCESS")}

\* Two turns of a session, and another session that claims the first's key.
LiveRequests == {First, NextTurn(First, "read", "UNKNOWN"), [StolenKey EXCEPT !.id = two]}
=============================================================================
