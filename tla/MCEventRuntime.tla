-------------------------- MODULE MCEventRuntime ----------------------------
(* Small instances of EventRuntime: an item that is open, done and moved to  *)
(* another parent, one that is optional, and a closure request of each       *)
(* parent, the second with statuses of its own; they share a dedupe key.     *)
EXTENDS EventRuntime, TLC

CONSTANTS r1, r2

Upsert(id, item, parent, status, required) ==
    [id |-> id, kind |-> "agenda_item_upserted", parent |-> parent, item |-> item,
     status |-> status, required |-> required]

Closure(id, parent, children, task) ==
    [id |-> id, kind |-> "parent_closure_requested", parent |-> parent,
     children |-> children, task |-> task]

Done   == Upsert("done", "a", "p", "DONE", 1)
Moved  == Upsert("moved", "a", "q", "OPEN", 1)
Option == Upsert("option", "b", "p", "WAITING", 0)
First  == Closure("first", "p", None, "t1")
Other  == Closure("other", "q", {"DONE"}, "t1")

MCEvents  == {Done, Moved, Option, First, Other}
Symmetry  == Permutations(Runtimes)
FewEvents == {Done, First}
=============================================================================
