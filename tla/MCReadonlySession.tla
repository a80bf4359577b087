------------------------- MODULE MCReadonlySession --------------------------
(* Small instances of ReadonlySession: two digests under one package key,    *)
(* the second of which expires first, two epochs of one grant, the later of  *)
(* which does not show answers, and the turns of a session over either.      *)
EXTENDS ReadonlySession

P == [key |-> "k", digest |-> "p", task |-> "task", from |-> 1, until |-> 3, fresh |-> 3]
Q == [P EXCEPT !.digest = "q", !.fresh = 2]
MCPackages == {P, Q}

Grant(id, package, epoch, revoked, ops, from, until) ==
    [id |-> id, package |-> package, epoch |-> epoch, revoked |-> revoked, ops |-> ops,
     from |-> from, until |-> until]

Early == Grant("g", P, 1, FALSE, Ops, 1, 3)
Later == Grant("g", P, 2, FALSE, Ops \ {"ro_observe"}, 1, 2)
Gone  == Grant("g", P, 3, TRUE, Ops, 1, 3)
Other == Grant("h", Q, 1, FALSE, Ops, 1, 3)
MCGrants == {Early, Later, Gone, Other}
MCOffers == {{Early}, {Later}, {Other, Gone}, {Early, Later}}

Turn(request, task, no, package) ==
    [request |-> request, task |-> task, session |-> "s", no |-> no, package |-> package]

MCTurns == {Turn("r1", "task", 1, P), Turn("r2", "task", 2, P), Turn("r1", "task", 1, Q),
            Turn("r2", "other", 1, P)}

OneGrant  == {{Early}}
OneTurn   == {Turn("r1", "task", 1, P)}
=============================================================================
