------------------------------ MODULE MCLotid ------------------------------
(***************************************************************************)
(* The daemon with one event of its own, "own", and one of a peer, "far".  *)
(***************************************************************************)
EXTENDS Lotid, TLC

Ask(kind, key) == [kind |-> kind, key |-> key]

Status == Ask("status", <<>>)
Quit == Ask("quit", <<>>)
Bounds(e) == Ask("bounds", <<e>>)
Chain(e) == Ask("chain", <<e>>)
Prove(e) == Ask("prove", <<e>>)
Order(a, b) == Ask("order", <<a, b>>)
ProveOrder(a, b) == Ask("prove_order", <<a, b>>)

MCOwn == {<<"own">>}
MCTimers == {"clock", "purge", "sync"}
MCMayFail == {"clock", "sync"}

Menu(clients, requests, stdin, failing) ==
    [clients |-> clients, requests |-> requests, stdin |-> stdin, failing |-> failing]

Two == CHOOSE S \in SUBSET Clients : Cardinality(S) = 2

MCMenus ==
    {Menu(Clients, {Bounds("far")}, FALSE, FALSE),
     Menu(Two, {Bounds("far")}, TRUE, FALSE),
     Menu(Two, {Bounds("own"), Quit, Status}, FALSE, TRUE),
     Menu(Two, {Chain("far"), Prove("far")}, FALSE, FALSE),
     Menu(Two, {Order("own", "far")}, FALSE, FALSE),
     Menu(Two, {ProveOrder("own", "far")}, FALSE, FALSE),
     Menu(Two, {ProveOrder("far", "near")}, FALSE, FALSE)}

MCRequests == UNION {m.requests : m \in MCMenus}
=============================================================================
