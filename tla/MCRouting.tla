----------------------------- MODULE MCRouting -----------------------------
(* Instances of Routing for TLC. *)
EXTENDS Routing, MCChainDiscovery

Early == [lo |-> 0, hi |-> 0]
Late == [lo |-> 1, hi |-> 1]
MCRanges == {Early, Late}

None == [x \in {} |-> {}]
Setup(routing, fanout, static, directed) ==
    [n \in Nodes |-> [routing |-> routing, fanout |-> fanout,
                      routes |-> IF n \in DOMAIN static THEN static[n] ELSE None,
                      timed |-> IF n \in DOMAIN directed THEN directed[n] ELSE None]]

\* Instances without tables that change: one range, the static next hops between a and b.
RangesOne == {Early}
SetupsOne == {Setup("static", 0, (a :> (b :> b)) @@ (b :> (a :> a)), None)}
HintsNone == {}

ToC == [validity |-> Early, next_hops |-> {c}]
MCSetups ==
    {Setup("flood", 0, None, None),
     Setup("flood", 1, None, b :> (c :> {ToC})),
     Setup("static", 0, (a :> (c :> b)) @@ (b :> (c :> c)), None)}

\* Routes of a straight to c, which a may get as a neighbour but is not linked to.
MCHints == {[kind |-> "static", node |-> a, dest |-> c, hop |-> c],
            [kind |-> "timed", node |-> a, dest |-> c, hop |-> c, validity |-> Late]}

\* What a policy does not read is not varied: timed routes and ranges with static
\* routing, static routes with flood.
Varied ==
    /\ timed' # timed => policy[a].routing = "flood"
    /\ routes' # routes => policy[a].routing = "static"
    /\ policy[a].routing = "static" => \A x \in DOMAIN window' : window'[x] = Early
=============================================================================
