------------------------------ MODULE Routing ------------------------------
(***************************************************************************)
(* Chain discovery with the forwarding policies of                         *)
(* core/routing/discovery_router.hpp in place of the free choice of hops   *)
(* that ChainDiscovery makes.  A list of candidates has no repetition, and *)
(* its order decides nothing but which of them a sample takes, so lists    *)
(* are sets.                                                               *)
(***************************************************************************)
EXTENDS ChainDiscovery

CONSTANTS
    Ranges,     \* the time ranges clients ask for and routes are valid in, [lo, hi]
    Setups,     \* per node: the policy of its configuration and its tables at start
    Hints,      \* the routes that may be learned later
    MaxLearned  \* bound on those

ASSUME RangesAssumption == \A w \in Ranges : w.lo \in Int /\ w.hi \in Int
ASSUME SetupsAssumption == \A s \in Setups : DOMAIN s = Nodes
ASSUME FloodAssumption ==  \* the limits are those in force: with flood the unset ones got defaults
    (\E s \in Setups : \E n \in Nodes : s[n].routing = "flood") => HopLimit > 0 /\ ForwardCap > 0

VARIABLES
    policy,  \* policy[n]: discovery_routing and discovery_fanout
    routes,  \* routes[n]: destination_to_next_hop_
    timed,   \* timed[n]: timed_routes_, the routes of each destination as a set
    window,  \* window[<<originator, e>>]: the range that request carries
    learned  \* routes learned so far

routeVars == <<policy, routes, timed, window, learned>>
routedVars == <<vars, routeVars>>

InRange(w, t) == w.lo <= t /\ t <= w.hi
Overlaps(v, w) == v.lo <= w.hi /\ w.lo <= v.hi

-----------------------------------------------------------------------------
(* The routers. *)

\* StaticShortestPathRouter: the one next hop, if it is a neighbour.
StaticHops(n, dest) == {routes[n][d] : d \in {dest} \cap DOMAIN routes[n]} \cap nbrs[n]

\* NeighborHistoryRouter: the neighbours referenced by, or recorded as referencing, a
\* stored clock event of the range.
HistoryHops(n, w) ==
    {m \in nbrs[n] \ {n} :
        \E g \in live[n] : /\ InRange(w, clock[g].ts)
                           /\ \/ clock[g].cross[m] # NoHash
                              \/ \E p \in back : p[1] = g /\ Creator(p[2]) = m}

\* The hops of the routes to dest that are valid at some time of w.
Directed(n, dest, w) ==
    UNION {r.next_hops : r \in {r \in UNION {timed[n][d] : d \in {dest} \cap DOMAIN timed[n]} :
                                   Overlaps(r.validity, w)}}

\* Faulty variant: the table is trusted without a look at the history.
TableHopsUnlinked(n, dest, w) ==
    IF Directed(n, dest, w) = {} THEN HistoryHops(n, w) ELSE Directed(n, dest, w)

\* RoutingTableRouter over the history: the directed hops that are cross-linked, or all
\* that are cross-linked.
TableHops(n, dest, w) ==
    LET crosslinked == HistoryHops(n, w)
        directed == Directed(n, dest, w) \cap crosslinked
    IN  IF directed = {} THEN crosslinked ELSE directed

\* ProbabilisticRouter: any k of the candidates.
Sampled(k, cand) ==
    IF k = 0 \/ Cardinality(cand) <= k THEN {cand} ELSE {S \in SUBSET cand : Cardinality(S) = k}

\* The constructor's default for an unset fan-out.
DefaultFanout == 8
Fanout(n) == IF policy[n].fanout = 0 THEN DefaultFanout ELSE policy[n].fanout

\* What next_hops of the router the constructor built may return.
NextHops(n, dest, w) ==
    IF policy[n].routing = "flood" THEN Sampled(Fanout(n), TableHops(n, dest, w))
                                   ELSE {StaticHops(n, dest)}

-----------------------------------------------------------------------------
(* Discovery with these routers. *)

\* Faulty variant: a copy also goes back along the breadcrumb.
RoutedFloodBack(n, o, e, w, path) ==
    \E hops \in NextHops(n, Creator(e), w) :
        requests' = requests \cup
            {[from |-> n, to |-> m, originator |-> o, event |-> e, path |-> Append(path, n)] :
                m \in hops \cap nbrs[n]}

\* flood_chain_request: a copy to every hop that is a neighbour and not on the breadcrumb.
RoutedFlood(n, o, e, w, path) ==
    \E hops \in NextHops(n, Creator(e), w) :
        requests' = requests \cup
            {[from |-> n, to |-> m, originator |-> o, event |-> e, path |-> Append(path, n)] :
                m \in {h \in hops \cap nbrs[n] : h # n /\ \A i \in 1 .. Len(path) : path[i] # h}}

\* discover_event_chain.  A node asks about one event with one range.
RoutedDiscover(n, e, w) ==
    /\ OpenRemote(n, e)
    /\ <<n, e>> \in DOMAIN window => w = window[<<n, e>>]
    /\ window' = With(window, <<n, e>>, w)
    /\ RoutedFlood(n, n, e, w, <<>>)
    /\ UNCHANGED <<policy, routes, timed, learned>>

\* process_chain_request away from the creator.
RoutedForward(n, m) ==
    /\ AcceptRequest(n, m)
    /\ RoutedFlood(n, m.originator, m.event, window[<<m.originator, m.event>>], m.path)
    /\ UNCHANGED routeVars

\* learn_route: the last one for a destination counts.
LearnRoute(h) ==
    /\ h.kind = "static"
    /\ routes' = [routes EXCEPT ![h.node] = With(@, h.dest, h.hop)]
    /\ UNCHANGED timed

\* learn_route_at: one more route for the destination.
LearnRouteAt(h) ==
    /\ h.kind = "timed"
    /\ LET known == UNION {timed[h.node][d] : d \in {h.dest} \cap DOMAIN timed[h.node]}
       IN  timed' = [timed EXCEPT ![h.node] =
                        With(@, h.dest, known \cup {[validity |-> h.validity, next_hops |-> {h.hop}]})]
    /\ UNCHANGED routes

Learn ==
    /\ learned < MaxLearned /\ learned' = learned + 1
    /\ \E h \in Hints : LearnRoute(h) \/ LearnRouteAt(h)
    /\ UNCHANGED <<vars, policy, window>>

RoutedInit ==
    /\ DiscInit
    /\ \E s \in Setups :
          /\ policy = [n \in Nodes |-> [routing |-> s[n].routing, fanout |-> s[n].fanout]]
          /\ routes = [n \in Nodes |-> s[n].routes]
          /\ timed = [n \in Nodes |-> s[n].timed]
    /\ window = [x \in {} |-> {}]
    /\ learned = 0

RoutedNext ==
    \/ \E n \in Nodes :
          \/ DagStep(n) /\ UNCHANGED <<discVars, routeVars>>
          \/ DagCrash(n) /\ Forget(n) /\ UNCHANGED routeVars
          \/ \E e \in DOMAIN event : DiscoverOwn(n, e) /\ UNCHANGED routeVars
          \/ \E m \in requests : ReflectRequest(n, m) /\ UNCHANGED routeVars
          \/ \E m \in responses : ForwardResponse(n, m) /\ UNCHANGED routeVars
          \/ \E m \in responses : CompleteResponse(n, m) /\ UNCHANGED routeVars
          \/ \E e \in DOMAIN event : PurgeDiscovery(n, e) /\ UNCHANGED routeVars
          \/ \E k \in DOMAIN seen[n] : PurgeSeen(n, k) /\ UNCHANGED routeVars
          \/ \E e \in DOMAIN event, w \in Ranges : RoutedDiscover(n, e, w)
          \/ \E m \in requests : RoutedForward(n, m)
    \/ Learn

RoutedSpec == RoutedInit /\ [][RoutedNext]_routedVars

-----------------------------------------------------------------------------
\* "A router may be as heuristic/lossy as it likes" (discovery_router.hpp, file comment):
\* whatever the policies, tables and samples, discovery stays within the free choice of
\* neighbours off the breadcrumb for which its guarantees are shown.
ImplementsDiscovery == DiscSpec

\* A clock event of n of the range w references one of m, or is referenced by it.
Referenced(n, m, w) ==
    \E x, y \in DOMAIN clock :
        /\ Creator(x) = n /\ Creator(y) = m
        /\ InRange(w, clock[x].ts)
        /\ y \in ClockRefs(clock[x]) \/ x \in ClockRefs(clock[y])

\* "Every hop is one this node actually cross-linked with in the window" (RoutingTableRouter):
\* a request flooded from x to y, however old it is by now, goes along a real reference
\* between a clock event of x with a timestamp in the range asked for and one of y.  The
\* table, the fallback and the sample choose from what unreliable notifications taught.
HopsWereLinked ==
    \A m \in requests : policy[m.from].routing = "flood" =>
        Referenced(m.from, m.to, window[<<m.originator, m.event>>])

\* Requests carry the range of the discovery they belong to.
RequestsAsked == \A m \in requests : <<m.originator, m.event>> \in DOMAIN window

\* The inductive invariant behind HopsWereLinked.
RoutedInv == DiscInv /\ RequestsAsked /\ HopsWereLinked
=============================================================================
