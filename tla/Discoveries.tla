---------------------------- MODULE Discoveries ----------------------------
(***************************************************************************)
(* The discovery bookkeeping of one node (core/node.cpp): chain, bounds and *)
(* order discoveries coalesce requests, the node itself is registered as a  *)
(* callback of the chain discoveries that bounds and order discoveries      *)
(* need, and a periodic purge expires entries by their start time.          *)
(*                                                                          *)
(* Whether a chain can be built and verified is ChainDiscovery's subject:   *)
(* here a chain discovery may complete or abort.  Every handler runs to its *)
(* end on the reactor thread; handlers are written as functions of a record *)
(* S of the bookkeeping state, which they thread through the calls they     *)
(* make.  Asserts are compiled out in a release build, so a failed assert   *)
(* is recorded in `sound` and execution goes on.                            *)
(***************************************************************************)
EXTENDS Integers

CONSTANTS
    Events,   \* the events asked about
    Own,      \* those this node created: their chain discovery settles at once
    Asks,     \* the client requests, each issued at most once
    Expiry,   \* discovery_expiry
    MaxTime,  \* bound on the wall clock
    MaxBack   \* bound on the number of times the wall clock is stepped back

ASSUME EventsAssumption == Own \subseteq Events
ASSUME AsksAssumption ==
    \A r \in Asks : \/ r.kind \in {"chain", "bounds"} /\ r.key \in Events
                    \/ r.kind = "order" /\ r.key \in Events \X Events
ASSUME TimesAssumption == Expiry \in Nat /\ MaxTime \in Nat /\ MaxBack \in Nat

VARIABLES
    chain,   \* chain_discoveries_: a function on the events with an entry
    bounds,  \* bounds_discoveries_
    order,   \* order_discoveries_: a function on the pairs with an entry
    told,    \* told[r]: how often r's callback was told each outcome
    sound,   \* no assert on a discovery's state has failed
    asked,   \* requests issued
    now,     \* wall clock
    steps    \* times the wall clock was stepped back

vars == <<chain, bounds, order, told, sound, asked, now, steps>>

States == {"in_progress", "completed", "aborted"}

\* An entry's callbacks: how often the node itself, and which client requests.
Entry == [state : States, start : Nat, node : Nat, clients : SUBSET Asks]

S == [chain |-> chain, bounds |-> bounds, order |-> order, told |-> told, sound |-> sound]

Becomes(s) ==
    /\ chain' = s.chain /\ bounds' = s.bounds /\ order' = s.order
    /\ told' = s.told /\ sound' = s.sound

With(f, x, v) == [y \in DOMAIN f \cup {x} |-> IF y = x THEN v ELSE f[y]]
Without(f, X) == [y \in DOMAIN f \ X |-> f[y]]
Registered(tbl, r) == r.key \in DOMAIN tbl /\ r \in tbl[r.key].clients

Init ==
    /\ chain = [e \in {} |-> {}] /\ bounds = chain /\ order = chain
    /\ told = [r \in Asks |-> [completed |-> 0, aborted |-> 0]]
    /\ sound = TRUE
    /\ asked = {} /\ now = 0 /\ steps = 0

-----------------------------------------------------------------------------
\* The entries X of a table settled as out, and their clients told so.
Settle(tbl, X, out) ==
    [x \in DOMAIN tbl |-> IF x \in X THEN [tbl[x] EXCEPT !.state = out] ELSE tbl[x]]
Counted(c, out, k) == [c EXCEPT ![out] = @ + k]
Tell(t, tbl, X, out) ==
    [r \in Asks |-> IF Registered(tbl, r) /\ r.key \in X THEN Counted(t[r], out, 1) ELSE t[r]]
InProgress(tbl, x) == x \in DOMAIN tbl /\ tbl[x].state = "in_progress"

\* abort_bounds_discovery, called k[e] > 0 times for the events e of X.
AbortBounds(s, X, k) ==
    [s EXCEPT
        !.bounds = Settle(@, X, "aborted"),
        !.told = [r \in Asks |-> IF Registered(s.bounds, r) /\ r.key \in X
                                 THEN Counted(@[r], "aborted", k[r.key]) ELSE @[r]],
        !.sound = @ /\ \A e \in X : k[e] = 1 /\ InProgress(s.bounds, e)]

\* Faulty variant: the bounds discovery of the event is forgotten.
OnChainAbortedOrdersOnly(s, k) ==
    LET orders == {p \in DOMAIN s.order : /\ InProgress(s.order, p)
                                          /\ k[p[1]] + k[p[2]] > 0}
    IN  [s EXCEPT !.order = Settle(@, orders, "aborted"),
                  !.told = Tell(@, s.order, orders, "aborted")]

\* Node::on_chain_aborted, called k[e] times for every event e.  A bounds entry is
\* aborted whatever its state; an order entry only while in progress.
OnChainAborted(s, k) ==
    LET orders == {p \in DOMAIN s.order : /\ InProgress(s.order, p)
                                          /\ k[p[1]] + k[p[2]] > 0}
        s1 == AbortBounds(s, {e \in DOMAIN s.bounds : k[e] > 0}, k)
    IN  [s1 EXCEPT !.order = Settle(@, orders, "aborted"),
                   !.told = Tell(@, s.order, orders, "aborted")]

\* Node::on_chain_completed for event e.
OnChainCompleted(s, e) ==
    LET Done(f) == f \in DOMAIN s.chain /\ s.chain[f].state = "completed"
        bs == {b \in {e} : InProgress(s.bounds, b)}
        orders == {p \in DOMAIN s.order :
                      /\ InProgress(s.order, p)
                      /\ (p[1] = e /\ Done(p[2])) \/ (p[2] = e /\ p[1] # e /\ Done(p[1]))}
    IN  [s EXCEPT !.bounds = Settle(@, bs, "completed"),
                  !.order = Settle(@, orders, "completed"),
                  !.told = Tell(Tell(@, s.bounds, bs, "completed"), s.order, orders, "completed")]

\* abort_chain_discovery for every event of X, all in progress.
AbortChains(s, X) ==
    OnChainAborted([s EXCEPT !.chain = Settle(@, X, "aborted"),
                             !.told = Tell(@, s.chain, X, "aborted")],
                   [e \in Events |-> IF e \in X THEN s.chain[e].node ELSE 0])

\* complete_chain_discovery of a chain that verified.
CompleteChain(s, e) ==
    LET s1 == [s EXCEPT !.chain = Settle(@, {e}, "completed"),
                        !.told = Tell(@, s.chain, {e}, "completed")]
    IN  IF s.chain[e].node > 0 THEN OnChainCompleted(s1, e) ELSE s1

\* Faulty variant: the expiry is subtracted when the entry is made.
NewEntryExpired(node, clients) ==
    [state |-> "in_progress", start |-> now - Expiry, node |-> node, clients |-> clients]

\* insert_chain_discovery, insert_bounds_discovery, insert_order_discovery.
NewEntry(node, clients) ==
    [state |-> "in_progress", start |-> now, node |-> node, clients |-> clients]

\* One more callback on an entry.
Join(entry, node, clients) ==
    [state |-> entry.state, start |-> entry.start,
     node |-> entry.node + node, clients |-> entry.clients \cup clients]

\* discover_event_chain with the node's own callback, or with client request r:
\* the set of possible results.
DiscoverChain(s, e, node, clients) ==
    LET Joined == [s EXCEPT !.chain[e] = Join(@, node, clients)]
        Answer(out) == [s EXCEPT !.told = [r \in Asks |->
                          IF r \in clients THEN Counted(@[r], out, 1) ELSE @[r]]]
        fresh == [s EXCEPT !.chain = With(@, e, NewEntry(node, clients))]
    IN  CASE e \notin DOMAIN s.chain /\ e \in Own -> {CompleteChain(fresh, e), AbortChains(fresh, {e})}
          [] e \notin DOMAIN s.chain /\ e \notin Own -> {fresh}
          [] InProgress(s.chain, e) -> {Joined}
          [] OTHER ->
               {IF node = 0 THEN Answer(s.chain[e].state)
                ELSE IF s.chain[e].state = "completed" THEN OnChainCompleted(s, e)
                ELSE OnChainAborted(s, [f \in Events |-> IF f = e THEN 1 ELSE 0])}

\* The coalescing that discover_event_bounds and discover_event_order start with.
Coalesce(tbl, r) ==
    IF tbl[r.key].state = "in_progress"
    THEN [tbl EXCEPT ![r.key] = Join(@, 0, {r})] ELSE tbl
CoalesceTold(tbl, r) ==
    IF tbl[r.key].state = "in_progress" THEN told
    ELSE [told EXCEPT ![r] = Counted(@, tbl[r.key].state, 1)]
-----------------------------------------------------------------------------
\* A request is issued early enough to expire before the bound on time.
Ask(r) == r \notin asked /\ now + Expiry < MaxTime /\ asked' = asked \cup {r}

AskChain(r) ==
    /\ r.kind = "chain" /\ Ask(r)
    /\ \E s \in DiscoverChain(S, r.key, 0, {r}) : Becomes(s)
    /\ UNCHANGED <<now, steps>>

\* discover_event_bounds
AskBounds(r) ==
    /\ r.kind = "bounds" /\ Ask(r)
    /\ IF r.key \in DOMAIN bounds
       THEN Becomes([S EXCEPT !.bounds = Coalesce(@, r), !.told = CoalesceTold(bounds, r)])
       ELSE \E s \in DiscoverChain([S EXCEPT !.bounds = With(@, r.key, NewEntry(0, {r}))],
                                   r.key, 1, {}) : Becomes(s)
    /\ UNCHANGED <<now, steps>>

\* discover_event_order: two chain discoveries, one after the other
AskOrder(r) ==
    /\ r.kind = "order" /\ Ask(r)
    /\ IF r.key \in DOMAIN order
       THEN Becomes([S EXCEPT !.order = Coalesce(@, r), !.told = CoalesceTold(order, r)])
       ELSE \E s1 \in DiscoverChain([S EXCEPT !.order = With(@, r.key, NewEntry(0, {r}))],
                                    r.key[1], 1, {}) :
              \E s2 \in DiscoverChain(s1, r.key[2], 1, {}) : Becomes(s2)
    /\ UNCHANGED <<now, steps>>

\* process_chain_response at home: a late or repeated response finds no discovery
\* in progress and does nothing.
Respond(e) ==
    /\ InProgress(chain, e)
    /\ Becomes(CompleteChain(S, e)) \/ Becomes(AbortChains(S, {e}))
    /\ UNCHANGED <<asked, now, steps>>

\* purge_discoveries: one pass over the three tables, in this order.
Expired(tbl) == {x \in DOMAIN tbl : tbl[x].start < now - Expiry}

PurgedChains(s) ==
    [AbortChains(s, {e \in Expired(s.chain) : InProgress(s.chain, e)})
        EXCEPT !.chain = Without(@, Expired(s.chain))]
PurgedBounds(s) ==
    [AbortBounds(s, {e \in Expired(s.bounds) : InProgress(s.bounds, e)}, [e \in Events |-> 1])
        EXCEPT !.bounds = Without(@, Expired(s.bounds))]

\* Faulty variants: settled entries are aborted again; entries go without a word.
PurgedOrdersAgain(s) ==
    [s EXCEPT !.order = Without(@, Expired(@)),
              !.told = Tell(@, s.order, Expired(s.order), "aborted")]
PurgedOrdersSilently(s) == [s EXCEPT !.order = Without(@, Expired(@))]

PurgedOrders(s) ==
    [s EXCEPT !.order = Without(@, Expired(@)),
              !.told = Tell(@, s.order,
                            {p \in Expired(s.order) : InProgress(s.order, p)}, "aborted")]

Purge ==
    /\ \E s1 \in {PurgedChains(S)} : \E s2 \in {PurgedBounds(s1)} : Becomes(PurgedOrders(s2))
    /\ UNCHANGED <<asked, now, steps>>

\* The wall clock, which the start times and the purge's limit are read from.
Advance == now < MaxTime /\ now' = now + 1 /\ UNCHANGED <<chain, bounds, order, told, sound, asked, steps>>

StepBack ==
    /\ steps < MaxBack /\ steps' = steps + 1
    /\ \E t \in 0 .. now - 1 : now' = t
    /\ UNCHANGED <<chain, bounds, order, told, sound, asked>>

Next ==
    \/ \E r \in Asks : AskChain(r) \/ AskBounds(r) \/ AskOrder(r)
    \/ \E e \in Events : Respond(e)
    \/ Purge
    \/ Advance
    \/ StepBack

\* Time passes and the purge timer keeps being re-armed; a response may never come.
Spec == Init /\ [][Next]_vars /\ WF_vars(Advance) /\ WF_vars(Purge)

-----------------------------------------------------------------------------
\* Type correctness of the three tables and of what clients were told.
TypeOK ==
    /\ DOMAIN chain \subseteq Events /\ chain \in [DOMAIN chain -> Entry]
    /\ DOMAIN bounds \subseteq Events /\ bounds \in [DOMAIN bounds -> Entry]
    /\ DOMAIN order \subseteq Events \X Events /\ order \in [DOMAIN order -> Entry]
    /\ told \in [Asks -> [completed : Nat, aborted : Nat]]
    /\ sound \in BOOLEAN
    /\ asked \subseteq Asks
    /\ now \in Nat /\ steps \in Nat

\* A chain or order request is answered at most once, however it was coalesced,
\* expired or restarted (abort_*_discovery and complete_*_discovery).
AnsweredOnce ==
    \A r \in Asks : r.kind # "bounds" => told[r].completed + told[r].aborted <= 1

\* A bounds discovery in progress always has a chain discovery in progress that
\* will tell the node how it ended: no step leaves it waiting for nothing.
BoundsDriven ==
    \A e \in DOMAIN bounds : InProgress(bounds, e) =>
        InProgress(chain, e) /\ chain[e].node > 0

\* A request is never lost: again and again every client that asked has been told
\* an outcome, if only because the discovery expired (purge_discoveries).
EveryAskAnswered ==
    []<>(\A r \in asked : told[r].completed + told[r].aborted > 0)

\* The asserts on the state of a discovery that is aborted or completed hold
\* ("assert(d.state == DiscoveryState::in_progress)").
AssertsHold == sound
=============================================================================
