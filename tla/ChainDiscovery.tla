--------------------------- MODULE ChainDiscovery ---------------------------
(***************************************************************************)
(* Event-chain discovery over the clock-event DAG (core/node.cpp and       *)
(* core/validate/chain.cpp).  The originator floods a request towards the  *)
(* creator of an event; the creator seeds the enclosing chain              *)
(*    lower_bound . event . upper_bound                                    *)
(* and the response retraces the request's breadcrumb, every node on it    *)
(* splicing its own clock events on both ends; at home the chain is        *)
(* completed, validated and compared with others.                          *)
(*                                                                         *)
(* The DAG keeps growing, being pruned, crashing and restarting meanwhile: *)
(* the next-state relation is LotiDag's together with the discovery steps. *)
(***************************************************************************)
EXTENDS LotiDag, Sequences

CONSTANTS
    HopLimit,    \* discovery_hop_limit, 0 is no limit
    ForwardCap,  \* discovery_forward_cap, 0 is no cap
    MaxStarts    \* bound on the discoveries ever started

ASSUME DiscoveryAssumption == HopLimit \in Nat /\ ForwardCap \in Nat /\ MaxStarts \in Nat

(***************************************************************************)
(* EventChain.  The deque lower_bound is pushed at its front only with what *)
(* its front references, upper_bound at its back only with what references  *)
(* its back, so both are in birth order: a chain is the SETS of its lower   *)
(* and upper links with the two end points the code works at.               *)
(***************************************************************************)
EventChain == [event : Hash, lower : SUBSET Hash, front : Hash,
               upper : SUBSET Hash, back : Hash]

Request == [from : Nodes, to : Nodes, originator : Nodes, event : Hash,
            path : Seq(Nodes)]
Response == [from : Nodes, to : Nodes, originator : Nodes, chain : EventChain,
             path : Seq(Nodes)]

VARIABLES
    requests,   \* ChainRequest datagrams sent; may be lost, repeated, reordered
    responses,  \* ChainResponse datagrams sent; likewise
    seen,       \* seen[n][<<originator, e>>]: forwards counted in flood_seen_
    open,       \* open[n]: events whose chain discovery is in progress on n
    failed,     \* failed[n]: events whose chain discovery was aborted on n
    proved,     \* proved[n]: the chains of the completed discoveries of n
    starts      \* discoveries started so far

discVars == <<requests, responses, seen, open, failed, proved, starts>>
vars == <<dagVars, discVars>>

Settled(n) == failed[n] \cup {ch.event : ch \in proved[n]}
Forwards(n, o, e) == IF <<o, e>> \in DOMAIN seen[n] THEN seen[n][<<o, e>>] ELSE 0

DiscInit ==
    /\ Init
    /\ requests = {}
    /\ responses = {}
    /\ seen = [n \in Nodes |-> [x \in {} |-> 0]]
    /\ open = [n \in Nodes |-> {}]
    /\ failed = [n \in Nodes |-> {}]
    /\ proved = [n \in Nodes |-> {}]
    /\ starts = 0

-----------------------------------------------------------------------------
(***************************************************************************)
(* The chain-building primitives.  Each yields the set of resulting chains: *)
(* one chain where the code returns true, none where it returns false.      *)
(***************************************************************************)

\* Faulty variant: the node's current tip instead of the event's anchor.
SeedLowerTip(n, e) == {last[n][0]} \cap live[n]

\* add_local_lower_bound on a chain without lower links: the first anchor of e,
\* in chain order, that is still stored.
SeedLower(n, e) ==
    {event[e][c] : c \in {k \in Chains : /\ event[e][k] \in live[n]
                                         /\ \A j \in 0 .. k - 1 : event[e][j] \notin live[n]}}

\* add_local_upper_bound: the oldest stored clock event referencing x.
FirstReferencing(n, x) ==
    {h \in Referencing(n, x) : \A g \in Referencing(n, x) : Born(h) <= Born(g)}

\* The chain of n's own event e with one clock event of n on each side.
Seed(n, e) ==
    {[event |-> e, lower |-> {l}, front |-> l, upper |-> {u}, back |-> u] :
        l \in SeedLower(n, e), u \in FirstReferencing(n, e)}

\* Faulty variant: the node's current tip instead of what the front references.
SpliceTip(n, ch) ==
    {[event |-> ch.event, lower |-> ch.lower \cup {l}, front |-> l,
      upper |-> ch.upper \cup {u}, back |-> u] :
        l \in {last[n][0]} \cap live[n],
        u \in FirstReferencing(n, ch.back)}

\* add_local_lower_bound and add_local_upper_bound on a chain built elsewhere:
\* n's clock event that the front references, and n's first one referencing the back.
Splice(n, ch) ==
    {[event |-> ch.event, lower |-> ch.lower \cup {l}, front |-> l,
      upper |-> ch.upper \cup {u}, back |-> u] :
        l \in {clock[ch.front].cross[n]} \cap live[n],
        u \in FirstReferencing(n, ch.back)}

\* n's stored clock events of one chain from g to h, a run of prev links.
Run(n, g, h) ==
    {x \in live[n] : /\ clock[x].chain = clock[h].chain
                     /\ Born(g) <= Born(x) /\ Born(x) <= Born(h)}

\* extend_lower_bound_for_neighbor: walk back along the front's chain to the
\* nearest clock event that references neighbour m.
ExtendLower(n, m, ch) ==
    LET linked == {g \in live[n] : /\ clock[g].chain = clock[ch.front].chain
                                   /\ Born(g) <= Born(ch.front)
                                   /\ clock[g].cross[m] # NoHash}
    IN  {[ch EXCEPT !.front = g, !.lower = @ \cup Run(n, g, ch.front)] :
            g \in {x \in linked : \A y \in linked : Born(y) <= Born(x)}}

\* Faulty variant: the clock events walked over replace the links before them.
ExtendUpperReplaced(n, m, ch) ==
    LET linked == {g \in live[n] : /\ clock[g].chain = clock[ch.back].chain
                                   /\ Born(ch.back) <= Born(g)
                                   /\ \E p \in back : p[1] = g /\ Creator(p[2]) = m}
    IN  {[ch EXCEPT !.back = g, !.upper = {g}] :
            g \in {x \in linked : \A y \in linked : Born(x) <= Born(y)}}

\* extend_upper_bound_for_neighbor: walk forward along the back's chain to the
\* nearest clock event that m is known to reference.
ExtendUpper(n, m, ch) ==
    LET linked == {g \in live[n] : /\ clock[g].chain = clock[ch.back].chain
                                   /\ Born(ch.back) <= Born(g)
                                   /\ \E p \in back : p[1] = g /\ Creator(p[2]) = m}
    IN  {[ch EXCEPT !.back = g, !.upper = @ \cup Run(n, ch.back, g)] :
            g \in {x \in linked : \A y \in linked : Born(x) <= Born(y)}}

\* Both walks, for the neighbour that sent the message being processed.
Extend(n, m, ch) == UNION {ExtendUpper(n, m, c1) : c1 \in ExtendLower(n, m, ch)}

\* The references of a link of a chain.
Refs(x) == IF x \in DOMAIN event THEN EventRefs(x) ELSE ClockRefs(clock[x])

Links(ch) == ch.lower \cup {ch.event} \cup ch.upper

\* validate::verify_chain with n as the reference: both ends are n's, every link
\* references the one before it, and the interval is not inverted.
Linked(ch) ==
    \A x \in Links(ch) \ {ch.front} :
        \E y \in Links(ch) : /\ y \in Refs(x)
                             /\ Born(y) < Born(x)
                             /\ \A z \in Links(ch) : Born(z) <= Born(y) \/ Born(z) >= Born(x)

VerifyChain(n, ch) ==
    /\ Creator(ch.front) = n /\ Creator(ch.back) = n
    /\ Linked(ch)
    /\ clock[ch.front].ts <= clock[ch.back].ts
-----------------------------------------------------------------------------
\* flood_chain_request.  The router is a heuristic behind a port: any choice of
\* known neighbours off the breadcrumb, none included, is possible.
Flood(n, o, e, path) ==
    \E hops \in SUBSET {m \in nbrs[n] : \A i \in 1 .. Len(path) : path[i] # m} :
        requests' = requests \cup
            {[from |-> n, to |-> m, originator |-> o, event |-> e,
              path |-> Append(path, n)] : m \in hops}

\* send_chain_response_retrace: one hop back along the breadcrumb.
Retrace(n, o, chains, path) ==
    responses' = responses \cup
        {[from |-> n, to |-> path[Len(path)], originator |-> o, chain |-> ch,
          path |-> SubSeq(path, 1, Len(path) - 1)] :
            ch \in {c \in chains : Len(path) > 0 /\ path[Len(path)] \in nbrs[n]}}

\* The end of a discovery on n: complete_chain_discovery with a built chain that
\* verifies, abort_chain_discovery when building or verifying failed.
Settle(n, e, built) ==
    LET sound == {ch \in built : VerifyChain(n, ch)}
    IN  /\ proved' = [proved EXCEPT ![n] = @ \cup sound]
        /\ failed' = [failed EXCEPT ![n] = @ \cup (IF sound = {} THEN {e} ELSE {})]

\* discover_event_chain for an event nothing is known of yet, as handed over by
\* its publisher out of band: the node's own event is settled at once, ...
DiscoverOwn(n, e) ==
    /\ Creator(e) = n /\ e \notin open[n] \cup Settled(n)
    /\ starts < MaxStarts /\ starts' = starts + 1
    /\ Settle(n, e, Seed(n, e))
    /\ UNCHANGED <<dagVars, requests, responses, seen, open>>

\* ... and a request for another node's event is flooded.
OpenRemote(n, e) ==
    /\ Creator(e) # n /\ e \notin open[n] \cup Settled(n)
    /\ starts < MaxStarts /\ starts' = starts + 1
    /\ open' = [open EXCEPT ![n] = @ \cup {e}]
    /\ UNCHANGED <<dagVars, responses, seen, failed, proved>>

DiscoverRemote(n, e) == OpenRemote(n, e) /\ Flood(n, n, e, <<>>)

\* process_chain_request at the creator: seed, extend for the sender, reflect.
ReflectRequest(n, m) ==
    /\ m.to = n /\ m.from \in nbrs[n] /\ Creator(m.event) = n
    /\ Retrace(n, m.originator,
               UNION {Extend(n, m.from, ch) : ch \in Seed(n, m.event)}, m.path)
    /\ UNCHANGED <<dagVars, requests, seen, open, failed, proved, starts>>

\* Faulty variant: the forward cap is off by one.
AcceptRequestOnceMore(n, m) ==
    /\ m.to = n /\ m.from \in nbrs[n] /\ Creator(m.event) # n
    /\ \A i \in 1 .. Len(m.path) : m.path[i] # n
    /\ HopLimit > 0 => Len(m.path) < HopLimit
    /\ ForwardCap > 0 => Forwards(n, m.originator, m.event) <= ForwardCap
    /\ seen' = [seen EXCEPT ![n] = With(@, <<m.originator, m.event>>,
                                        Forwards(n, m.originator, m.event) + 1)]
    /\ UNCHANGED <<dagVars, responses, open, failed, proved, starts>>

\* process_chain_request elsewhere: forward unless visited, too deep, or enough
\* copies were forwarded already.
AcceptRequest(n, m) ==
    /\ m.to = n /\ m.from \in nbrs[n] /\ Creator(m.event) # n
    /\ \A i \in 1 .. Len(m.path) : m.path[i] # n
    /\ HopLimit > 0 => Len(m.path) < HopLimit
    /\ ForwardCap > 0 => Forwards(n, m.originator, m.event) < ForwardCap
    /\ seen' = IF ForwardCap = 0 THEN seen
               ELSE [seen EXCEPT ![n] = With(@, <<m.originator, m.event>>,
                                             Forwards(n, m.originator, m.event) + 1)]
    /\ UNCHANGED <<dagVars, responses, open, failed, proved, starts>>

ForwardRequest(n, m) == AcceptRequest(n, m) /\ Flood(n, m.originator, m.event, m.path)

\* process_chain_response on the way: splice, extend for the sender, retrace.
ForwardResponse(n, m) ==
    /\ m.to = n /\ m.from \in nbrs[n] /\ m.originator # n
    /\ Retrace(n, m.originator,
               UNION {Extend(n, m.from, ch) : ch \in Splice(n, m.chain)}, m.path)
    /\ UNCHANGED <<dagVars, requests, seen, open, failed, proved, starts>>

\* Faulty variant: the received chain is completed as it came.
CompleteUnspliced(n, m) ==
    /\ m.to = n /\ m.from \in nbrs[n] /\ m.originator = n
    /\ m.chain.event \in open[n]
    /\ open' = [open EXCEPT ![n] = @ \ {m.chain.event}]
    /\ proved' = [proved EXCEPT ![n] = @ \cup {m.chain}]
    /\ UNCHANGED <<dagVars, requests, responses, seen, failed, starts>>

\* process_chain_response at home: only the first response of a discovery that
\* is in progress counts.
CompleteResponse(n, m) ==
    /\ m.to = n /\ m.from \in nbrs[n] /\ m.originator = n
    /\ m.chain.event \in open[n]
    /\ open' = [open EXCEPT ![n] = @ \ {m.chain.event}]
    /\ Settle(n, m.chain.event, Splice(n, m.chain))
    /\ UNCHANGED <<dagVars, requests, responses, seen, starts>>

\* purge_discoveries for one expired discovery, or one expired flood entry.  Which
\* entries a purge finds expired is left open.
PurgeDiscovery(n, e) ==
    /\ e \in open[n] \cup Settled(n)
    /\ open' = [open EXCEPT ![n] = @ \ {e}]
    /\ failed' = [failed EXCEPT ![n] = @ \ {e}]
    /\ proved' = [proved EXCEPT ![n] = {ch \in @ : ch.event # e}]
    /\ UNCHANGED <<dagVars, requests, responses, seen, starts>>

PurgeSeen(n, k) ==
    /\ seen' = [seen EXCEPT ![n] = [x \in DOMAIN @ \ {k} |-> @[x]]]
    /\ UNCHANGED <<dagVars, requests, responses, open, failed, proved, starts>>

\* Discoveries and the flood table live in RAM only: a crash forgets them.
Forget(n) ==
    /\ seen' = [seen EXCEPT ![n] = [x \in {} |-> 0]]
    /\ open' = [open EXCEPT ![n] = {}]
    /\ failed' = [failed EXCEPT ![n] = {}]
    /\ proved' = [proved EXCEPT ![n] = {}]
    /\ UNCHANGED <<requests, responses, starts>>

\* The steps that route nothing.
LocalStep(n) ==
    \/ DagStep(n) /\ UNCHANGED discVars
    \/ DagCrash(n) /\ Forget(n)
    \/ \E e \in DOMAIN event : DiscoverOwn(n, e)
    \/ \E m \in requests : ReflectRequest(n, m)
    \/ \E m \in responses : ForwardResponse(n, m)
    \/ \E m \in responses : CompleteResponse(n, m)
    \/ \E e \in DOMAIN event : PurgeDiscovery(n, e)
    \/ \E k \in DOMAIN seen[n] : PurgeSeen(n, k)

DiscNext ==
    \E n \in Nodes :
        \/ LocalStep(n)
        \/ \E e \in DOMAIN event : DiscoverRemote(n, e)
        \/ \E m \in requests : ForwardRequest(n, m)

DiscSpec == DiscInit /\ [][DiscNext]_vars

-----------------------------------------------------------------------------
\* Type correctness of the discovery state and of the datagrams in flight.
DiscTypeOK ==
    /\ requests \subseteq Request
    /\ responses \subseteq Response
    /\ seen = [n \in Nodes |-> seen[n]]
    /\ \A n \in Nodes : /\ DOMAIN seen[n] \subseteq Nodes \X Hash
                        /\ seen[n] \in [DOMAIN seen[n] -> Nat]
    /\ open \in [Nodes -> SUBSET Hash]
    /\ failed \in [Nodes -> SUBSET Hash]
    /\ proved \in [Nodes -> SUBSET EventChain]
    /\ starts \in Nat

\* ch really encloses its event between two clock events of n: the first was
\* created before the event and the last after it.
Encloses(n, ch) ==
    /\ ch.event \in DOMAIN event
    /\ ch.front \in DOMAIN clock /\ Creator(ch.front) = n
    /\ ch.back \in DOMAIN clock /\ Creator(ch.back) = n
    /\ Born(ch.front) < Born(ch.event) /\ Born(ch.event) < Born(ch.back)

\* A completed discovery encloses the event in real time between two clock events
\* of the discovering node, whatever was pruned, lost, repeated or restarted while
\* the request and the response travelled.
ProvedEnclose == \A n \in Nodes : \A ch \in proved[n] : Encloses(n, ch)

\* Faulty variant: intervals that touch count as ordered.
BeforeOrTouching(x, y) == clock[x.back].ts <= clock[y.front].ts

\* compare_event_chains: x is before y.
Before(x, y) == clock[x.back].ts < clock[y.front].ts

\* While wall clocks do not step back, the order derived from two completed chains
\* of a node is the order in which the events were published.
OrderSound ==
    ~Backward => \A n \in Nodes : \A x, y \in proved[n] :
        Before(x, y) => Born(x.event) < Born(y.event)

\* The same without the assumption on the clock, as insert_clock_event's clamp is
\* said to guarantee ("or a proven interval could invert").
OrderSoundDespiteClock ==
    \A n \in Nodes : \A x, y \in proved[n] :
        Before(x, y) => Born(x.event) < Born(y.event)

\* What honest nodes assemble always verifies: no interleaving of ticks, pruning and
\* crashes with the response's way home makes a seed, a splice or an extension leave
\* a gap or invert the interval, so verify_chain never rejects an honest chain.
HonestChainsVerify ==
    ~Backward =>
        /\ \A e \in DOMAIN event : \A ch \in Seed(Creator(e), e) : VerifyChain(Creator(e), ch)
        /\ \A m \in responses : /\ VerifyChain(m.from, m.chain)
                               /\ \A ch \in Splice(m.to, m.chain) : VerifyChain(m.to, ch)

\* The flood is bounded: a breadcrumb never visits a node twice and never exceeds
\* the hop limit, and no node forwards more copies of a request than the cap.
FloodBounded ==
    /\ \A m \in requests :
          /\ \A i, j \in 1 .. Len(m.path) : m.path[i] = m.path[j] => i = j
          /\ HopLimit > 0 => Len(m.path) <= HopLimit
    /\ ForwardCap > 0 => \A n \in Nodes : \A k \in DOMAIN seen[n] : seen[n][k] <= ForwardCap
-----------------------------------------------------------------------------
(* The inductive invariant behind ProvedEnclose, OrderSound and HonestChainsVerify. *)

\* A request in flight names a published event.
RequestsKnown == \A m \in requests : m.event \in DOMAIN event

\* A response in flight carries a chain that its sender's clock events enclose.
ResponsesEnclose == \A m \in responses : Encloses(m.from, m.chain)

\* ch is a gap-free path: each link is a stored object, lies between the two ends,
\* and references the link before it.
WellLinked(ch) ==
    /\ Links(ch) \subseteq DOMAIN event \cup DOMAIN clock
    /\ ch.front \in ch.lower /\ ch.back \in ch.upper
    /\ \A x \in Links(ch) : Born(ch.front) <= Born(x) /\ Born(x) <= Born(ch.back)
    /\ Linked(ch)

\* A response in flight carries a gap-free path.
ResponsesLinked == \A m \in responses : WellLinked(m.chain)

DiscInv ==
    /\ DagInv
    /\ DiscTypeOK
    /\ RequestsKnown
    /\ ResponsesEnclose /\ ResponsesLinked
    /\ ProvedEnclose
    /\ FloodBounded
=============================================================================
