------------------------------ MODULE LotiDag ------------------------------
(***************************************************************************)
(* The growth of the clock-event DAG (core/node.cpp over the Store port):  *)
(* every node publishes events, ticks its multi-resolution clock chains,   *)
(* prunes them, tells its neighbours about each tick over UDP, and may     *)
(* crash and rehydrate its working state from the store at any time.       *)
(*                                                                         *)
(* A hash is collision free and hides its preimage, so it is modelled by   *)
(* the identity <<creator, birth>> of the object it names; birth numbers   *)
(* all objects of the network in creation order.  No action looks at the   *)
(* order of two births except where the code compares store sequence       *)
(* numbers, which grow in the same order on one node.                      *)
(***************************************************************************)
EXTENDS Integers, FiniteSets

CONSTANTS
    Nodes,      \* node identities
    Peers,      \* Peers[n]: the neighbours n is configured with at start-up
    NumChains,  \* clock chains per node, chain 0 ticks fastest
    Keep,       \* Keep[c]: retention of chain c, 0 keeps everything
    Backward,   \* TRUE iff a wall clock may be stepped back
    NoHash,     \* the empty hash
    MaxTime,    \* bound on wall-clock readings
    MaxBirths   \* bound on the objects ever created

Chains == 0 .. NumChains - 1

ASSUME PeersAssumption ==
    Peers \in [Nodes -> SUBSET Nodes] /\ \A n \in Nodes : n \notin Peers[n]
ASSUME ChainsAssumption == NumChains \in Nat \ {0} /\ Keep \in [Chains -> Nat]
ASSUME BoundsAssumption == MaxTime \in Nat /\ MaxBirths \in Nat
ASSUME BackwardAssumption == Backward \in BOOLEAN

Hash == Nodes \X (Nat \ {0})
ASSUME NoHashAssumption == NoHash \notin Hash
OptHash == Hash \cup {NoHash}

Creator(h) == h[1]
Born(h) == h[2]

\* What a clock event commits to.  Its referenced_events are the same-chain
\* predecessor, one matched-resolution tip per neighbour, and pinned events.
ClockEvent == [chain : Chains, ts : Nat, prev : OptHash,
               cross : [Nodes -> OptHash], pins : SUBSET Hash]

\* wire::ClockNotification, with the sender of the header and the addressee.
Notification == [from : Nodes, to : Nodes, chain : Chains,
                 tip : Hash, their : OptHash]

VARIABLES
    births,  \* objects created so far
    now,     \* now[n]: reading of n's wall clock
    event,   \* content of every event ever published: its anchor per chain
    clock,   \* content of every clock event ever created
    live,    \* live[n]: the clock events in n's store
    last,    \* last[n][c]: n's newest chain-c clock event
    tail,    \* tail[n][c]: n's events not yet pinned by chain c (RAM only)
    nbrs,    \* nbrs[n]: the neighbours n knows
    tip,     \* tip[n][m][c]: the chain-c tip of m that n last heard of
    back,    \* learned reverse edges <<h, g>>: g is recorded as referencing h
    notes    \* notifications sent; UDP may lose, repeat or reorder them

dagVars == <<births, now, event, clock, live, last, tail, nbrs, tip, back, notes>>

-----------------------------------------------------------------------------
\* The function f with x (not in its domain) mapped to v.
With(f, x, v) == [y \in DOMAIN f \cup {x} |-> IF y = x THEN v ELSE f[y]]

\* The hashes in a clock event's referenced_events.
ClockRefs(r) == (({r.prev} \cup {r.cross[m] : m \in Nodes}) \ {NoHash}) \cup r.pins

\* The hashes in an event's referenced_events.
EventRefs(e) == {event[e][c] : c \in Chains} \ {NoHash}

EventsOf(n) == {e \in DOMAIN event : Creator(e) = n}

\* Store::clock_events_referencing on node n.
Referencing(n, x) == {h \in live[n] : x \in ClockRefs(clock[h])}

\* Faulty variant: the ring drops its newest members instead of its oldest.
PrunedNewest(S, ck, c, k) ==
    IF k = 0 THEN S
    ELSE {h \in S : \/ ck[h].chain # c
                    \/ ~\E N \in SUBSET {g \in S : ck[g].chain = c /\ Born(g) < Born(h)} :
                          Cardinality(N) = k}

\* Store::prune_chain: of the clock events S, keep all of the other chains and
\* the newest k of chain c: those with no k newer ones in it.
Pruned(S, ck, c, k) ==
    IF k = 0 THEN S
    ELSE {h \in S : \/ ck[h].chain # c
                    \/ ~\E N \in SUBSET {g \in S : ck[g].chain = c /\ Born(g) > Born(h)} :
                          Cardinality(N) = k}

\* Faulty variants: the scan starts one event below the newest, or takes the referenced event
\* at which it stops.
HydratedSkipsNewest(n, S, ck, c) ==
    {e \in EventsOf(n) :
        /\ \E f \in EventsOf(n) : Born(f) > Born(e)
        /\ \A f \in EventsOf(n) : Born(f) >= Born(e) =>
              ~\E h \in S : ck[h].chain = c /\ f \in ClockRefs(ck[h])}


\* Node::hydrate_working_state for one chain: n's events newer than every one
\* that a clock event of chain c in the store S references.
Hydrated(n, S, ck, c) ==
    {e \in EventsOf(n) :
        \A f \in EventsOf(n) : Born(f) >= Born(e) =>
            ~\E h \in S : ck[h].chain = c /\ f \in ClockRefs(ck[h])}

HydratedTail(n, S, ck) == [c \in Chains |-> Hydrated(n, S, ck, c)]

Init ==
    /\ births = 0
    /\ now = [n \in Nodes |-> 0]
    /\ event = [h \in {} |-> {}]
    /\ clock = [h \in {} |-> {}]
    /\ live = [n \in Nodes |-> {}]
    /\ last = [n \in Nodes |-> [c \in Chains |-> NoHash]]
    /\ tail = [n \in Nodes |-> [c \in Chains |-> {}]]
    /\ nbrs = Peers
    /\ tip = [n \in Nodes |-> [m \in Nodes |-> [c \in Chains |-> NoHash]]]
    /\ back = {}
    /\ notes = {}

-----------------------------------------------------------------------------
\* The Clock port: the wall clock moves on, or is stepped back (NTP, no RTC).
AdvanceClock(n) ==
    /\ now[n] < MaxTime
    /\ now' = [now EXCEPT ![n] = @ + 1]
    /\ UNCHANGED <<births, event, clock, live, last, tail, nbrs, tip, back, notes>>

StepBack(n) ==
    /\ Backward
    /\ \E t \in 0 .. now[n] - 1 : now' = [now EXCEPT ![n] = t]
    /\ UNCHANGED <<births, event, clock, live, last, tail, nbrs, tip, back, notes>>

\* Node::add_neighbor: a known neighbour is left as it is.
AddNeighbor(n, m) ==
    /\ m # n /\ m \notin nbrs[n]
    /\ nbrs' = [nbrs EXCEPT ![n] = @ \cup {m}]
    /\ UNCHANGED <<births, now, event, clock, live, last, tail, tip, back, notes>>

\* Node::insert_event: a new event is anchored in every chain that has ticked.
InsertEvent(n) == event' = With(event, <<n, births + 1>>, last[n])

\* Node::publish_event: the event also waits in every chain's tail for its next tick.
Publish(n) ==
    /\ births < MaxBirths
    /\ births' = births + 1
    /\ InsertEvent(n)
    /\ tail' = [tail EXCEPT ![n] = [c \in Chains |-> @[c] \cup {<<n, births + 1>>}]]
    /\ UNCHANGED <<now, clock, live, last, nbrs, tip, back, notes>>

\* Faulty variants: no clamp, and a clamp that makes a chain strictly increasing.
StampUnclamped(n, c) == now[n]
StampStrict(n, c) ==
    IF last[n][c] # NoHash /\ now[n] <= clock[last[n][c]].ts
    THEN clock[last[n][c]].ts + 1
    ELSE now[n]

\* Node::insert_clock_event: a backward clock is clamped to the chain's tip.
Stamp(n, c) ==
    IF last[n][c] # NoHash /\ now[n] < clock[last[n][c]].ts
    THEN clock[last[n][c]].ts
    ELSE now[n]

\* Faulty variants: the waiting events are not referenced; the tip is moved first.
NewClockEventUnpinned(n, c) ==
    [chain |-> c, ts |-> Stamp(n, c), prev |-> last[n][c],
     cross |-> [m \in Nodes |-> IF m \in nbrs[n] THEN tip[n][m][c] ELSE NoHash],
     pins |-> {}]

NewClockEventTipFirst(n, c) ==
    [chain |-> c, ts |-> Stamp(n, c), prev |-> <<n, births + 1>>,
     cross |-> [m \in Nodes |-> IF m \in nbrs[n] THEN tip[n][m][c] ELSE NoHash],
     pins |-> tail[n][c]]

\* Node::insert_clock_event: what the new chain-c clock event commits to.
NewClockEvent(n, c) ==
    [chain |-> c, ts |-> Stamp(n, c), prev |-> last[n][c],
     cross |-> [m \in Nodes |-> IF m \in nbrs[n] THEN tip[n][m][c] ELSE NoHash],
     pins |-> tail[n][c]]

\* Faulty variant: the chain's tip is not moved.
InsertClockEventStaleTip(n, c, h) ==
    /\ births < MaxBirths
    /\ births' = births + 1
    /\ clock' = With(clock, h, NewClockEvent(n, c))
    /\ UNCHANGED <<now, event, nbrs, tip, last>>

\* The append of the new clock event h, which every variant of a tick does.
InsertClockEvent(n, c, h) ==
    /\ births < MaxBirths
    /\ births' = births + 1
    /\ clock' = With(clock, h, NewClockEvent(n, c))
    /\ last' = [last EXCEPT ![n][c] = h]
    /\ UNCHANGED <<now, event, nbrs, tip>>

\* Node::create_clock_event: append, clear the chain's tail, notify every
\* neighbour, prune the chain to its retention.
CreateClockEvent(n, c) ==
    LET h == <<n, births + 1>>
        kept == Pruned(live[n] \cup {h}, clock', c, Keep[c])
    IN  /\ InsertClockEvent(n, c, h)
        /\ tail' = [tail EXCEPT ![n][c] = {}]
        /\ notes' = notes \cup
             {[from |-> n, to |-> m, chain |-> c, tip |-> h, their |-> tip[n][m][c]]
                : m \in nbrs[n]}
        /\ live' = [live EXCEPT ![n] = kept]
        /\ back' = {p \in back : p[1] \in live[n] => p[1] \in kept}

\* A crash right after the append: nothing was sent or pruned, and the node
\* restarts from the store.
CrashInTick(n, c) ==
    LET h == <<n, births + 1>>
    IN  /\ InsertClockEvent(n, c, h)
        /\ live' = [live EXCEPT ![n] = @ \cup {h}]
        /\ tail' = [tail EXCEPT ![n] = HydratedTail(n, live'[n], clock')]
        /\ UNCHANGED <<back, notes>>

\* A crash between two operations: the tails are rederived from the store.
Restart(n) ==
    /\ tail' = [tail EXCEPT ![n] = HydratedTail(n, live[n], clock)]
    /\ UNCHANGED <<births, now, event, clock, live, last, nbrs, tip, back, notes>>

\* Node::gc: prune every chain to its retention.
Gc(n) ==
    LET kept == {h \in live[n] : h \in Pruned(live[n], clock, clock[h].chain,
                                              Keep[clock[h].chain])}
    IN  /\ live' = [live EXCEPT ![n] = kept]
        /\ back' = {p \in back : p[1] \in live[n] => p[1] \in kept}
        /\ UNCHANGED <<births, now, event, clock, last, tail, nbrs, tip, notes>>

\* Faulty variants: the reverse edge is recorded without looking the clock event up,
\* or on the newest one.
ReceiveUnchecked(n, m) ==
    /\ m.to = n /\ m.from \in nbrs[n]
    /\ tip' = [tip EXCEPT ![n][m.from][m.chain] = m.tip]
    /\ back' = back \cup {<<m.their, m.tip>>}
    /\ UNCHANGED <<births, now, event, clock, live, last, tail, nbrs, notes>>

ReceiveOnNewest(n, m) ==
    /\ m.to = n /\ m.from \in nbrs[n]
    /\ tip' = [tip EXCEPT ![n][m.from][m.chain] = m.tip]
    /\ back' = IF last[n][m.chain] # NoHash
               THEN back \cup {<<last[n][m.chain], m.tip>>} ELSE back
    /\ UNCHANGED <<births, now, event, clock, live, last, tail, nbrs, notes>>

\* Node::process_clock_event_notification.  The tip is overwritten whatever its
\* age; the reverse edge is kept if the referenced clock event is still stored.
LearnTip(n, m) == tip' = [tip EXCEPT ![n][m.from][m.chain] = m.tip]

ReceiveNotification(n, m) ==
    /\ m.to = n /\ m.from \in nbrs[n]
    /\ LearnTip(n, m)
    /\ back' = IF m.their \in live[n] THEN back \cup {<<m.their, m.tip>>} ELSE back
    /\ UNCHANGED <<births, now, event, clock, live, last, tail, nbrs, notes>>

\* A crash between put_neighbor and update_clock_event: the reverse edge is lost.
CrashInReceive(n, m) ==
    /\ m.to = n /\ m.from \in nbrs[n]
    /\ LearnTip(n, m)
    /\ tail' = [tail EXCEPT ![n] = HydratedTail(n, live[n], clock)]
    /\ UNCHANGED <<births, now, event, clock, live, last, nbrs, back, notes>>

\* Everything a node does without crashing.
DagStep(n) ==
    \/ AdvanceClock(n)
    \/ StepBack(n)
    \/ \E m \in Nodes : AddNeighbor(n, m)
    \/ Publish(n)
    \/ \E c \in Chains : CreateClockEvent(n, c)
    \/ Gc(n)
    \/ \E m \in notes : ReceiveNotification(n, m)

DagCrash(n) ==
    \/ \E c \in Chains : CrashInTick(n, c)
    \/ Restart(n)
    \/ \E m \in notes : CrashInReceive(n, m)

Next == \E n \in Nodes : DagStep(n) \/ DagCrash(n)

Spec == Init /\ [][Next]_dagVars
-----------------------------------------------------------------------------
\* Type correctness: what the store and the working state hold are objects of
\* the kinds core/domain/types.hpp declares.
TypeOK ==
    /\ births \in Nat
    /\ now \in [Nodes -> Nat]
    /\ DOMAIN event \subseteq Hash
    /\ event \in [DOMAIN event -> [Chains -> OptHash]]
    /\ DOMAIN clock \subseteq Hash
    /\ clock \in [DOMAIN clock -> ClockEvent]
    /\ live \in [Nodes -> SUBSET Hash]
    /\ last \in [Nodes -> [Chains -> OptHash]]
    /\ tail \in [Nodes -> [Chains -> SUBSET Hash]]
    /\ nbrs \in [Nodes -> SUBSET Nodes]
    /\ tip \in [Nodes -> [Nodes -> [Chains -> OptHash]]]
    /\ back \subseteq Hash \X Hash
    /\ notes \subseteq Notification

\* An existing chain-c clock event of m.
IsClock(h, m, c) == h \in DOMAIN clock /\ Creator(h) = m /\ clock[h].chain = c

\* Every reference an event commits to (insert_event) is an existing clock event
\* of its creator, of the chain of its slot, created earlier.
AnchorsCausal ==
    \A e \in DOMAIN event : \A c \in Chains : event[e][c] # NoHash =>
        IsClock(event[e][c], Creator(e), c) /\ Born(event[e][c]) < Born(e)

\* Every reference a clock event commits to (insert_clock_event) is an existing,
\* earlier object: its own chain's predecessor, a neighbour's clock event of the
\* matched chain, or an event of its creator.  However notifications are lost,
\* repeated or reordered, the graph stays acyclic and matched in resolution.
ClocksCausal ==
    \A h \in DOMAIN clock :
        /\ clock[h].prev # NoHash =>
              /\ IsClock(clock[h].prev, Creator(h), clock[h].chain)
              /\ Born(clock[h].prev) < Born(h)
        /\ \A m \in Nodes : clock[h].cross[m] # NoHash =>
              /\ IsClock(clock[h].cross[m], m, clock[h].chain)
              /\ Born(clock[h].cross[m]) < Born(h)
        /\ \A e \in clock[h].pins :
              e \in DOMAIN event /\ Creator(e) = Creator(h) /\ Born(e) < Born(h)

Causal == AnchorsCausal /\ ClocksCausal

\* The reverse edges learned from unacknowledged notifications
\* (process_clock_event_notification) are never wrong, only missing: an edge
\* <<h, g>> in a node's store means that g really references h.
BackEdgesTruthful ==
    \A p \in back : /\ p[1] \in DOMAIN clock /\ p[2] \in DOMAIN clock
                     /\ clock[p[2]].cross[Creator(p[1])] = p[1]

\* Pruning and crashes leave every chain a gap-free suffix of what was created:
\* whatever is newer than a stored clock event of a chain is stored too
\* (prune_chain drops oldest first and never the tip).
RingsContiguous ==
    \A n \in Nodes : \A h \in live[n] : \A g \in DOMAIN clock :
        IsClock(g, n, clock[h].chain) /\ Born(g) > Born(h) => g \in live[n]

\* e was referenced by some chain-c clock event of its creator.
PinnedBy(e, c) ==
    \E h \in DOMAIN clock : IsClock(h, Creator(e), c) /\ e \in clock[h].pins

\* No event is forgotten: through every crash and rehydration an event is either
\* pinned by chain c or waiting for chain c's next tick.
PinnedOrPending ==
    \A e \in DOMAIN event : \A c \in Chains :
        e \in tail[Creator(e)][c] \/ PinnedBy(e, c)

\* Along one chain timestamps never decrease, even when the wall clock does:
\* the clamp in insert_clock_event.
ChainMonotone ==
    \A h \in DOMAIN clock : clock[h].prev # NoHash =>
        clock[clock[h].prev].ts <= clock[h].ts

\* While wall clocks do not step back, the timestamps of ALL chains of a node
\* follow creation order, which comparing two chains' intervals relies on.
NodeMonotone ==
    ~Backward => \A g, h \in DOMAIN clock :
        Creator(g) = Creator(h) /\ Born(g) <= Born(h) => clock[g].ts <= clock[h].ts

\* e can be enclosed by its creator: some anchor and some pin are stored.
Bounded(e) ==
    /\ EventRefs(e) \cap live[Creator(e)] # {}
    /\ Referencing(Creator(e), e) # {}

\* create_clock_event: "pruning widens an event's bounds to a coarser
\* resolution - it never loses them".
PruningKeepsBounds ==
    [][\A e \in DOMAIN event : Bounded(e) => Bounded(e)']_dagVars


\* An event leaves a chain's tail only in the step that creates the clock event
\* of that chain pinning it: neither a crash inside a tick nor a rehydration
\* (hydrate_working_state) silently takes a waiting event off the tail.
PendingUntilPinned ==
    [][\A e \in DOMAIN event : \A c \in Chains :
          e \in tail[Creator(e)][c] /\ e \notin tail'[Creator(e)][c] =>
             \E h \in DOMAIN clock' \ DOMAIN clock :
                 clock'[h].chain = c /\ e \in clock'[h].pins]_dagVars
-----------------------------------------------------------------------------
(* The inductive invariant behind the safety properties. *)

\* Birth numbers identify objects.
Numbered ==
    /\ \A h \in DOMAIN event \cup DOMAIN clock : Born(h) <= births
    /\ DOMAIN event \cap DOMAIN clock = {}

\* The store's chain tips are the newest clock events of their chains, and stored.
LastNewest ==
    \A n \in Nodes : \A c \in Chains :
        /\ last[n][c] # NoHash => IsClock(last[n][c], n, c) /\ last[n][c] \in live[n]
        /\ \A h \in DOMAIN clock : IsClock(h, n, c) =>
              last[n][c] # NoHash /\ Born(h) <= Born(last[n][c])

\* A node's store and tails hold its own objects.
OwnStore ==
    \A n \in Nodes : /\ \A h \in live[n] : h \in DOMAIN clock /\ Creator(h) = n
                     /\ \A c \in Chains : tail[n][c] \subseteq EventsOf(n)

\* A tip heard of is a clock event of that neighbour and chain.
TipsTruthful ==
    \A n, m \in Nodes : \A c \in Chains :
        tip[n][m][c] # NoHash => IsClock(tip[n][m][c], m, c)

\* A notification says what its clock event references.
NotesTruthful ==
    \A m \in notes : /\ IsClock(m.tip, m.from, m.chain)
                     /\ clock[m.tip].cross[m.to] = m.their

Structure == TypeOK /\ Numbered /\ LastNewest /\ OwnStore /\ TipsTruthful /\ NotesTruthful

\* Chain c pins events in publication order: with an event it has pinned every
\* earlier one of the same node.
PinsPrefix ==
    \A h \in DOMAIN clock : \A e \in clock[h].pins : \A f \in DOMAIN event :
        Creator(f) = Creator(h) /\ Born(f) <= Born(e) => PinnedBy(f, clock[h].chain)

\* What waits for chain c's next tick is newer than everything the stored clock
\* events of chain c pin: the tail is never behind the store it is rederived from.
TailAhead ==
    \A n \in Nodes : \A c \in Chains : \A e \in tail[n][c] : \A h \in live[n] :
        clock[h].chain = c => \A f \in clock[h].pins : Born(f) < Born(e)

\* A clock event's prev link skips nothing: of the clock events its creator made on
\* its chain before it, the predecessor is the newest.
PrevNewest ==
    \A h \in DOMAIN clock : \A g \in DOMAIN clock :
        IsClock(g, Creator(h), clock[h].chain) /\ Born(g) < Born(h) =>
            clock[h].prev # NoHash /\ Born(g) <= Born(clock[h].prev)

\* While the wall clocks do not step back, no timestamp is in the future.
NotInFuture ==
    ~Backward => \A h \in DOMAIN clock : clock[h].ts <= now[Creator(h)]

DagInv ==
    /\ Structure
    /\ Causal
    /\ BackEdgesTruthful
    /\ RingsContiguous
    /\ PinnedOrPending /\ PinsPrefix /\ TailAhead
    /\ PrevNewest
    /\ ChainMonotone
    /\ NotInFuture /\ NodeMonotone
=============================================================================
