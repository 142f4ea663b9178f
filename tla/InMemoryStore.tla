--------------------------- MODULE InMemoryStore ---------------------------
(***************************************************************************)
(* The in-memory implementation of the Store port                          *)
(* (adapters/sim/in_memory_store.hpp) as functions on the record of its    *)
(* containers.  A std::map is a function on its keys, the vector events_ a *)
(* function on 0 .. size - 1, the multimap referencing_ a set of pairs     *)
(* <<hash, seq>> (no clock event references a hash twice), and a deque of  *)
(* ascending sequence numbers the set of them.                             *)
(***************************************************************************)
EXTENDS Naturals, FiniteSets, Sequences

Put(f, k, v) == [x \in DOMAIN f \cup {k} |-> IF x = k THEN v ELSE f[x]]
Emplace(f, k, v) == IF k \in DOMAIN f THEN f ELSE Put(f, k, v)
Without(f, S) == [x \in DOMAIN f \ S |-> f[x]]

\* The hashes a record commits to.
Refs(r) == {r.refs[i].hash : i \in DOMAIN r.refs}

\* Of a ring, the entries that have at least `keep` newer ones.
Oldest(ring, keep) == {s \in ring : Cardinality({t \in ring : t > s}) >= keep}

Nothing == [x \in {} |-> 0]

\* The containers after construction and after clear.
EmptyMem ==
    [events |-> Nothing, event_seq |-> Nothing, clocks |-> Nothing, clock_seq |-> Nothing,
     next_clock |-> 0, referencing |-> {}, tip |-> Nothing, ring |-> Nothing,
     neighbors |-> Nothing, routes |-> Nothing, timed |-> Nothing]

-----------------------------------------------------------------------------
(* The writes of the port. *)

AppendEvent(m, e) ==
    LET seq == Cardinality(DOMAIN m.events)
    IN  [m EXCEPT !.events = Put(@, seq, e), !.event_seq = Emplace(@, e.hash, seq)]

AppendClockEvent(m, c) ==
    LET seq  == m.next_clock
        ring == IF c.chain \in DOMAIN m.ring THEN m.ring[c.chain] ELSE {}
    IN  [m EXCEPT !.next_clock = seq + 1,
                  !.clock_seq = Emplace(@, c.hash, seq),
                  !.referencing = @ \cup (Refs(c) \X {seq}),
                  !.tip = Put(@, c.chain, seq),
                  !.ring = Put(@, c.chain, ring \cup {seq}),
                  !.clocks = Emplace(@, seq, c)]

UpdateClockEvent(m, c) ==
    IF c.hash \in DOMAIN m.clock_seq
    THEN [m EXCEPT !.clocks = Put(@, m.clock_seq[c.hash], c)]
    ELSE m

PruneChain(m, chain, keep) ==
    IF chain \notin DOMAIN m.ring \/ keep = 0 THEN m
    ELSE LET old  == Oldest(m.ring[chain], keep)
             gone == old \cap DOMAIN m.clocks
         IN  [m EXCEPT
                !.ring = Put(@, chain, m.ring[chain] \ old),
                !.clock_seq = Without(@, {m.clocks[s].hash : s \in gone}),
                !.referencing = {p \in @ : ~(p[2] \in gone /\ p[1] \in Refs(m.clocks[p[2]]))},
                !.clocks = Without(@, gone)]

\* A call of the port, by name.
Apply(m, o) ==
    CASE o.name = "append_event"       -> AppendEvent(m, o.rec)
      [] o.name = "append_clock_event" -> AppendClockEvent(m, o.rec)
      [] o.name = "update_clock_event" -> UpdateClockEvent(m, o.rec)
      [] o.name = "prune_chain"        -> PruneChain(m, o.chain, o.keep)
      [] o.name = "put_neighbor"       -> [m EXCEPT !.neighbors = Put(@, o.id, o.rec)]
      [] o.name = "put_route"          -> [m EXCEPT !.routes = Put(@, o.id, o.rec)]
      [] o.name = "put_timed_routes"   -> [m EXCEPT !.timed = o.rec]
      [] o.name = "clear"              -> EmptyMem

-----------------------------------------------------------------------------
(* The reads of the port that go through an index. *)

ClockEventsReferencing(m, h) == {s \in DOMAIN m.clocks : <<h, s>> \in m.referencing}
=============================================================================
