-------------------------- MODULE LmdbStoreProofs ---------------------------
(***************************************************************************)
(* What the commit of append_clock_event, update_clock_event and prune_chain *)
(* achieves; the LMDB store keeps its indexes and its RAM state consistent *)
(* through every call, failure and crash, and implements the Store port: for *)
(* every set of records, nodes, chains and retentions, every codec that    *)
(* round-trips, every map size and any number of failures.                 *)
(***************************************************************************)
EXTENDS LmdbTableCalls

\* What appending a clock event does to the index and the reverse edges.
LEMMA AppendedIndex ==
    ASSUME NEW d, ClocksAgree(d), EdgesAgree(d), NEW c, c.hash \notin DOMAIN d.clock_index,
           NEW n, n \notin DOMAIN d.clock_events, NEW e,
           DOMAIN e.clock_events = DOMAIN d.clock_events \cup {n},
           ClockAt(e, n) = c,
           \A s \in DOMAIN d.clock_events : ClockAt(e, s) = ClockAt(d, s),
           e.clock_index = Put(d.clock_index, c.hash, n),
           e.referencing = d.referencing \cup (Refs(c) \X {n})
    PROVE  ClocksAgree(e) /\ EdgesAgree(e)
<1>1. /\ DOMAIN e.clock_index = DOMAIN d.clock_index \cup {c.hash}
      /\ e.clock_index[c.hash] = n
      /\ \A h \in DOMAIN d.clock_index : e.clock_index[h] = d.clock_index[h]
  BY DEF Put
<1>2. e.clock_index = [h \in DOMAIN e.clock_index |-> e.clock_index[h]]
  BY DEF Put
<1>3. \A s \in DOMAIN e.clock_events : /\ ClockAt(e, s).hash \in DOMAIN e.clock_index
                                       /\ e.clock_index[ClockAt(e, s).hash] = s
  BY <1>1 DEF ClocksAgree
<1>4. \A h \in DOMAIN e.clock_index : /\ e.clock_index[h] \in DOMAIN e.clock_events
                                      /\ ClockAt(e, e.clock_index[h]).hash = h
  BY <1>1 DEF ClocksAgree
<1>5. ClocksAgree(e)
  BY <1>2, <1>3, <1>4 DEF ClocksAgree
<1>6. ASSUME NEW s \in DOMAIN e.clock_events
      PROVE  Refs(ClockAt(e, s)) \X {s} \subseteq e.referencing
  <2>1. CASE s = n
    BY <2>1
  <2>2. CASE s \in DOMAIN d.clock_events
    <3>1. Refs(ClockAt(d, s)) \X {s} \subseteq d.referencing
      BY <2>2 DEF EdgesAgree
    <3>2. ClockAt(e, s) = ClockAt(d, s)
      BY <2>2
    <3> QED BY <3>1, <3>2, Zenon
  <2> QED BY <2>1, <2>2
<1>7. ASSUME NEW p \in e.referencing
      PROVE  p[2] \in DOMAIN e.clock_events /\ p[1] \in Refs(ClockAt(e, p[2]))
  <2>1. CASE p \in d.referencing
    BY <2>1 DEF EdgesAgree
  <2>2. CASE p \in Refs(c) \X {n}
    BY <2>2
  <2> QED BY <2>1, <2>2
<1>8. EdgesAgree(e)
  BY <1>6, <1>7 DEF EdgesAgree
<1> QED BY <1>5, <1>8

\* What RAM becomes when one clock event was appended.
LEMMA AdvancedAppend ==
    ASSUME Current, NEW o, o.name = "append_clock_event", NEW c, NEW n, NEW b,
           b.appends = Put(Nothing, c, n)
    PROVE  Advanced(o, b) =
             [next_event |-> b.event_seq, next_clock |-> b.clock_seq,
              tip |-> Put(Seed(disk).tip, c, n),
              ring |-> Put(Seed(disk).ring, c, RingOf(disk, c) \cup {n})]
<1>1. DOMAIN b.appends = {c} /\ b.appends[c] = n
  BY DEF Nothing, Put
<1> DEFINE tip == [k \in DOMAIN ram.tip \cup DOMAIN b.appends |->
                      IF k \in DOMAIN b.appends THEN b.appends[k] ELSE ram.tip[k]]
           ring == [k \in DOMAIN ram.ring \cup DOMAIN b.appends |->
                      (IF k \in DOMAIN ram.ring THEN ram.ring[k] ELSE {})
                        \cup (IF k \in DOMAIN b.appends THEN {b.appends[k]} ELSE {})]
<1>2. /\ ram.tip = Seed(disk).tip
      /\ Seed(disk).ring = [k \in ChainsOf(disk) |-> RingOf(disk, k)]
      /\ ram.ring = Seed(disk).ring
  BY DEF Current, Seed
<1>3. tip = Put(Seed(disk).tip, c, n)
  BY <1>1, <1>2 DEF Put
<1>4. ring = Put(Seed(disk).ring, c, RingOf(disk, c) \cup {n})
  <2>1. DOMAIN ram.ring = ChainsOf(disk)
    BY <1>2
  <2>2. c \notin ChainsOf(disk) => RingOf(disk, c) = {}
    BY DEF ChainsOf, RingOf
  <2>3. (IF c \in DOMAIN ram.ring THEN ram.ring[c] ELSE {}) = RingOf(disk, c)
    BY <1>2, <2>1, <2>2
  <2>4. \A k \in ChainsOf(disk) \ {c} :
           (IF k \in DOMAIN ram.ring THEN ram.ring[k] ELSE {})
              \cup (IF k \in DOMAIN b.appends THEN {b.appends[k]} ELSE {}) = ram.ring[k]
    BY <1>1, <2>1
  <2> QED BY <1>1, <1>2, <2>1, <2>3, <2>4 DEF Put
<1>5. Advanced(o, b) = [next_event |-> b.event_seq, next_clock |-> b.clock_seq,
                        tip |-> tip, ring |-> ring]
  BY DEF Advanced
<1> HIDE DEF tip, ring
<1> QED BY <1>3, <1>4, <1>5

\* The events are untouched by the calls on clock events.
LEMMA SameEvents ==
    ASSUME NEW d, EventsAgree(d), NEW e, e.events = d.events, e.event_index = d.event_index
    PROVE  /\ EventsAgree(e) /\ Seed(e).next_event = Seed(d).next_event
           /\ MemOf(e).events = MemOf(d).events /\ MemOf(e).event_seq = MemOf(d).event_seq
<1>1. \A s : EventAt(e, s) = EventAt(d, s)
  BY DEF EventAt
<1>2. EventsAgree(e)
  BY <1>1 DEF EventsAgree
<1>3. Seed(e).next_event = Seed(d).next_event
  BY DEF Seed
<1>4. MemOf(e).events = MemOf(d).events
  BY <1>1 DEF MemOf, Image
<1>5. MemOf(e).event_seq = MemOf(d).event_seq
  BY DEF MemOf, Image
<1> QED BY <1>2, <1>3, <1>4, <1>5

\* So are the neighbours and routes.
LEMMA SameTables ==
    ASSUME NEW d, NEW e, e.neighbors = d.neighbors, e.routes = d.routes,
           e.timed_routes = d.timed_routes
    PROVE  /\ MemOf(e).neighbors = MemOf(d).neighbors
           /\ MemOf(e).routes = MemOf(d).routes /\ MemOf(e).timed = MemOf(d).timed
<1>1. MemOf(e).neighbors = MemOf(d).neighbors
  BY DEF MemOf, Image, LoadNeighbors
<1>2. MemOf(e).routes = MemOf(d).routes /\ MemOf(e).timed = MemOf(d).timed
  BY DEF MemOf, Image, LoadTimedRoutes
<1> QED BY <1>1, <1>2

\* append_clock_event.
LEMMA ClockAchieves ==
    ASSUME Current, NEW o \in Call, o.name = "append_clock_event", o.rec \in ClockRecs, Legal(o)
    PROVE  Achieves(o)
<1> DEFINE c == o.rec
           k == ram.next_clock
           x == Put(disk.clock_events, k, Encode("clock", c))
           y == Put(disk.clock_index, c.hash, k)
           z == disk.referencing \cup (Refs(c) \X {k})
           e == [disk EXCEPT !.clock_events = x, !.clock_index = y, !.referencing = z]
<1>1. Staged(o) = BatchAppendClockEvent(NewBatch, c)
  BY DEF Staged
<1>2. BatchAppendClockEvent(NewBatch, c) =
        [db |-> e, event_seq |-> ram.next_event, clock_seq |-> k + 1,
         appends |-> Put(Nothing, c.chain, k)]
  BY DEF BatchAppendClockEvent, NewBatch
<1>3. IsDisk(disk) /\ Good(disk) /\ k = NextSeq(disk.clock_events) /\ k = Seed(disk).next_clock
  BY DEF Current, Good, Seed
<1>4. c.hash \notin DOMAIN disk.clock_index
  BY DEF Legal
<1> HIDE DEF x, y, z, k
<1>5. IsDisk(e)
  BY <1>3, Zenon DEF IsDisk
<1>6. /\ e.events = disk.events /\ e.event_index = disk.event_index
      /\ e.clock_events = x /\ e.clock_index = y
      /\ e.referencing = z /\ e.neighbors = disk.neighbors
      /\ e.routes = disk.routes /\ e.timed_routes = disk.timed_routes
  BY <1>3 DEF IsDisk
<1> HIDE DEF e, c
<1>7. /\ k \in Nat /\ k \notin DOMAIN disk.clock_events
      /\ DOMAIN e.clock_events = DOMAIN disk.clock_events \cup {k}
      /\ ClockAt(e, k) = c
      /\ \A s \in DOMAIN disk.clock_events : ClockAt(e, s) = ClockAt(disk, s)
      /\ Numbered(e)
      /\ Seed(e).next_clock = k + 1
      /\ Seed(e).tip = Put(Seed(disk).tip, c.chain, k)
      /\ Seed(e).ring = Put(Seed(disk).ring, c.chain, RingOf(disk, c.chain) \cup {k})
  <2>1. Numbered(disk) /\ c \in ClockRecs /\ k = NextSeq(disk.clock_events)
    BY <1>3 DEF Good, c
  <2>2. e.clock_events = Put(disk.clock_events, k, Encode("clock", c))
    BY <1>6 DEF x
  <2> QED BY <2>1, <2>2, AppendedClock
<1>8. ClocksAgree(e) /\ EdgesAgree(e)
  BY <1>3, <1>4, <1>6, <1>7, AppendedIndex, Zenon DEF Good, y, z
<1>9. /\ EventsAgree(e) /\ Seed(e).next_event = Seed(disk).next_event
      /\ MemOf(e).events = MemOf(disk).events /\ MemOf(e).event_seq = MemOf(disk).event_seq
  BY <1>3, <1>6, SameEvents, Zenon DEF Good
<1>10. Good(e)
  BY <1>5, <1>7, <1>8, <1>9, Zenon DEF Good
<1>11. Staged(o).db = e
  BY <1>1, <1>2
<1>12. Advanced(o, Staged(o)) = Seed(e)
  <2>1. /\ Staged(o).appends = Put(Nothing, c.chain, k)
        /\ Staged(o).event_seq = ram.next_event /\ Staged(o).clock_seq = k + 1
    BY <1>1, <1>2
  <2>2. Advanced(o, Staged(o)) =
           [next_event |-> ram.next_event, next_clock |-> k + 1,
            tip |-> Put(Seed(disk).tip, c.chain, k),
            ring |-> Put(Seed(disk).ring, c.chain, RingOf(disk, c.chain) \cup {k})]
    BY <2>1, AdvancedAppend
  <2>3. Seed(e).next_event = ram.next_event
    BY <1>9 DEF Current
  <2> QED BY <2>2, <2>3, <1>7, SeedIs
<1> DEFINE m == MemOf(disk)
           r == RingOf(disk, c.chain)
           n == [m EXCEPT !.next_clock = k + 1,
                          !.clock_seq = Put(m.clock_seq, c.hash, k),
                          !.referencing = m.referencing \cup (Refs(c) \X {k}),
                          !.tip = Put(m.tip, c.chain, k),
                          !.ring = Put(m.ring, c.chain, r \cup {k}),
                          !.clocks = Put(m.clocks, k, c)]
<1>13. IsMem(m) /\ IsMem(MemOf(e))
  BY MemFields, Zenon
<1>14. /\ m.clock_seq = disk.clock_index /\ m.referencing = disk.referencing
       /\ m.next_clock = k /\ m.tip = Seed(disk).tip /\ m.ring = Seed(disk).ring
  <2>1. m.clock_seq = disk.clock_index /\ m.referencing = disk.referencing
    BY DEF MemOf, Image
  <2>2. m.next_clock = k
    BY <1>3 DEF MemOf, Image
  <2>3. m.tip = Seed(disk).tip /\ m.ring = Seed(disk).ring
    BY DEF MemOf, Image
  <2> QED BY <2>1, <2>2, <2>3, Zenon
<1>15. m.clocks = [s \in DOMAIN disk.clock_events |-> ClockAt(disk, s)]
  BY DEF MemOf, Image
<1>16. /\ MemOf(e).neighbors = m.neighbors
       /\ MemOf(e).routes = m.routes /\ MemOf(e).timed = m.timed
  BY <1>6, SameTables
<1>17. MemOf(e).events = m.events /\ MemOf(e).event_seq = m.event_seq
  BY <1>9
<1>18. (IF c.chain \in DOMAIN m.ring THEN m.ring[c.chain] ELSE {}) = r
  <2>1. m.ring = [j \in ChainsOf(disk) |-> RingOf(disk, j)]
    BY <1>14 DEF Seed
  <2>2. c.chain \notin ChainsOf(disk) => r = {}
    BY DEF ChainsOf, RingOf
  <2> QED BY <2>1, <2>2
<1>19. DOMAIN m.clocks = DOMAIN disk.clock_events
  BY <1>15
<1>20. /\ Emplace(m.clock_seq, c.hash, k) = Put(m.clock_seq, c.hash, k)
       /\ Emplace(m.clocks, k, c) = Put(m.clocks, k, c)
  BY <1>4, <1>7, <1>14, <1>19, Zenon DEF Emplace
<1>21. MemOf(e).clocks = Put(m.clocks, k, c)
  <2>1. MemOf(e).clocks = [s \in DOMAIN disk.clock_events \cup {k} |-> ClockAt(e, s)]
    BY <1>7 DEF MemOf, Image
  <2>2. \A s \in DOMAIN disk.clock_events : s # k /\ m.clocks[s] = ClockAt(e, s)
    BY <1>7, <1>15
  <2> HIDE DEF m
  <2> QED BY SMTT(30), <2>1, <2>2, <1>7, <1>19 DEF Put
<1>22. /\ MemOf(e).clock_seq = Put(m.clock_seq, c.hash, k)
       /\ MemOf(e).referencing = m.referencing \cup (Refs(c) \X {k})
  <2>1. MemOf(e).clock_seq = y /\ MemOf(e).referencing = z
    BY <1>6 DEF MemOf, Image
  <2> QED BY <2>1, <1>14, Zenon DEF y, z
<1>23. /\ MemOf(e).next_clock = k + 1 /\ MemOf(e).tip = Put(m.tip, c.chain, k)
       /\ MemOf(e).ring = Put(m.ring, c.chain, r \cup {k})
  <2>1. /\ MemOf(e).next_clock = Seed(e).next_clock /\ MemOf(e).tip = Seed(e).tip
        /\ MemOf(e).ring = Seed(e).ring
    BY DEF MemOf, Image
  <2> QED BY <2>1, <1>7, <1>14, Zenon
<1> HIDE DEF m, r
<1>24. Apply(m, o) = n
  <2>1. Apply(m, o) = AppendClockEvent(m, c)
    BY DEF Apply, c
  <2> QED BY <2>1, <1>14, <1>18, <1>20, Zenon DEF AppendClockEvent
<1>25. IsMem(n)
  BY <1>13, ZenonT(30) DEF IsMem
<1>26. MemOf(e) = n
  <2>1. /\ n.events = m.events /\ n.event_seq = m.event_seq
        /\ n.clocks = Put(m.clocks, k, c) /\ n.clock_seq = Put(m.clock_seq, c.hash, k)
        /\ n.next_clock = k + 1
        /\ n.referencing = m.referencing \cup (Refs(c) \X {k})
        /\ n.tip = Put(m.tip, c.chain, k) /\ n.ring = Put(m.ring, c.chain, r \cup {k})
        /\ n.neighbors = m.neighbors /\ n.routes = m.routes /\ n.timed = m.timed
    BY <1>13 DEF IsMem
  <2> HIDE DEF n
  <2>2. /\ MemOf(e).events = n.events /\ MemOf(e).event_seq = n.event_seq
        /\ MemOf(e).clocks = n.clocks /\ MemOf(e).clock_seq = n.clock_seq
        /\ MemOf(e).next_clock = n.next_clock /\ MemOf(e).referencing = n.referencing
        /\ MemOf(e).tip = n.tip /\ MemOf(e).ring = n.ring
        /\ MemOf(e).neighbors = n.neighbors /\ MemOf(e).routes = n.routes
        /\ MemOf(e).timed = n.timed
    BY <2>1, <1>16, <1>17, <1>21, <1>22, <1>23, Zenon
  <2> QED BY <2>2, <1>13, <1>25, MemEqual
<1> QED BY <1>10, <1>11, <1>12, <1>24, <1>26, Zenon DEF Achieves, m

\* What rewriting a stored clock event in place does, its hash, chain and references kept.
LEMMA UpdatedClock ==
    ASSUME NEW d, Good(d), NEW c \in ClockRecs, c.hash \in DOMAIN d.clock_index, NEW k,
           k = d.clock_index[c.hash],
           ClockAt(d, k).chain = c.chain, ClockAt(d, k).refs = c.refs, NEW e,
           e.clock_events = Put(d.clock_events, k, Encode("clock", c)),
           e.clock_index = d.clock_index, e.referencing = d.referencing
    PROVE  /\ k \in DOMAIN d.clock_events
           /\ DOMAIN e.clock_events = DOMAIN d.clock_events
           /\ ClockAt(e, k) = c
           /\ \A s \in DOMAIN d.clock_events : s # k => ClockAt(e, s) = ClockAt(d, s)
           /\ Numbered(e)
           /\ Seed(e).next_clock = Seed(d).next_clock
           /\ Seed(e).tip = Seed(d).tip /\ Seed(e).ring = Seed(d).ring
           /\ ClocksAgree(e) /\ EdgesAgree(e)
<1>1. k \in DOMAIN d.clock_events /\ ClockAt(d, k).hash = c.hash
  BY DEF Good, ClocksAgree
<1>2. DOMAIN e.clock_events = DOMAIN d.clock_events
  BY <1>1, Zenon DEF Put
<1>3. ClockAt(e, k) = c
  BY CodecAssumption, Zenon DEF ClockAt, Put
<1>4. \A s \in DOMAIN d.clock_events : s # k => ClockAt(e, s) = ClockAt(d, s)
  BY DEF ClockAt, Put
<1>5. \A s \in DOMAIN d.clock_events : /\ ClockAt(e, s).chain = ClockAt(d, s).chain
                                       /\ ClockAt(e, s).hash = ClockAt(d, s).hash
  BY <1>1, <1>3, <1>4
<1>6. \A s \in DOMAIN d.clock_events : Refs(ClockAt(e, s)) = Refs(ClockAt(d, s))
  <2>1. \A s \in DOMAIN d.clock_events : ClockAt(e, s).refs = ClockAt(d, s).refs
    BY <1>3, <1>4, Zenon
  <2> QED BY <2>1 DEF Refs
<1>7. /\ Numbered(e)
      /\ Seed(e).next_clock = Seed(d).next_clock
      /\ Seed(e).tip = Seed(d).tip /\ Seed(e).ring = Seed(d).ring
  BY <1>2, <1>5, SameChains, Zenon DEF Good
<1>8. ClocksAgree(e)
  BY <1>2, <1>5 DEF Good, ClocksAgree
<1>9. EdgesAgree(e)
  BY <1>2, <1>6 DEF Good, EdgesAgree
<1> QED BY <1>1, <1>2, <1>3, <1>4, <1>7, <1>8, <1>9, Zenon

\* update_clock_event of a stored clock event.
LEMMA UpdateAchieves ==
    ASSUME Current, NEW o \in Call, o.name = "update_clock_event", o.rec \in ClockRecs,
           Legal(o), ~Unknown(o)
    PROVE  Achieves(o)
<1> DEFINE c == o.rec
           k == disk.clock_index[c.hash]
           x == Put(disk.clock_events, k, Encode("clock", c))
           e == [disk EXCEPT !.clock_events = x]
<1>1. Staged(o) = BatchUpdateClockEvent(NewBatch, c)
  BY DEF Staged
<1>2. BatchUpdateClockEvent(NewBatch, c) =
        [db |-> e, event_seq |-> ram.next_event, clock_seq |-> ram.next_clock,
         appends |-> Nothing]
  BY DEF BatchUpdateClockEvent, NewBatch
<1>3. IsDisk(disk) /\ Good(disk)
  BY DEF Current, Good
<1>4. /\ c.hash \in DOMAIN disk.clock_index
      /\ ClockAt(disk, k).chain = c.chain /\ ClockAt(disk, k).refs = c.refs
  BY DEF Legal, Unknown
<1> HIDE DEF x, k
<1>5. IsDisk(e)
  BY <1>3 DEF IsDisk
<1>6. /\ e.events = disk.events /\ e.event_index = disk.event_index
      /\ e.clock_events = x /\ e.clock_index = disk.clock_index
      /\ e.referencing = disk.referencing /\ e.neighbors = disk.neighbors
      /\ e.routes = disk.routes /\ e.timed_routes = disk.timed_routes
  BY <1>3, Zenon DEF IsDisk
<1> HIDE DEF e, c
<1>7. /\ k \in DOMAIN disk.clock_events
      /\ DOMAIN e.clock_events = DOMAIN disk.clock_events
      /\ ClockAt(e, k) = c
      /\ \A s \in DOMAIN disk.clock_events : s # k => ClockAt(e, s) = ClockAt(disk, s)
      /\ Numbered(e)
      /\ Seed(e).next_clock = Seed(disk).next_clock
      /\ Seed(e).tip = Seed(disk).tip /\ Seed(e).ring = Seed(disk).ring
      /\ ClocksAgree(e) /\ EdgesAgree(e)
  BY <1>3, <1>4, <1>6, UpdatedClock, Zenon DEF x, c, k
<1>8. /\ EventsAgree(e) /\ Seed(e).next_event = Seed(disk).next_event
      /\ MemOf(e).events = MemOf(disk).events /\ MemOf(e).event_seq = MemOf(disk).event_seq
  BY <1>3, <1>6, SameEvents DEF Good
<1>9. Good(e)
  BY <1>5, <1>7, <1>8, Zenon DEF Good
<1>10. Staged(o).db = e
  BY <1>1, <1>2
<1>11. Advanced(o, Staged(o)) = Seed(e)
  <2>1. /\ Staged(o).appends = Nothing
        /\ Staged(o).event_seq = ram.next_event /\ Staged(o).clock_seq = ram.next_clock
    BY <1>1, <1>2
  <2>2. Advanced(o, Staged(o)) =
           [next_event |-> ram.next_event, next_clock |-> ram.next_clock,
            tip |-> Seed(disk).tip, ring |-> Seed(disk).ring]
    BY <2>1, AdvancedCounters
  <2>3. Seed(e).next_event = ram.next_event /\ Seed(e).next_clock = ram.next_clock
    BY <1>7, <1>8 DEF Current
  <2> QED BY <2>2, <2>3, <1>7, SeedIs
<1> DEFINE m == MemOf(disk)
           n == [m EXCEPT !.clocks = Put(m.clocks, k, c)]
<1>12. IsMem(m) /\ IsMem(MemOf(e))
  BY MemFields, Zenon
<1>13. m.clocks = [s \in DOMAIN disk.clock_events |-> ClockAt(disk, s)]
  BY DEF MemOf, Image
<1>14. /\ MemOf(e).neighbors = m.neighbors
       /\ MemOf(e).routes = m.routes /\ MemOf(e).timed = m.timed
  BY <1>6, SameTables, Zenon
<1>15. MemOf(e).clock_seq = m.clock_seq /\ MemOf(e).referencing = m.referencing
  BY <1>6, Zenon DEF MemOf, Image
<1>16. MemOf(e).next_clock = m.next_clock /\ MemOf(e).tip = m.tip /\ MemOf(e).ring = m.ring
  BY <1>7 DEF MemOf, Image
<1>17. DOMAIN m.clocks = DOMAIN disk.clock_events
  BY <1>13
<1>18. MemOf(e).clocks = Put(m.clocks, k, c)
  <2>1. MemOf(e).clocks = [s \in DOMAIN disk.clock_events |-> ClockAt(e, s)]
    BY <1>7 DEF MemOf, Image
  <2>2. \A s \in DOMAIN disk.clock_events : s # k => m.clocks[s] = ClockAt(e, s)
    BY <1>7, <1>13
  <2>3. DOMAIN disk.clock_events \cup {k} = DOMAIN disk.clock_events
    BY <1>7
  <2> HIDE DEF m
  <2> QED BY <2>1, <2>2, <2>3, <1>7, <1>17, Zenon DEF Put
<1>19. m.clock_seq = disk.clock_index
  BY DEF MemOf, Image
<1> HIDE DEF m
<1>20. Apply(m, o) = n
  <2>1. Apply(m, o) = UpdateClockEvent(m, c)
    BY DEF Apply, c
  <2> QED BY <2>1, <1>4, <1>19 DEF UpdateClockEvent, k
<1>21. IsMem(n)
  BY <1>12 DEF IsMem
<1>22. MemOf(e) = n
  <2>1. /\ n.events = m.events /\ n.event_seq = m.event_seq
        /\ n.clocks = Put(m.clocks, k, c) /\ n.clock_seq = m.clock_seq
        /\ n.next_clock = m.next_clock /\ n.referencing = m.referencing
        /\ n.tip = m.tip /\ n.ring = m.ring
        /\ n.neighbors = m.neighbors /\ n.routes = m.routes /\ n.timed = m.timed
    BY <1>12 DEF IsMem
  <2>2. MemOf(e).events = m.events /\ MemOf(e).event_seq = m.event_seq
    BY <1>8 DEF m
  <2> HIDE DEF n
  <2>3. /\ MemOf(e).events = n.events /\ MemOf(e).event_seq = n.event_seq
        /\ MemOf(e).clocks = n.clocks /\ MemOf(e).clock_seq = n.clock_seq
        /\ MemOf(e).next_clock = n.next_clock /\ MemOf(e).referencing = n.referencing
        /\ MemOf(e).tip = n.tip /\ MemOf(e).ring = n.ring
        /\ MemOf(e).neighbors = n.neighbors /\ MemOf(e).routes = n.routes
        /\ MemOf(e).timed = n.timed
    BY <2>1, <2>2, <1>14, <1>15, <1>16, <1>18, Zenon
  <2> QED BY <2>3, <1>12, <1>21, MemEqual, Zenon
<1> QED BY <1>9, <1>10, <1>11, <1>20, <1>22, Zenon DEF Achieves, m

\* What pruning does to the index and the reverse edges.
LEMMA PrunedIndex ==
    ASSUME NEW d, ClocksAgree(d), EdgesAgree(d), NEW old, NEW e,
           DOMAIN e.clock_events = DOMAIN d.clock_events \ old,
           \A s \in DOMAIN e.clock_events : ClockAt(e, s) = ClockAt(d, s),
           old \subseteq DOMAIN d.clock_events,
           e.clock_index = Without(d.clock_index, {ClockAt(d, s).hash : s \in old}),
           e.referencing = {p \in d.referencing :
                              ~(p[2] \in old /\ p[1] \in Refs(ClockAt(d, p[2])))}
    PROVE  ClocksAgree(e) /\ EdgesAgree(e)
<1> DEFINE dead == {ClockAt(d, s).hash : s \in old}
<1>1. /\ DOMAIN e.clock_index = DOMAIN d.clock_index \ dead
      /\ \A h \in DOMAIN e.clock_index : e.clock_index[h] = d.clock_index[h]
  BY DEF Without
<1>2. e.clock_index = [h \in DOMAIN e.clock_index |-> e.clock_index[h]]
  BY DEF Without
<1>3. ASSUME NEW s \in DOMAIN e.clock_events
      PROVE  ClockAt(d, s).hash \notin dead
  <2>1. \A t \in DOMAIN d.clock_events : d.clock_index[ClockAt(d, t).hash] = t
    BY DEF ClocksAgree
  <2>2. s \in DOMAIN d.clock_events /\ s \notin old
    BY Zenon
  <2> QED BY <2>1, <2>2
<1>4. \A s \in DOMAIN e.clock_events : /\ ClockAt(e, s).hash \in DOMAIN e.clock_index
                                       /\ e.clock_index[ClockAt(e, s).hash] = s
  BY <1>1, <1>3, Zenon DEF ClocksAgree
<1>5. ASSUME NEW h \in DOMAIN e.clock_index
      PROVE  /\ e.clock_index[h] \in DOMAIN e.clock_events
             /\ ClockAt(e, e.clock_index[h]).hash = h
  <2>1. /\ h \in DOMAIN d.clock_index /\ h \notin dead
        /\ e.clock_index[h] = d.clock_index[h]
    BY <1>1, Zenon
  <2>2. d.clock_index[h] \in DOMAIN d.clock_events /\ ClockAt(d, d.clock_index[h]).hash = h
    BY <2>1 DEF ClocksAgree
  <2>3. d.clock_index[h] \notin old
    BY <2>1, <2>2, Zenon
  <2> QED BY <2>1, <2>2, <2>3, Zenon
<1>6. ClocksAgree(e)
  BY <1>2, <1>4, <1>5, Zenon DEF ClocksAgree
<1>7. ASSUME NEW s \in DOMAIN e.clock_events
      PROVE  Refs(ClockAt(e, s)) \X {s} \subseteq e.referencing
  <2>1. ClockAt(e, s) = ClockAt(d, s) /\ s \in DOMAIN d.clock_events /\ s \notin old
    OBVIOUS
  <2>2. Refs(ClockAt(d, s)) \X {s} \subseteq d.referencing
    BY <2>1, Zenon DEF EdgesAgree
  <2>3. \A p \in Refs(ClockAt(d, s)) \X {s} : p[2] = s
    OBVIOUS
  <2> QED BY <2>1, <2>2, <2>3, Zenon
<1>8. ASSUME NEW p \in e.referencing
      PROVE  p[2] \in DOMAIN e.clock_events /\ p[1] \in Refs(ClockAt(e, p[2]))
  BY DEF EdgesAgree
<1>9. EdgesAgree(e)
  BY <1>7, <1>8 DEF EdgesAgree
<1> QED BY <1>6, <1>9, Zenon

\* prune_chain when a transaction is needed.
LEMMA PruneAchieves ==
    ASSUME Current, NEW o \in Call, o.name = "prune_chain", o.keep \in Nat, ~NothingToPrune(o)
    PROVE  Achieves(o)
<1> DEFINE c == o.chain
           old == Oldest(RingOf(disk, c), o.keep)
           x == {p \in disk.referencing : ~(p[2] \in old /\ p[1] \in Refs(ClockAt(disk, p[2])))}
           y == Without(disk.clock_index, {ClockAt(disk, s).hash : s \in old})
           z == Without(disk.clock_events, old)
           e == [disk EXCEPT !.referencing = x, !.clock_index = y, !.clock_events = z]
<1>1. IsDisk(disk) /\ Good(disk)
  BY DEF Current, Good
<1>2. ram.ring = [j \in ChainsOf(disk) |-> RingOf(disk, j)]
  BY DEF Current, Seed
<1>3. /\ c \in ChainsOf(disk) /\ o.keep \in Nat \ {0}
      /\ ram.ring[c] = RingOf(disk, c)
  BY <1>2 DEF NothingToPrune
<1>4. old \cap DOMAIN disk.clock_events = old
  BY DEF Oldest, RingOf
<1>5. Staged(o) = [NewBatch EXCEPT !.db = Deleted(disk, old)]
  BY <1>3 DEF Staged
<1> HIDE DEF old, c
<1>6. Deleted(disk, old) = e
  BY <1>4, Zenon DEF Deleted
<1>7. Staged(o).db = e
  BY <1>5, <1>6 DEF NewBatch
<1> HIDE DEF x, y, z
<1>8. IsDisk(e)
  BY <1>1, Zenon DEF IsDisk
<1>9. /\ e.events = disk.events /\ e.event_index = disk.event_index
      /\ e.clock_events = z /\ e.clock_index = y
      /\ e.referencing = x /\ e.neighbors = disk.neighbors
      /\ e.routes = disk.routes /\ e.timed_routes = disk.timed_routes
  BY <1>1 DEF IsDisk
<1> HIDE DEF e
<1>10. /\ old \subseteq DOMAIN disk.clock_events
       /\ DOMAIN e.clock_events = DOMAIN disk.clock_events \ old
       /\ \A s \in DOMAIN e.clock_events : ClockAt(e, s) = ClockAt(disk, s)
       /\ Numbered(e)
       /\ Seed(e).next_clock = Seed(disk).next_clock
       /\ Seed(e).tip = Seed(disk).tip
       /\ Seed(e).ring = Put(Seed(disk).ring, c, RingOf(disk, c) \ old)
  <2>1. Numbered(disk) /\ old = Oldest(RingOf(disk, c), o.keep)
    BY <1>1 DEF Good, old
  <2>2. e.clock_events = Without(disk.clock_events, old)
    BY <1>9 DEF z
  <2>3. c \in ChainsOf(disk) /\ o.keep \in Nat \ {0}
    BY <1>3
  <2>4. Trimmed(disk, e, c, old)
    BY <2>1, <2>2, <2>3, PrunedClocks, Zenon
  <2> QED BY <2>4 DEF Trimmed
<1>11. ClocksAgree(e) /\ EdgesAgree(e)
  <2>1. ClocksAgree(disk) /\ EdgesAgree(disk)
    BY <1>1 DEF Good
  <2>2. e.clock_index = Without(disk.clock_index, {ClockAt(disk, s).hash : s \in old})
    BY <1>9 DEF y
  <2>3. e.referencing = {p \in disk.referencing :
                           ~(p[2] \in old /\ p[1] \in Refs(ClockAt(disk, p[2])))}
    BY <1>9 DEF x
  <2> QED BY <2>1, <2>2, <2>3, <1>10, PrunedIndex, Zenon
<1>12. /\ EventsAgree(e) /\ Seed(e).next_event = Seed(disk).next_event
       /\ MemOf(e).events = MemOf(disk).events /\ MemOf(e).event_seq = MemOf(disk).event_seq
  BY <1>1, <1>9, SameEvents DEF Good
<1>13. Good(e)
  BY <1>8, <1>10, <1>11, <1>12, Zenon DEF Good
<1>14. Advanced(o, Staged(o)) = Seed(e)
  <2>1. Advanced(o, Staged(o)) =
          [ram EXCEPT !.ring = Put(ram.ring, c, RingOf(disk, c) \ old)]
    BY <1>3 DEF Advanced, c, old
  <2>2. ram = [next_event |-> Seed(disk).next_event, next_clock |-> Seed(disk).next_clock,
               tip |-> Seed(disk).tip, ring |-> Seed(disk).ring]
    BY SeedIs DEF Current
  <2>3. ram.ring = Seed(disk).ring
    BY DEF Current
  <2>4. Advanced(o, Staged(o)) =
          [next_event |-> Seed(disk).next_event, next_clock |-> Seed(disk).next_clock,
           tip |-> Seed(disk).tip, ring |-> Put(Seed(disk).ring, c, RingOf(disk, c) \ old)]
    BY <2>1, <2>2, <2>3
  <2> QED BY <2>4, <1>10, <1>12, SeedIs
<1> DEFINE m == MemOf(disk)
           n == [m EXCEPT !.ring = Put(m.ring, c, RingOf(disk, c) \ old),
                          !.clock_seq = y,
                          !.referencing = x,
                          !.clocks = Without(m.clocks, old)]
<1>15. IsMem(m) /\ IsMem(MemOf(e))
  BY MemFields, Zenon
<1>16. m.clocks = [s \in DOMAIN disk.clock_events |-> ClockAt(disk, s)]
  BY Zenon DEF MemOf, Image
<1>17. m.clock_seq = disk.clock_index /\ m.referencing = disk.referencing
  BY DEF MemOf, Image
<1>18. m.ring = [j \in ChainsOf(disk) |-> RingOf(disk, j)] /\ m.ring = Seed(disk).ring
  BY Zenon DEF MemOf, Image, Seed
<1>19. /\ MemOf(e).neighbors = m.neighbors
       /\ MemOf(e).routes = m.routes /\ MemOf(e).timed = m.timed
  BY <1>9, SameTables, Zenon
<1>20. MemOf(e).clock_seq = y /\ MemOf(e).referencing = x
  BY <1>9, Zenon DEF MemOf, Image
<1>21. MemOf(e).next_clock = m.next_clock /\ MemOf(e).tip = m.tip
  BY <1>10, Zenon DEF MemOf, Image
<1>22. MemOf(e).ring = Put(m.ring, c, RingOf(disk, c) \ old)
  <2>1. MemOf(e).ring = Seed(e).ring
    BY DEF MemOf, Image
  <2> QED BY <2>1, <1>10, <1>18, Zenon
<1>23. MemOf(e).clocks = Without(m.clocks, old)
  <2>1. MemOf(e).clocks = [s \in DOMAIN disk.clock_events \ old |-> ClockAt(e, s)]
    BY <1>10 DEF MemOf, Image
  <2>2. DOMAIN m.clocks = DOMAIN disk.clock_events
    BY <1>16, Zenon
  <2>3. \A s \in DOMAIN disk.clock_events \ old : m.clocks[s] = ClockAt(e, s)
    BY <1>10, <1>16
  <2> HIDE DEF m
  <2> QED BY <2>1, <2>2, <2>3, Zenon DEF Without
<1>24. MemOf(e).events = m.events /\ MemOf(e).event_seq = m.event_seq
  BY <1>12
<1> HIDE DEF m
<1>25. Apply(m, o) = n
  <2>1. Apply(m, o) = PruneChain(m, c, o.keep)
    BY DEF Apply, c
  <2>2. c \in DOMAIN m.ring /\ m.ring[c] = RingOf(disk, c)
    BY <1>3, <1>18, Zenon
  <2>3. old \cap DOMAIN m.clocks = old
    BY <1>4, <1>16, Zenon
  <2>4. {m.clocks[s].hash : s \in old} = {ClockAt(disk, s).hash : s \in old}
    BY <1>10, <1>16
  <2>5. {p \in m.referencing : ~(p[2] \in old /\ p[1] \in Refs(m.clocks[p[2]]))} = x
    <3>1. \A s \in old : m.clocks[s] = ClockAt(disk, s)
      BY <1>10, <1>16
    <3> QED BY <3>1, <1>17, Zenon DEF x
  <2>6. Without(m.clock_seq, {m.clocks[s].hash : s \in old}) = y
    BY <2>4, <1>17, Zenon DEF y
  <2>7. Oldest(m.ring[c], o.keep) = old
    BY <2>2 DEF old
  <2>8. PruneChain(m, c, o.keep) =
          [m EXCEPT
             !.ring = Put(m.ring, c, m.ring[c] \ old),
             !.clock_seq = Without(m.clock_seq, {m.clocks[s].hash : s \in old}),
             !.referencing = {p \in m.referencing : ~(p[2] \in old /\ p[1] \in Refs(m.clocks[p[2]]))},
             !.clocks = Without(m.clocks, old)]
    BY <2>2, <2>3, <2>7, <1>3, Zenon DEF PruneChain
  <2> QED BY <2>1, <2>2, <2>5, <2>6, <2>8, Zenon
<1>26. IsMem(n)
  BY <1>15, Zenon DEF IsMem
<1>27. MemOf(e) = n
  <2>1. /\ n.events = m.events /\ n.event_seq = m.event_seq
        /\ n.clocks = Without(m.clocks, old) /\ n.clock_seq = y
        /\ n.next_clock = m.next_clock /\ n.referencing = x
        /\ n.tip = m.tip /\ n.ring = Put(m.ring, c, RingOf(disk, c) \ old)
        /\ n.neighbors = m.neighbors /\ n.routes = m.routes /\ n.timed = m.timed
    BY <1>15, Zenon DEF IsMem
  <2> HIDE DEF n
  <2>2. /\ MemOf(e).events = n.events /\ MemOf(e).event_seq = n.event_seq
        /\ MemOf(e).clocks = n.clocks /\ MemOf(e).clock_seq = n.clock_seq
        /\ MemOf(e).next_clock = n.next_clock /\ MemOf(e).referencing = n.referencing
        /\ MemOf(e).tip = n.tip /\ MemOf(e).ring = n.ring
        /\ MemOf(e).neighbors = n.neighbors /\ MemOf(e).routes = n.routes
        /\ MemOf(e).timed = n.timed
    BY <2>1, <1>19, <1>20, <1>21, <1>22, <1>23, <1>24, Zenon
  <2> QED BY <2>2, <1>15, <1>26, MemEqual, Zenon
<1> QED BY <1>7, <1>13, <1>14, <1>25, <1>27, Zenon DEF Achieves, m

-----------------------------------------------------------------------------
(* The store. *)

\* prune_chain that returns early is what the in-memory store does with a short ring.
LEMMA EarlyReturn ==
    ASSUME Current, NEW o \in Call, o.name = "prune_chain", o.keep \in Nat, NothingToPrune(o)
    PROVE  Apply(MemOf(disk), o) = MemOf(disk)
<1> DEFINE c == o.chain
           m == MemOf(disk)
           r == RingOf(disk, c)
<1>1. Good(disk) /\ Numbered(disk)
  BY Zenon  DEF Current, Good
<1>2. ram.ring = [j \in ChainsOf(disk) |-> RingOf(disk, j)]
  BY Zenon  DEF Current, Seed
<1>3. m.ring = [j \in ChainsOf(disk) |-> RingOf(disk, j)]
  BY DEF MemOf, Image, Seed
<1>4. Apply(m, o) = PruneChain(m, c, o.keep)
  BY DEF Apply
<1>5. CASE c \notin ChainsOf(disk) \/ o.keep = 0
  BY <1>3, <1>4, <1>5 DEF PruneChain
<1>6. CASE c \in ChainsOf(disk) /\ o.keep # 0
  <2>1. Cardinality(r) <= o.keep
    BY <1>2, <1>6, Zenon DEF NothingToPrune
  <2>2. r \in SUBSET Nat
    BY <1>1 DEF RingOf, Numbered
  <2>3. IsFiniteSet(r)
    <3>1. PICK t : IsTop(r, t)
      BY <1>1, <1>6 DEF Numbered, HasTop
    <3>2. t \in Nat /\ r \subseteq 0 .. t
      BY <2>2, <3>1 DEF IsTop
    <3>3. IsFiniteSet(0 .. t)
      BY <3>2, FS_Interval
    <3> QED BY <3>2, <3>3, FS_Subset, Zenon
  <2>4. Oldest(r, o.keep) = {}
    BY <2>1, <2>2, <2>3, ShortRing, Zenon
  <2>5. IsMem(m)
    BY MemFields, Zenon
  <2>6. m.clock_seq = disk.clock_index
    BY Zenon DEF MemOf, Image
  <2>7. m.clocks = [s \in DOMAIN disk.clock_events |-> ClockAt(disk, s)]
    BY DEF MemOf, Image
  <2>8. m.ring[c] = r /\ c \in DOMAIN m.ring
    BY <1>3, <1>6
  <2> HIDE DEF m
  <2>9. Put(m.ring, c, m.ring[c] \ {}) = m.ring
    BY <1>3, <1>6, Zenon DEF Put
  <2>10. Without(m.clock_seq, {}) = m.clock_seq
    BY <1>1, <2>6, Zenon DEF Without, Good, ClocksAgree
  <2>11. Without(m.clocks, {}) = m.clocks
    BY <2>7, Zenon DEF Without
  <2>12. {p \in m.referencing : ~(p[2] \in {} /\ p[1] \in Refs(m.clocks[p[2]]))} = m.referencing
    <3>1. \A p : ~(p[2] \in {})
      OBVIOUS
    <3> QED BY <3>1
  <2>13. {m.clocks[s].hash : s \in {}} = {}
    OBVIOUS
  <2>14. PruneChain(m, c, o.keep) =
           [m EXCEPT
              !.ring = Put(m.ring, c, m.ring[c] \ {}),
              !.clock_seq = Without(m.clock_seq, {m.clocks[s].hash : s \in {}}),
              !.referencing = {p \in m.referencing : ~(p[2] \in {} /\ p[1] \in Refs(m.clocks[p[2]]))},
              !.clocks = Without(m.clocks, {})]
    <3>1. Oldest(m.ring[c], o.keep) = {} /\ {} \cap DOMAIN m.clocks = {}
      BY <2>4, <2>8
    <3> QED BY <3>1, <1>6, <2>8, Zenon DEF PruneChain
  <2>15. PruneChain(m, c, o.keep) =
           [m EXCEPT !.ring = m.ring, !.clock_seq = m.clock_seq,
                     !.referencing = m.referencing, !.clocks = m.clocks]
    BY <2>9, <2>10, <2>11, <2>12, <2>13, <2>14, Zenon
  <2>16. [m EXCEPT !.ring = m.ring, !.clock_seq = m.clock_seq,
                   !.referencing = m.referencing, !.clocks = m.clocks] = m
    BY <2>5, Zenon DEF IsMem
  <2> QED BY <1>4, <2>15, <2>16, Zenon DEF m
<1> QED BY <1>5, <1>6

\* Every call that commits achieves what it should.
LEMMA CommitAchieves ==
    ASSUME Current, NEW o \in Call, Legal(o), ~Unknown(o), ~NothingToPrune(o)
    PROVE  Achieves(o)
<1>1. CASE o \in [name : {"append_event"}, rec : EventRecs]
  BY <1>1, EventAchieves, Zenon
<1>2. CASE o \in [name : {"append_clock_event", "update_clock_event"}, rec : ClockRecs]
  <2>1. o.name \in {"append_clock_event", "update_clock_event"} /\ o.rec \in ClockRecs
    BY <1>2
  <2> QED BY <2>1, ClockAchieves, UpdateAchieves, Zenon
<1>3. CASE o \in [name : {"prune_chain"}, chain : Chains, keep : Keeps]
  <2>1. o.name = "prune_chain" /\ o.keep \in Nat
    BY <1>3, ChainAssumption, Zenon
  <2> QED BY <2>1, PruneAchieves
<1>4. CASE o \in [name : {"put_neighbor"}, id : Ids, rec : NbrRecs]
  BY <1>4, NeighborAchieves
<1>5. CASE o \in [name : {"put_route"}, id : Ids, rec : Ids]
  BY <1>5, RouteAchieves
<1>6. CASE o \in [name : {"put_timed_routes"}, rec : Tables]
  BY <1>6, TimedRoutesAchieve
<1>7. CASE o \in [name : {"clear"}]
  BY <1>7, ClearAchieves
<1> QED BY <1>1, <1>2, <1>3, <1>4, <1>5, <1>6, <1>7, Zenon DEF Call

-----------------------------------------------------------------------------
(* The inductive invariant. *)

\* Every disk a crash may bring back is good, and only the current one can come back
\* unless commits are lazy; an open store has the RAM state of its disk;
\* the call being served is one its client may make.
Inv ==
    /\ disk \in kept
    /\ ~lazy => kept = {disk}
    /\ \A d \in kept : Good(d)
    /\ up => ram = Seed(disk)
    /\ call # NoCall => call \in Call /\ up /\ Legal(call)

\* A new store satisfies it.
LEMMA InvInit == LmdbInit => Inv
BY EmptyGood, Zenon DEF LmdbInit, Inv

\* A disk, RAM and call that stay as they are leave a legal call legal.
LEMMA LegalStays ==
    ASSUME disk' = disk, call' = call, Legal(call)
    PROVE  Legal(call)'
BY Zenon  DEF Legal, Unknown, ClockAt

\* After the process has ended, any disk that was good is.
LEMMA DownKeeps ==
    ASSUME Inv, NEW d, NEW k, Down(d, k), d \in k, k \subseteq kept, ~lazy => k = {d}
    PROVE  Inv'
BY DEF Inv, Down

\* Every step preserves it; the commit is where the disk and RAM change.
LEMMA InvStep == Inv /\ [LmdbNext]_lmdbVars => Inv'
<1> SUFFICES ASSUME Inv, [LmdbNext]_lmdbVars PROVE Inv'
  OBVIOUS
<1>1. ASSUME NEW o \in Call, Legal(o), Invoke(o) PROVE Inv'
  <2>1. /\ disk' = disk /\ kept' = kept /\ ram' = ram /\ up' = up /\ lazy' = lazy
        /\ call' = o /\ up
    BY <1>1, Zenon DEF Invoke
  <2>2. Legal(o)'
    BY <1>1, <2>1, Zenon DEF Invoke, Legal, Unknown, ClockAt
  <2>3. Legal(call)'
    BY <2>1, <2>2, Zenon
  <2> QED BY <2>1, <2>3 DEF Inv
<1>2. CASE Open
  <2>1. call = NoCall
    BY <1>2 DEF Open, Inv
  <2> QED BY <1>2, <2>1, Zenon DEF Open, Inv
<1>3. CASE Commit
  <2> DEFINE b == Staged(call)
  <2>1. /\ disk' = b.db /\ kept' = (IF lazy THEN kept \cup {b.db} ELSE {b.db})
        /\ ram' = Advanced(call, b) /\ call' = NoCall
    BY <1>3, Zenon DEF Commit
  <2>2. Current /\ call \in Call /\ Legal(call) /\ ~Unknown(call) /\ ~NothingToPrune(call)
    BY <1>3 DEF Commit, Inv, Current
  <2>3. Achieves(call)
    BY <2>2, CommitAchieves
  <2>4. Good(b.db) /\ Advanced(call, b) = Seed(b.db)
    BY <2>3 DEF Achieves
  <2> HIDE DEF b
  <2>5. Good(disk') /\ disk' \in kept' /\ kept' \subseteq kept \cup {disk'}
    BY <2>1, <2>4
  <2>6. ram' = Seed(disk')
    BY <2>1, <2>4
  <2>7. \A d \in kept' : Good(d)
    BY <2>5, Zenon DEF Inv
  <2>8. ~lazy' => kept' = {disk'}
    BY <1>3, <2>1, Zenon DEF Commit
  <2> QED BY <2>1, <2>5, <2>6, <2>7, <2>8, Zenon DEF Inv
<1>4. CASE ReturnEarly
  BY <1>4, Zenon DEF ReturnEarly, Inv
<1>5. CASE GrowMap
  BY <1>5, LegalStays, Zenon DEF GrowMap, Inv
<1>6. CASE Rejected
  BY <1>6 DEF Rejected, Throws, Inv
<1>7. CASE IoError
  BY <1>7, Zenon DEF IoError, Throws, Inv
<1>8. CASE Sync
  BY <1>8 DEF Sync, Inv
<1>13. CASE SyncFails
  BY <1>13, LegalStays, Zenon DEF SyncFails, Inv
<1>9. CASE PowerFailure
  <2>1. PICK d \in kept : Down(d, {d})
    BY <1>9, Zenon DEF PowerFailure
  <2> QED BY <2>1, DownKeeps
<1>10. CASE Killed
  BY <1>10, DownKeeps, Zenon DEF Killed, Inv
<1>11. CASE PruneDies
  BY <1>11, DownKeeps, Zenon DEF PruneDies, Inv
<1>12. CASE UNCHANGED lmdbVars
  BY <1>12, LegalStays DEF lmdbVars, Inv
<1> QED BY <1>1, <1>2, <1>3, <1>4, <1>5, <1>6, <1>7, <1>8, <1>9, <1>10, <1>11, <1>12, <1>13, Zenon
     DEF LmdbNext, StoreStep

\* Every reachable state of the store satisfies the invariant.
THEOREM StoreInvariant == LmdbSpec => []Inv
<1>1. LmdbInit => Inv
  BY InvInit
<1>2. Inv /\ [LmdbNext]_lmdbVars => Inv'
  BY InvStep
<1> QED BY <1>1, <1>2, PTL DEF LmdbSpec

\* Whatever a crash brings back, logs, indexes and reverse edges of the LMDB store agree.
THEOREM CrashesLeaveReadsResolved == LmdbSpec => []ReadsResolve
<1>1. Inv => ReadsResolve
  BY GoodConsistent, Zenon DEF Inv, ReadsResolve
<1> QED BY <1>1, StoreInvariant, PTL

\* The counters and trackers that follow a commit are those that reopening would read.
THEOREM RamIsRecoverable == LmdbSpec => []RamRecoverable
<1>1. Inv => RamRecoverable
  BY DEF Inv, RamRecoverable
<1> QED BY <1>1, StoreInvariant, PTL

-----------------------------------------------------------------------------
(* The refinement. *)

absMem == Image(disk, IF up THEN ram ELSE Seed(disk))
absPast == {Image(d, Seed(d)) : d \in kept}

\* The port's calls have the meaning the in-memory store gives them.
LEMMA SameMeaning == \A m, o : Abs!Apply(m, o) = Apply(m, o)
<1>1. \A f, k, v : Abs!Put(f, k, v) = Put(f, k, v)
  BY DEF Put, Abs!Put
<1>2. \A f, k, v : Abs!Emplace(f, k, v) = Emplace(f, k, v)
  BY <1>1 DEF Emplace, Abs!Emplace
<1>3. \A f, S : Abs!Without(f, S) = Without(f, S)
  BY DEF Without, Abs!Without
<1>4. \A r : Abs!Refs(r) = Refs(r)
  BY DEF Refs, Abs!Refs
<1>5. \A S : Abs!Cardinality(S) = Cardinality(S)
  BY DEF Cardinality, Abs!Cardinality
<1>6. \A r, k : Abs!Oldest(r, k) = Oldest(r, k)
  BY <1>5, Zenon DEF Oldest, Abs!Oldest
<1>7. Abs!EmptyMem = EmptyMem
  BY DEF EmptyMem, Abs!EmptyMem, Nothing, Abs!Nothing
<1>8. \A m, e : Abs!AppendEvent(m, e) = AppendEvent(m, e)
  BY <1>1, <1>2, <1>5, Zenon DEF AppendEvent, Abs!AppendEvent
<1>9. \A m, c : Abs!AppendClockEvent(m, c) = AppendClockEvent(m, c)
  BY <1>1, <1>2, <1>4, ZenonT(30) DEF AppendClockEvent, Abs!AppendClockEvent
<1>10. \A m, c : Abs!UpdateClockEvent(m, c) = UpdateClockEvent(m, c)
  BY <1>1 DEF UpdateClockEvent, Abs!UpdateClockEvent
<1>11. ASSUME NEW m, NEW c, NEW k PROVE Abs!PruneChain(m, c, k) = PruneChain(m, c, k)
  <2> DEFINE old == Oldest(m.ring[c], k)
             gone == old \cap DOMAIN m.clocks
             dead == {m.clocks[s].hash : s \in gone}
  <2>1. {p \in m.referencing : ~(p[2] \in gone /\ p[1] \in Abs!Refs(m.clocks[p[2]]))} =
        {p \in m.referencing : ~(p[2] \in gone /\ p[1] \in Refs(m.clocks[p[2]]))}
    BY <1>4
  <2>2. Abs!Oldest(m.ring[c], k) = old
    BY <1>6, Zenon
  <2>3. /\ Abs!Put(m.ring, c, m.ring[c] \ old) = Put(m.ring, c, m.ring[c] \ old)
        /\ Abs!Without(m.clock_seq, dead) = Without(m.clock_seq, dead)
        /\ Abs!Without(m.clocks, gone) = Without(m.clocks, gone)
    BY <1>1, <1>3
  <2> QED BY <2>1, <2>2, <2>3, Zenon DEF PruneChain, Abs!PruneChain
<1>12. TAKE m, o
<1> QED BY <1>1, <1>7, <1>8, <1>9, <1>10, <1>11, Zenon DEF Apply, Abs!Apply

\* What the reads return is determined by the disk.
LEMMA AbsMem == Inv => absMem = MemOf(disk)
BY DEF Inv, absMem, MemOf

\* A new store is a new store of the port.
LEMMA RefinesInit == LmdbInit => Abs!StoreInit
<1> SUFFICES ASSUME LmdbInit PROVE Abs!StoreInit
  OBVIOUS
<1>1. MemOf(EmptyDisk) = EmptyMem
  BY EmptyImage, Zenon
<1>2. Abs!EmptyMem = EmptyMem
  BY DEF EmptyMem, Abs!EmptyMem, Nothing, Abs!Nothing
<1>3. absMem = EmptyMem
  BY <1>1 DEF LmdbInit, absMem, MemOf
<1>4. absPast = {EmptyMem}
  BY <1>1 DEF LmdbInit, absPast, MemOf
<1> QED BY <1>2, <1>3, <1>4 DEF LmdbInit, Abs!StoreInit, absMem, absPast

\* Each step of the store is a step of the port or none: opening and growing the map change
\* nothing a client sees, a commit or an early return performs the call, a rejection or an
\* I/O error is a throw, and the process ends with or without what was not yet durable.
LEMMA RefinesStep ==
    ASSUME Inv, Inv', [LmdbNext]_lmdbVars
    PROVE  [Abs!StoreNext]_(Abs!storeVars)
<1>1. absMem = MemOf(disk) /\ absMem' = MemOf(disk')
  <2>1. (absMem = MemOf(disk))'
    BY AbsMem, PTL
  <2> QED BY <2>1, AbsMem, Zenon DEF MemOf, Seed, NextSeq, ChainsOf, RingOf, ClockAt, Image, EventAt,
                                  LoadNeighbors, LoadTimedRoutes
<1>2. absPast = {MemOf(d) : d \in kept} /\ absPast' = {MemOf(d) : d \in kept'}
  BY Zenon DEF absPast, MemOf, Seed, NextSeq, ChainsOf, RingOf, ClockAt, Image, EventAt, LoadNeighbors,
     LoadTimedRoutes
<1>3. disk' = disk => absMem' = absMem
  BY <1>1
<1>4. kept' = kept => absPast' = absPast
  BY <1>2, Zenon
<1>5. ASSUME NEW o \in Call, Legal(o), Invoke(o) PROVE Abs!Invoke
  <2>1. call = NoCall /\ call' \in Call /\ ret' = "none" /\ lazy' = lazy
    BY <1>5 DEF Invoke
  <2>2. absMem' = absMem /\ absPast' = absPast
    BY <1>3, <1>4, <1>5, Zenon DEF Invoke
  <2> QED BY <2>1, <2>2, Zenon DEF Abs!Invoke, absMem, absPast
<1>6. ASSUME call \in Call, call # NoCall, call' = NoCall, ret' = "ok", lazy' = lazy,
             MemOf(disk') = Apply(MemOf(disk), call),
             absPast' = IF lazy THEN absPast \cup {MemOf(disk')} ELSE {MemOf(disk')}
      PROVE  Abs!Perform
  <2>1. absMem' = Abs!Apply(absMem, call)
    BY <1>1, <1>6, SameMeaning, Zenon
  <2>2. absPast' = IF lazy THEN absPast \cup {absMem'} ELSE {absMem'}
    BY <1>1, <1>6
  <2> QED BY <1>6, <2>1, <2>2, Zenon DEF Abs!Perform, absMem, absPast
<1>7. ASSUME Commit PROVE Abs!Perform
  <2> DEFINE e == Staged(call).db
  <2>1. /\ call # NoCall /\ call' = NoCall /\ ret' = "ok" /\ lazy' = lazy
        /\ disk' = e /\ kept' = (IF lazy THEN kept \cup {e} ELSE {e})
    BY <1>7, Zenon DEF Commit
  <2>2. Current /\ call \in Call /\ Legal(call) /\ ~Unknown(call) /\ ~NothingToPrune(call)
    BY <1>7 DEF Commit, Inv, Current
  <2>3. Achieves(call)
    BY <2>2, CommitAchieves, Zenon
  <2>4. MemOf(disk') = Apply(MemOf(disk), call)
    BY <2>1, <2>3, Zenon DEF Achieves
  <2> HIDE DEF e
  <2>5. absPast' = IF lazy THEN absPast \cup {MemOf(disk')} ELSE {MemOf(disk')}
    BY <1>2, <2>1
  <2> QED BY <1>6, <2>1, <2>2, <2>4, <2>5, Zenon
<1>8. ASSUME ReturnEarly PROVE Abs!Perform
  <2>1. /\ call # NoCall /\ call' = NoCall /\ ret' = "ok" /\ lazy' = lazy
        /\ disk' = disk /\ kept' = kept /\ NothingToPrune(call)
    BY <1>8, Zenon DEF ReturnEarly
  <2>2. Current /\ call \in Call /\ disk \in kept /\ (~lazy => kept = {disk})
    BY <2>1 DEF Inv, Current
  <2>3. call.name = "prune_chain" /\ call.keep \in Nat
    <3>1. call.name = "prune_chain"
      BY <2>1, Zenon DEF NothingToPrune
    <3>2. call \in [name : {"prune_chain"}, chain : Chains, keep : Keeps]
      BY <3>1, <2>2 DEF Call
    <3> QED BY <3>1, <3>2, ChainAssumption, Zenon
  <2>4. MemOf(disk') = Apply(MemOf(disk), call)
    BY <2>1, <2>2, <2>3, EarlyReturn, Zenon
  <2>5. absPast' = IF lazy THEN absPast \cup {MemOf(disk')} ELSE {MemOf(disk')}
    BY <1>2, <2>1, <2>2, Zenon
  <2> QED BY <1>6, <2>1, <2>2, <2>4, <2>5, Zenon
<1>9. ASSUME Throws(call), call # NoCall PROVE Abs!Throw
  <2>1. call' = NoCall /\ ret' = "threw" /\ lazy' = lazy /\ disk' = disk /\ kept' = kept
    BY <1>9, Zenon DEF Throws
  <2> QED BY <1>3, <1>4, <1>9, <2>1, Zenon DEF Abs!Throw, absMem, absPast
<1>10. ASSUME Sync PROVE Abs!Flush
  <2>1. /\ kept' = {disk} /\ disk' = disk /\ lazy' = lazy /\ call' = call /\ ret' = ret
    BY <1>10 DEF Sync
  <2>2. absPast' = {absMem} /\ absMem' = absMem
    BY <1>1, <1>2, <1>3, <2>1, Zenon
  <2> QED BY <2>1, <2>2, Zenon DEF Abs!Flush, absMem, absPast
<1>11. ASSUME Down(disk, kept) PROVE Abs!Exit
  <2>1. call' = NoCall /\ ret' = "none" /\ lazy' = lazy /\ disk' = disk /\ kept' = kept
    BY <1>11, Zenon DEF Down
  <2> QED BY <1>3, <1>4, <2>1, Zenon DEF Abs!Exit, absMem, absPast
<1>12. ASSUME NEW d \in kept, Down(d, {d}) PROVE Abs!Crash
  <2>1. call' = NoCall /\ ret' = "none" /\ lazy' = lazy /\ disk' = d /\ kept' = {d}
    BY <1>12 DEF Down
  <2>2. absMem' \in absPast /\ absPast' = {absMem'}
    BY <1>1, <1>2, <2>1, Zenon
  <2> QED BY <2>1, <2>2, Zenon DEF Abs!Crash, absMem, absPast
<1>13. ASSUME disk' = disk, kept' = kept, lazy' = lazy, call' = call, ret' = ret
       PROVE  UNCHANGED Abs!storeVars
  BY <1>3, <1>4, <1>13, Zenon DEF Abs!storeVars, absMem, absPast
<1>14. CASE Open
  BY <1>13, <1>14, Zenon DEF Open
<1>15. CASE GrowMap \/ SyncFails
  BY <1>13, <1>15, Zenon DEF GrowMap, SyncFails
<1>16. CASE UNCHANGED lmdbVars
  BY <1>13, <1>16, Zenon DEF lmdbVars
<1>17. CASE Rejected \/ IoError
  <2>1. Throws(call) /\ call # NoCall
    BY <1>17 DEF Rejected, IoError
  <2> QED BY <1>9, <2>1, Zenon DEF Abs!StoreNext
<1>18. CASE PowerFailure
  <2>1. PICK d \in kept : Down(d, {d})
    BY <1>18 DEF PowerFailure
  <2> QED BY <1>12, <2>1, Zenon DEF Abs!StoreNext
<1>19. CASE Killed \/ PruneDies
  <2>1. Down(disk, kept)
    BY <1>19 DEF Killed, PruneDies
  <2> QED BY <1>11, <2>1, Zenon DEF Abs!StoreNext
<1>20. CASE \E o \in Call : Legal(o) /\ Invoke(o)
  BY <1>5, <1>20, Zenon DEF Abs!StoreNext
<1>21. CASE Commit \/ ReturnEarly
  BY <1>7, <1>8, <1>21, Zenon DEF Abs!StoreNext
<1>22. CASE Sync
  BY <1>10, <1>22 DEF Abs!StoreNext
<1> QED BY <1>14, <1>15, <1>16, <1>17, <1>18, <1>19, <1>20, <1>21, <1>22, Zenon
     DEF LmdbNext, StoreStep

\* The LMDB store implements the Store port, crashes, failed calls and map growth included.
THEOREM LmdbImplementsPort == LmdbSpec => ImplementsPort
<1>1. LmdbInit => Abs!StoreInit
  BY RefinesInit
<1>2. Inv /\ Inv' /\ [LmdbNext]_lmdbVars => [Abs!StoreNext]_(Abs!storeVars)
  BY RefinesStep
<1> QED BY <1>1, <1>2, StoreInvariant, PTL DEF LmdbSpec, ImplementsPort, Abs!StoreSpec
=============================================================================
