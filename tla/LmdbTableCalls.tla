--------------------------- MODULE LmdbTableCalls ---------------------------
(***************************************************************************)
(* Facts about the sub-databases of the LMDB store: what the counters and  *)
(* per-chain trackers derived from them are after an append or a prune,    *)
(* the invariant of every disk that some commit produced, and its image in *)
(* the terms of the in-memory store; and what the commit of a call achieves, *)
(* for the calls that touch no clock event: put_neighbor, put_route,       *)
(* put_timed_routes, clear and append_event.                               *)
(***************************************************************************)
EXTENDS LmdbStore, TLAPS, FiniteSetTheorems

-----------------------------------------------------------------------------
(* The greatest element of a set of numbers. *)

IsTop(S, m) == m \in S /\ \A s \in S : s <= m
Top(S) == CHOOSE m \in S : \A s \in S : s <= m
HasTop(S) == \E m \in S : IsTop(S, m)

\* A greatest element is the one CHOOSE finds.
LEMMA TopIs ==
    ASSUME NEW S \in SUBSET Nat, NEW m, IsTop(S, m)
    PROVE  Top(S) = m
<1> DEFINE P(x) == x \in S /\ \A s \in S : s <= x
<1>1. P(m)
  BY DEF IsTop
<1>2. P(Top(S))
  BY <1>1, Zenon DEF Top
<1>3. m \in Nat /\ Top(S) \in Nat /\ m <= Top(S) /\ Top(S) <= m
  BY <1>1, <1>2, Zenon
<1> QED BY <1>3

\* The next sequence number of a log is 0 or one past its last key.
LEMMA NextSeqIs ==
    ASSUME NEW f, DOMAIN f \subseteq Nat, DOMAIN f = {} \/ HasTop(DOMAIN f)
    PROVE  /\ NextSeq(f) \in Nat
           /\ \A s \in DOMAIN f : s < NextSeq(f)
           /\ \A m : IsTop(DOMAIN f, m) => NextSeq(f) = m + 1
<1>1. CASE DOMAIN f = {}
  BY <1>1 DEF NextSeq, IsTop
<1>2. CASE HasTop(DOMAIN f) /\ DOMAIN f # {}
  <2>1. PICK m \in DOMAIN f : IsTop(DOMAIN f, m)
    BY <1>2 DEF HasTop
  <2>2. Top(DOMAIN f) = m
    BY <2>1, TopIs
  <2>3. NextSeq(f) = 1 + m
    BY <1>2, <2>2, Zenon DEF NextSeq, Top
  <2>4. m \in Nat
    BY <2>1
  <2>5. \A s \in DOMAIN f : s \in Nat /\ s <= m
    BY <2>1 DEF IsTop
  <2>6. \A k : IsTop(DOMAIN f, k) => k = m
    BY <2>2, TopIs
  <2> QED BY <2>3, <2>4, <2>5, <2>6
<1> QED BY <1>1, <1>2, Zenon

-----------------------------------------------------------------------------
(* What the sequence counters and trackers are derived from. *)

\* The clock events of a disk are numbered by naturals; the log and the ring of every chain
\* have a last one.  (Existence of a greatest element is carried along as an invariant.)
Numbered(d) ==
    /\ DOMAIN d.clock_events \subseteq Nat
    /\ DOMAIN d.clock_events = {} \/ HasTop(DOMAIN d.clock_events)
    /\ \A c \in ChainsOf(d) : HasTop(RingOf(d, c))

\* A disk that numbers its clock events alike, on the same chains, has the same trackers.
LEMMA SameChains ==
    ASSUME NEW d, NEW e, DOMAIN e.clock_events = DOMAIN d.clock_events,
           \A s \in DOMAIN d.clock_events : ClockAt(e, s).chain = ClockAt(d, s).chain
    PROVE  /\ \A c : RingOf(e, c) = RingOf(d, c)
           /\ ChainsOf(e) = ChainsOf(d)
           /\ Numbered(d) => Numbered(e)
           /\ Seed(e).next_clock = Seed(d).next_clock
           /\ Seed(e).tip = Seed(d).tip
           /\ Seed(e).ring = Seed(d).ring
<1>1. \A c : RingOf(e, c) = RingOf(d, c)
  BY DEF RingOf
<1>2. ChainsOf(e) = ChainsOf(d)
  BY DEF ChainsOf
<1>3. Numbered(d) => Numbered(e)
  BY <1>1, <1>2 DEF Numbered
<1>4. Seed(e).next_clock = Seed(d).next_clock
  BY DEF Seed, NextSeq
<1>5. Seed(e).tip = Seed(d).tip
  BY <1>1, <1>2 DEF Seed
<1>6. Seed(e).ring = Seed(d).ring
  BY <1>1, <1>2 DEF Seed
<1> QED BY <1>1, <1>2, <1>3, <1>4, <1>5, <1>6

\* What appending a clock event does to the trackers.
LEMMA AppendedClock ==
    ASSUME NEW d, Numbered(d), NEW c \in ClockRecs, NEW e, NEW n,
           n = NextSeq(d.clock_events),
           e.clock_events = Put(d.clock_events, n, Encode("clock", c))
    PROVE  /\ n \in Nat /\ n \notin DOMAIN d.clock_events
           /\ DOMAIN e.clock_events = DOMAIN d.clock_events \cup {n}
           /\ ClockAt(e, n) = c
           /\ \A s \in DOMAIN d.clock_events : ClockAt(e, s) = ClockAt(d, s)
           /\ Numbered(e)
           /\ Seed(e).next_clock = n + 1
           /\ Seed(e).tip = Put(Seed(d).tip, c.chain, n)
           /\ Seed(e).ring = Put(Seed(d).ring, c.chain, RingOf(d, c.chain) \cup {n})
<1>1. n \in Nat /\ \A s \in DOMAIN d.clock_events : s \in Nat /\ s < n
  BY NextSeqIs, Zenon DEF Numbered
<1>2. n \notin DOMAIN d.clock_events
  BY <1>1
<1>3. DOMAIN e.clock_events = DOMAIN d.clock_events \cup {n}
  BY DEF Put
<1>4. ClockAt(e, n) = c
  BY CodecAssumption DEF ClockAt, Put
<1>5. \A s \in DOMAIN d.clock_events : ClockAt(e, s) = ClockAt(d, s)
  BY <1>2 DEF ClockAt, Put
<1>6. ChainsOf(e) = ChainsOf(d) \cup {c.chain}
  BY <1>3, <1>4, <1>5 DEF ChainsOf
<1>7. \A k : k # c.chain => RingOf(e, k) = RingOf(d, k)
  BY <1>2, <1>3, <1>4, <1>5 DEF RingOf
<1>8. RingOf(e, c.chain) = RingOf(d, c.chain) \cup {n}
  BY <1>2, <1>3, <1>4, <1>5 DEF RingOf
<1>9. IsTop(RingOf(e, c.chain), n) /\ IsTop(DOMAIN e.clock_events, n)
  <2>1. RingOf(d, c.chain) \subseteq DOMAIN d.clock_events
    BY DEF RingOf
  <2> QED BY <2>1, <1>1, <1>3, <1>8 DEF IsTop
<1>10. DOMAIN e.clock_events \subseteq Nat
  BY <1>1, <1>3 DEF Numbered
<1>11. Numbered(e)
  <2>1. HasTop(DOMAIN e.clock_events) /\ HasTop(RingOf(e, c.chain))
    BY <1>9 DEF HasTop, IsTop
  <2>2. \A k \in ChainsOf(e) : HasTop(RingOf(e, k))
    BY <2>1, <1>6, <1>7 DEF Numbered
  <2> QED BY <2>1, <2>2, <1>10 DEF Numbered
<1>12. Seed(e).next_clock = n + 1
  BY <1>9, <1>10, <1>11, NextSeqIs DEF Seed, Numbered
<1>13. Seed(e).tip = Put(Seed(d).tip, c.chain, n)
  <2>1. Seed(e).tip = [k \in ChainsOf(e) |-> Top(RingOf(e, k))]
    BY DEF Seed, Top
  <2>2. Seed(d).tip = [k \in ChainsOf(d) |-> Top(RingOf(d, k))]
    BY DEF Seed, Top
  <2>3. RingOf(e, c.chain) \in SUBSET Nat
    BY <1>10 DEF RingOf
  <2>4. Top(RingOf(e, c.chain)) = n
    BY <2>3, <1>9, TopIs
  <2> QED BY <2>1, <2>2, <2>4, <1>6, <1>7 DEF Put
<1>14. Seed(e).ring = Put(Seed(d).ring, c.chain, RingOf(d, c.chain) \cup {n})
  <2>1. Seed(e).ring = [k \in ChainsOf(e) |-> RingOf(e, k)]
    BY DEF Seed
  <2>2. Seed(d).ring = [k \in ChainsOf(d) |-> RingOf(d, k)]
    BY DEF Seed
  <2>3. \A k \in ChainsOf(d) \ {c.chain} : RingOf(e, k) = Seed(d).ring[k]
    BY <2>2, <1>7
  <2>4. DOMAIN Seed(d).ring = ChainsOf(d)
    BY <2>2
  <2> QED BY <2>1, <2>3, <2>4, <1>6, <1>8 DEF Put
<1> QED BY <1>1, <1>2, <1>3, <1>4, <1>5, <1>11, <1>12, <1>13, <1>14

\* The newest entry of a ring is not among the oldest.
LEMMA TopStays ==
    ASSUME NEW S \in SUBSET Nat, NEW m, IsTop(S, m), NEW keep \in Nat \ {0}
    PROVE  m \notin Oldest(S, keep)
<1>1. m \in Nat /\ \A t \in S : t \in Nat /\ t <= m
  BY DEF IsTop
<1>2. {t \in S : t > m} = {}
  <2>1. \A t \in S : ~(t > m)
    BY <1>1
  <2> QED BY <2>1, Zenon
<1>3. Cardinality({t \in S : t > m}) = 0
  BY <1>2, FS_EmptySet
<1> QED BY <1>3 DEF Oldest

\* A ring that is no longer than its retention loses nothing.
LEMMA ShortRing ==
    ASSUME NEW S \in SUBSET Nat, IsFiniteSet(S), NEW keep \in Nat, Cardinality(S) <= keep
    PROVE  Oldest(S, keep) = {}
<1> SUFFICES ASSUME NEW s \in S
             PROVE  ~(Cardinality({t \in S : t > s}) >= keep)
  BY Zenon DEF Oldest
<1> DEFINE newer == {t \in S : t > s}
<1>1. IsFiniteSet(S \ {s}) /\ Cardinality(S \ {s}) = Cardinality(S) - 1
  BY FS_RemoveElement
<1>2. newer \in SUBSET (S \ {s})
  OBVIOUS
<1>3. IsFiniteSet(newer) /\ Cardinality(newer) <= Cardinality(S \ {s})
  BY <1>1, <1>2, FS_Subset
<1>4. Cardinality(S) \in Nat /\ Cardinality(newer) \in Nat
  BY <1>3, FS_CardinalityType
<1> HIDE DEF newer
<1>5. ~(Cardinality(newer) >= keep)
  BY <1>1, <1>3, <1>4
<1> QED BY <1>5 DEF newer

\* e is d without the entries old of chain c, with the trackers that belong to it.
Trimmed(d, e, c, old) ==
    /\ old \subseteq DOMAIN d.clock_events
    /\ DOMAIN e.clock_events = DOMAIN d.clock_events \ old
    /\ \A s \in DOMAIN e.clock_events : ClockAt(e, s) = ClockAt(d, s)
    /\ Numbered(e)
    /\ Seed(e).next_clock = Seed(d).next_clock
    /\ Seed(e).tip = Seed(d).tip
    /\ Seed(e).ring = Put(Seed(d).ring, c, RingOf(d, c) \ old)

\* What pruning a chain does to the trackers.
LEMMA PrunedClocks ==
    ASSUME NEW d, Numbered(d), NEW c \in ChainsOf(d), NEW keep \in Nat \ {0}, NEW old,
           old = Oldest(RingOf(d, c), keep), NEW e,
           e.clock_events = Without(d.clock_events, old)
    PROVE  Trimmed(d, e, c, old)
<1>1. old \subseteq RingOf(d, c) /\ RingOf(d, c) \subseteq DOMAIN d.clock_events
  BY DEF Oldest, RingOf
<1>2. DOMAIN e.clock_events = DOMAIN d.clock_events \ old
  BY DEF Without
<1>3. \A s \in DOMAIN e.clock_events : ClockAt(e, s) = ClockAt(d, s)
  BY <1>2 DEF ClockAt, Without
<1>4. ASSUME NEW k PROVE RingOf(e, k) = RingOf(d, k) \ old
  <2>1. \A s : s \in RingOf(e, k) <=> s \in RingOf(d, k) /\ s \notin old
    BY <1>2, <1>3 DEF RingOf
  <2> QED BY <2>1
<1>5. \A k : k # c => RingOf(e, k) = RingOf(d, k)
  <2>1. \A k : k # c => RingOf(d, k) \cap old = {}
    BY <1>1 DEF RingOf
  <2> QED BY <2>1, <1>4
<1>6. \A k : RingOf(d, k) \in SUBSET Nat
  BY DEF RingOf, Numbered
<1>7. \A k, m : IsTop(RingOf(d, k), m) => IsTop(RingOf(e, k), m)
  <2> SUFFICES ASSUME NEW k, NEW m, IsTop(RingOf(d, k), m)
               PROVE  IsTop(RingOf(e, k), m)
    OBVIOUS
  <2>1. CASE k # c
    BY <2>1, <1>5
  <2>2. CASE k = c
    <3>1. m \notin old
      BY <2>2, <1>6, TopStays
    <3> QED BY <3>1, <1>4 DEF IsTop
  <2> QED BY <2>1, <2>2
<1>8. ChainsOf(e) = ChainsOf(d)
  <2>1. ChainsOf(e) \subseteq ChainsOf(d)
    BY <1>2, <1>3 DEF ChainsOf
  <2>2. ASSUME NEW k \in ChainsOf(d) PROVE k \in ChainsOf(e)
    <3>1. PICK m : IsTop(RingOf(d, k), m)
      BY DEF Numbered, HasTop
    <3>2. m \in RingOf(e, k)
      BY <3>1, <1>7 DEF IsTop
    <3> QED BY <3>2, Zenon DEF RingOf, ChainsOf
  <2> QED BY <2>1, <2>2
<1>9. \A m : IsTop(DOMAIN d.clock_events, m) => IsTop(DOMAIN e.clock_events, m)
  <2> SUFFICES ASSUME NEW m, IsTop(DOMAIN d.clock_events, m)
               PROVE  IsTop(DOMAIN e.clock_events, m)
    OBVIOUS
  <2> DEFINE k == ClockAt(d, m).chain
  <2>1. IsTop(RingOf(d, k), m)
    BY DEF IsTop, RingOf
  <2>2. m \in RingOf(e, k)
    BY <2>1, <1>7 DEF IsTop
  <2>3. m \in DOMAIN e.clock_events
    BY <2>2 DEF RingOf
  <2> QED BY <2>3, <1>2 DEF IsTop
<1>10. \A k \in ChainsOf(e) : HasTop(RingOf(e, k))
  <2> SUFFICES ASSUME NEW k \in ChainsOf(d) PROVE HasTop(RingOf(e, k))
    BY <1>8
  <2>1. PICK m : IsTop(RingOf(d, k), m)
    BY DEF Numbered, HasTop
  <2> QED BY <2>1, <1>7 DEF HasTop, IsTop
<1>11. PICK m : IsTop(DOMAIN d.clock_events, m)
  <2>1. DOMAIN d.clock_events # {}
    BY DEF ChainsOf
  <2> QED BY <2>1 DEF Numbered, HasTop
<1>12. IsTop(DOMAIN e.clock_events, m)
  BY <1>9, <1>11
<1>13. Numbered(e)
  <2>1. HasTop(DOMAIN e.clock_events)
    BY <1>12 DEF HasTop, IsTop
  <2> QED BY <2>1, <1>2, <1>10 DEF Numbered
<1>14. Seed(e).next_clock = Seed(d).next_clock
  <2>1. NextSeq(e.clock_events) = m + 1
    BY <1>12, <1>13, NextSeqIs DEF Numbered
  <2>2. NextSeq(d.clock_events) = m + 1
    BY <1>11, NextSeqIs, Zenon DEF Numbered
  <2> QED BY <2>1, <2>2 DEF Seed
<1>15. Seed(e).tip = Seed(d).tip
  <2>1. Seed(e).tip = [k \in ChainsOf(d) |-> Top(RingOf(e, k))]
    BY <1>8 DEF Seed, Top
  <2>2. Seed(d).tip = [k \in ChainsOf(d) |-> Top(RingOf(d, k))]
    BY DEF Seed, Top
  <2>3. ASSUME NEW k \in ChainsOf(d) PROVE Top(RingOf(e, k)) = Top(RingOf(d, k))
    <3>1. PICK x : IsTop(RingOf(d, k), x)
      BY DEF Numbered, HasTop
    <3>2. Top(RingOf(d, k)) = x
      BY <3>1, <1>6, TopIs
    <3>3. IsTop(RingOf(e, k), x) /\ RingOf(e, k) \in SUBSET Nat
      BY <3>1, <1>4, <1>6, <1>7
    <3>4. Top(RingOf(e, k)) = x
      BY <3>3, TopIs
    <3> QED BY <3>2, <3>4
  <2> QED BY <2>1, <2>2, <2>3
<1>16. Seed(e).ring = Put(Seed(d).ring, c, RingOf(d, c) \ old)
  <2>1. Seed(e).ring = [k \in ChainsOf(d) |-> RingOf(e, k)]
    BY <1>8 DEF Seed
  <2>2. Seed(d).ring = [k \in ChainsOf(d) |-> RingOf(d, k)]
    BY DEF Seed
  <2>3. \A k \in ChainsOf(d) \ {c} : RingOf(e, k) = Seed(d).ring[k]
    BY <2>2, <1>5
  <2>4. DOMAIN Seed(d).ring = ChainsOf(d) /\ ChainsOf(d) \cup {c} = ChainsOf(d)
    BY <2>2, Zenon
  <2> QED BY <2>1, <2>3, <2>4, <1>4 DEF Put
<1> QED BY <1>1, <1>2, <1>3, <1>13, <1>14, <1>15, <1>16 DEF Trimmed

-----------------------------------------------------------------------------
(* The invariant of a disk that some commit produced. *)

IsDisk(d) == /\ DOMAIN d = {"events", "event_index", "clock_events", "clock_index",
                            "referencing", "neighbors", "routes", "timed_routes"}
             /\ d = [z \in DOMAIN d |-> d[z]]

EventsAgree(d) ==
    /\ NextSeq(d.events) \in Nat
    /\ DOMAIN d.events = 0 .. NextSeq(d.events) - 1
    /\ \A s \in DOMAIN d.events : /\ EventAt(d, s).hash \in DOMAIN d.event_index
                                  /\ d.event_index[EventAt(d, s).hash] = s
    /\ \A h \in DOMAIN d.event_index : /\ d.event_index[h] \in DOMAIN d.events
                                       /\ EventAt(d, d.event_index[h]).hash = h

ClocksAgree(d) ==
    /\ d.clock_index = [h \in DOMAIN d.clock_index |-> d.clock_index[h]]
    /\ \A s \in DOMAIN d.clock_events : /\ ClockAt(d, s).hash \in DOMAIN d.clock_index
                                        /\ d.clock_index[ClockAt(d, s).hash] = s
    /\ \A h \in DOMAIN d.clock_index : /\ d.clock_index[h] \in DOMAIN d.clock_events
                                       /\ ClockAt(d, d.clock_index[h]).hash = h

EdgesAgree(d) ==
    /\ \A s \in DOMAIN d.clock_events : Refs(ClockAt(d, s)) \X {s} \subseteq d.referencing
    /\ \A p \in d.referencing : /\ p[2] \in DOMAIN d.clock_events
                                /\ p[1] \in Refs(ClockAt(d, p[2]))

Good(d) == IsDisk(d) /\ Numbered(d) /\ EventsAgree(d) /\ ClocksAgree(d) /\ EdgesAgree(d)

\* The strengthening implies what reads rely on.
LEMMA GoodConsistent ==
    ASSUME NEW d, Good(d)
    PROVE  Consistent(d)
BY DEF Good, EventsAgree, ClocksAgree, EdgesAgree, Consistent

\* The trackers of two disks are equal when their four parts are.
LEMMA SeedIs ==
    ASSUME NEW d, NEW ne, NEW nc, NEW tip, NEW ring,
           Seed(d).next_event = ne, Seed(d).next_clock = nc,
           Seed(d).tip = tip, Seed(d).ring = ring
    PROVE  Seed(d) = [next_event |-> ne, next_clock |-> nc, tip |-> tip, ring |-> ring]
BY Zenon DEF Seed

\* A new file is good, and its counters and trackers are those of an empty store.
LEMMA EmptyGood == Good(EmptyDisk) /\ Seed(EmptyDisk) = EmptyRam
<1>1. DOMAIN Nothing = {}
  BY DEF Nothing
<1>2. IsDisk(EmptyDisk)
  BY DEF IsDisk, EmptyDisk
<1>3. /\ EmptyDisk.events = Nothing /\ EmptyDisk.event_index = Nothing
      /\ EmptyDisk.clock_events = Nothing /\ EmptyDisk.clock_index = Nothing
      /\ EmptyDisk.referencing = {}
  BY DEF EmptyDisk
<1>4. NextSeq(Nothing) = 0
  BY <1>1 DEF NextSeq
<1>5. ChainsOf(EmptyDisk) = {}
  BY <1>1, <1>3 DEF ChainsOf
<1>6. Numbered(EmptyDisk)
  BY <1>1, <1>3, <1>5 DEF Numbered
<1>7. EventsAgree(EmptyDisk)
  BY <1>1, <1>3, <1>4 DEF EventsAgree
<1>8. ClocksAgree(EmptyDisk)
  BY <1>1, <1>3 DEF ClocksAgree
<1>9. EdgesAgree(EmptyDisk)
  BY <1>1, <1>3 DEF EdgesAgree
<1>10. Seed(EmptyDisk) = EmptyRam
  <2>1. Seed(EmptyDisk).next_event = 0 /\ Seed(EmptyDisk).next_clock = 0
    BY <1>3, <1>4 DEF Seed
  <2>2. Seed(EmptyDisk).tip = Nothing
    BY <1>5 DEF Seed, Nothing
  <2>3. Seed(EmptyDisk).ring = Nothing
    BY <1>5 DEF Seed, Nothing
  <2>4. Seed(EmptyDisk) = [next_event |-> 0, next_clock |-> 0, tip |-> Nothing, ring |-> Nothing]
    BY <2>1, <2>2, <2>3, SeedIs
  <2> QED BY <2>4 DEF EmptyRam
<1> QED BY <1>2, <1>6, <1>7, <1>8, <1>9, <1>10, Zenon DEF Good

\* A disk with the same logs and indexes is as good, with the same trackers.
LEMMA SameLogs ==
    ASSUME NEW d, Good(d), NEW e, IsDisk(e),
           e.events = d.events, e.event_index = d.event_index,
           e.clock_events = d.clock_events, e.clock_index = d.clock_index,
           e.referencing = d.referencing
    PROVE  Good(e) /\ Seed(e) = Seed(d)
<1>1. \A s : ClockAt(e, s) = ClockAt(d, s) /\ EventAt(e, s) = EventAt(d, s)
  BY DEF ClockAt, EventAt
<1>2. Numbered(e)
  BY <1>1, SameChains, Zenon DEF Good
<1>3. EventsAgree(e)
  BY <1>1 DEF Good, EventsAgree
<1>4. ClocksAgree(e)
  BY <1>1 DEF Good, ClocksAgree
<1>5. EdgesAgree(e)
  BY <1>1 DEF Good, EdgesAgree
<1>6. Seed(e) = Seed(d)
  <2>1. /\ Seed(e).next_event = Seed(d).next_event
        /\ Seed(e).next_clock = Seed(d).next_clock
    BY Zenon DEF Seed
  <2>2. Seed(e).tip = Seed(d).tip /\ Seed(e).ring = Seed(d).ring
    BY <1>1, SameChains
  <2> QED BY <2>1, <2>2, SeedIs
<1> QED BY <1>2, <1>3, <1>4, <1>5, <1>6 DEF Good

-----------------------------------------------------------------------------
(* What the reads return, as the in-memory store holds it. *)

MemOf(d) == Image(d, Seed(d))

IsMem(m) == /\ DOMAIN m = {"events", "event_seq", "clocks", "clock_seq", "next_clock",
                           "referencing", "tip", "ring", "neighbors", "routes", "timed"}
            /\ m = [z \in DOMAIN m |-> m[z]]

\* Two such records are equal when their fields are.
LEMMA MemEqual ==
    ASSUME NEW m, IsMem(m), NEW n, IsMem(n),
           m.events = n.events, m.event_seq = n.event_seq, m.clocks = n.clocks,
           m.clock_seq = n.clock_seq, m.next_clock = n.next_clock,
           m.referencing = n.referencing, m.tip = n.tip, m.ring = n.ring,
           m.neighbors = n.neighbors, m.routes = n.routes, m.timed = n.timed
    PROVE  m = n
<1>1. \A z \in DOMAIN m : m[z] = n[z]
  BY Zenon DEF IsMem
<1> QED BY <1>1 DEF IsMem

\* The fields of the image.
LEMMA MemFields ==
    ASSUME NEW d
    PROVE  /\ IsMem(MemOf(d))
           /\ MemOf(d).events = [s \in DOMAIN d.events |-> EventAt(d, s)]
           /\ MemOf(d).event_seq = d.event_index
           /\ MemOf(d).clocks = [s \in DOMAIN d.clock_events |-> ClockAt(d, s)]
           /\ MemOf(d).clock_seq = d.clock_index
           /\ MemOf(d).next_clock = Seed(d).next_clock
           /\ MemOf(d).referencing = d.referencing
           /\ MemOf(d).tip = Seed(d).tip
           /\ MemOf(d).ring = Seed(d).ring
           /\ MemOf(d).neighbors = LoadNeighbors(d)
           /\ MemOf(d).routes = d.routes
           /\ MemOf(d).timed = LoadTimedRoutes(d)
<1>1. IsMem(MemOf(d))
  BY Zenon  DEF MemOf, Image, IsMem
<1> QED BY <1>1 DEF MemOf, Image

\* The empty file is the empty store.
LEMMA EmptyImage == MemOf(EmptyDisk) = EmptyMem
<1>1. IsMem(EmptyMem)
  BY DEF IsMem, EmptyMem
<1>2. MemOf(EmptyDisk).events = Nothing
  BY MemFields, ZenonT(30) DEF EmptyDisk, Nothing
<1>3. MemOf(EmptyDisk).clocks = Nothing
  BY MemFields, Zenon DEF EmptyDisk, Nothing
<1>4. MemOf(EmptyDisk).neighbors = Nothing /\ MemOf(EmptyDisk).timed = Nothing
  <2>1. LoadNeighbors(EmptyDisk) = Nothing
    BY DEF EmptyDisk, Nothing, LoadNeighbors
  <2>2. LoadTimedRoutes(EmptyDisk) = Nothing
    BY DEF EmptyDisk, Nothing, LoadTimedRoutes
  <2> QED BY <2>1, <2>2, MemFields, Zenon
<1>5. /\ MemOf(EmptyDisk).next_clock = 0
      /\ MemOf(EmptyDisk).tip = Nothing /\ MemOf(EmptyDisk).ring = Nothing
  <2>1. /\ Seed(EmptyDisk).next_clock = 0
        /\ Seed(EmptyDisk).tip = Nothing /\ Seed(EmptyDisk).ring = Nothing
    BY EmptyGood DEF EmptyRam
  <2> QED BY <2>1, MemFields, Zenon
<1>6. /\ MemOf(EmptyDisk).event_seq = Nothing /\ MemOf(EmptyDisk).clock_seq = Nothing
      /\ MemOf(EmptyDisk).referencing = {} /\ MemOf(EmptyDisk).routes = Nothing
  BY MemFields, Zenon DEF EmptyDisk
<1>7. IsMem(MemOf(EmptyDisk))
  BY MemFields, Zenon
<1> HIDE DEF EmptyDisk, EmptyMem
<1> QED BY <1>1, <1>2, <1>3, <1>4, <1>5, <1>6, <1>7, MemEqual, Zenon DEF EmptyMem

-----------------------------------------------------------------------------
(* What the commit of a call achieves: the disk stays good, RAM is what a    *)
(* reopening would derive, and the reads return what the in-memory store     *)
(* would.                                                                    *)

Achieves(o) == /\ Good(Staged(o).db)
               /\ Advanced(o, Staged(o)) = Seed(Staged(o).db)
               /\ MemOf(Staged(o).db) = Apply(MemOf(disk), o)

Current == Good(disk) /\ ram = Seed(disk)

\* A call that appends to no chain moves only the counters.
LEMMA AdvancedCounters ==
    ASSUME Current, NEW o, o.name \notin {"clear", "prune_chain"}, NEW b, b.appends = Nothing
    PROVE  Advanced(o, b) = [next_event |-> b.event_seq, next_clock |-> b.clock_seq,
                             tip |-> Seed(disk).tip, ring |-> Seed(disk).ring]
<1>1. DOMAIN b.appends = {}
  BY DEF Nothing
<1> DEFINE tip == [c \in DOMAIN ram.tip \cup DOMAIN b.appends |->
                      IF c \in DOMAIN b.appends THEN b.appends[c] ELSE ram.tip[c]]
           ring == [c \in DOMAIN ram.ring \cup DOMAIN b.appends |->
                      (IF c \in DOMAIN ram.ring THEN ram.ring[c] ELSE {})
                        \cup (IF c \in DOMAIN b.appends THEN {b.appends[c]} ELSE {})]
<1>2. /\ ram.tip = [c \in ChainsOf(disk) |-> Top(RingOf(disk, c))]
      /\ ram.ring = [c \in ChainsOf(disk) |-> RingOf(disk, c)]
  BY DEF Current, Seed, Top
<1>3. tip = ram.tip
  BY <1>1, <1>2
<1>4. ring = ram.ring
  BY <1>1, <1>2
<1>5. Advanced(o, b) = [next_event |-> b.event_seq, next_clock |-> b.clock_seq,
                        tip |-> tip, ring |-> ring]
  BY DEF Advanced
<1> HIDE DEF tip, ring
<1> QED BY <1>3, <1>4, <1>5 DEF Current

\* The write of one table that is neither log nor index.
LEMMA TableWritten ==
    ASSUME Current, NEW o, o.name \notin {"clear", "prune_chain"}, NEW e, IsDisk(e),
           Staged(o) = [db |-> e, event_seq |-> ram.next_event, clock_seq |-> ram.next_clock,
                        appends |-> Nothing],
           e.events = disk.events, e.event_index = disk.event_index,
           e.clock_events = disk.clock_events, e.clock_index = disk.clock_index,
           e.referencing = disk.referencing
    PROVE  /\ Good(Staged(o).db)
           /\ Advanced(o, Staged(o)) = Seed(Staged(o).db)
           /\ Staged(o).db = e /\ Seed(e) = Seed(disk)
<1>1. Staged(o).db = e /\ Staged(o).appends = Nothing
      /\ Staged(o).event_seq = ram.next_event /\ Staged(o).clock_seq = ram.next_clock
  OBVIOUS
<1>2. Good(e) /\ Seed(e) = Seed(disk)
  BY SameLogs, Zenon DEF Current
<1>3. Advanced(o, Staged(o)) = [next_event |-> ram.next_event, next_clock |-> ram.next_clock,
                                tip |-> Seed(disk).tip, ring |-> Seed(disk).ring]
  BY <1>1, AdvancedCounters, Zenon
<1>4. Seed(disk) = [next_event |-> ram.next_event, next_clock |-> ram.next_clock,
                    tip |-> Seed(disk).tip, ring |-> Seed(disk).ring]
  BY SeedIs DEF Current
<1> QED BY <1>1, <1>2, <1>3, <1>4, Zenon

\* Of such a disk, the reads of the logs, indexes and trackers return the same.
LEMMA TableReads ==
    ASSUME NEW d, NEW e, e.events = d.events, e.event_index = d.event_index,
           e.clock_events = d.clock_events, e.clock_index = d.clock_index,
           e.referencing = d.referencing, Seed(e) = Seed(d)
    PROVE  /\ MemOf(e).events = MemOf(d).events /\ MemOf(e).event_seq = MemOf(d).event_seq
           /\ MemOf(e).clocks = MemOf(d).clocks /\ MemOf(e).clock_seq = MemOf(d).clock_seq
           /\ MemOf(e).next_clock = MemOf(d).next_clock
           /\ MemOf(e).referencing = MemOf(d).referencing
           /\ MemOf(e).tip = MemOf(d).tip /\ MemOf(e).ring = MemOf(d).ring
<1>1. \A s : EventAt(e, s) = EventAt(d, s) /\ ClockAt(e, s) = ClockAt(d, s)
  BY DEF EventAt, ClockAt
<1>2. MemOf(e).events = MemOf(d).events
  BY <1>1, Zenon DEF MemOf, Image
<1>3. MemOf(e).clocks = MemOf(d).clocks
  BY <1>1, Zenon DEF MemOf, Image
<1>4. MemOf(e).event_seq = MemOf(d).event_seq /\ MemOf(e).clock_seq = MemOf(d).clock_seq
  BY Zenon DEF MemOf, Image
<1>5. MemOf(e).referencing = MemOf(d).referencing
  BY Zenon DEF MemOf, Image
<1>6. /\ MemOf(e).next_clock = MemOf(d).next_clock
      /\ MemOf(e).tip = MemOf(d).tip /\ MemOf(e).ring = MemOf(d).ring
  BY DEF MemOf, Image
<1> QED BY <1>2, <1>3, <1>4, <1>5, <1>6

\* put_neighbor.
LEMMA NeighborAchieves ==
    ASSUME Current, NEW o \in Call, o.name = "put_neighbor", o.rec \in NbrRecs
    PROVE  Achieves(o)
<1> DEFINE x == Put(disk.neighbors, o.id, Encode("neighbor", o.rec))
           e == [disk EXCEPT !.neighbors = x]
<1>1. Staged(o) = [NewBatch EXCEPT !.db = e]
  BY DEF Staged
<1>2. [NewBatch EXCEPT !.db = e] =
        [db |-> e, event_seq |-> ram.next_event, clock_seq |-> ram.next_clock,
         appends |-> Nothing]
  BY DEF NewBatch
<1>3. IsDisk(disk)
  BY DEF Current, Good
<1> HIDE DEF x
<1>4. IsDisk(e)
  BY <1>3 DEF IsDisk
<1>5. /\ e.events = disk.events /\ e.event_index = disk.event_index
      /\ e.clock_events = disk.clock_events /\ e.clock_index = disk.clock_index
      /\ e.referencing = disk.referencing /\ e.neighbors = x
      /\ e.routes = disk.routes /\ e.timed_routes = disk.timed_routes
  BY <1>3 DEF IsDisk
<1> HIDE DEF e
<1>6. /\ Good(Staged(o).db)
      /\ Advanced(o, Staged(o)) = Seed(Staged(o).db)
      /\ Staged(o).db = e /\ Seed(e) = Seed(disk)
  BY <1>1, <1>2, <1>4, <1>5, TableWritten
<1> DEFINE m == MemOf(disk)
           n == [m EXCEPT !.neighbors = Put(m.neighbors, o.id, o.rec)]
<1>7. Apply(m, o) = n
  BY DEF Apply
<1>8. MemOf(e).neighbors = Put(m.neighbors, o.id, o.rec)
  <2>1. Decode("neighbor", Encode("neighbor", o.rec)) = o.rec
    BY CodecAssumption, Zenon
  <2>2. MemOf(e).neighbors = [k \in DOMAIN x |-> Decode("neighbor", x[k])]
    BY <1>5, Zenon DEF MemOf, Image, LoadNeighbors
  <2>3. m.neighbors = [k \in DOMAIN disk.neighbors |-> Decode("neighbor", disk.neighbors[k])]
    BY DEF MemOf, Image, LoadNeighbors
  <2>4. DOMAIN x = DOMAIN disk.neighbors \cup {o.id}
    BY DEF x, Put
  <2>5. \A k \in DOMAIN x : Decode("neighbor", x[k]) = IF k = o.id THEN o.rec ELSE m.neighbors[k]
    BY <2>1, <2>3, <2>4 DEF x, Put
  <2>6. DOMAIN m.neighbors = DOMAIN disk.neighbors
    BY <2>3
  <2> HIDE DEF m
  <2> QED BY <2>2, <2>4, <2>5, <2>6 DEF Put
<1>9. IsMem(m) /\ IsMem(MemOf(e))
  BY MemFields, Zenon
<1>10. /\ MemOf(e).events = m.events /\ MemOf(e).event_seq = m.event_seq
       /\ MemOf(e).clocks = m.clocks /\ MemOf(e).clock_seq = m.clock_seq
       /\ MemOf(e).next_clock = m.next_clock /\ MemOf(e).referencing = m.referencing
       /\ MemOf(e).tip = m.tip /\ MemOf(e).ring = m.ring
  <2>1. /\ e.events = disk.events /\ e.event_index = disk.event_index
        /\ e.clock_events = disk.clock_events /\ e.clock_index = disk.clock_index
        /\ e.referencing = disk.referencing /\ Seed(e) = Seed(disk)
    BY <1>5, <1>6, Zenon
  <2> QED
    BY <2>1, TableReads
<1>11. MemOf(e).routes = m.routes /\ MemOf(e).timed = m.timed
  BY <1>5 DEF MemOf, Image, LoadTimedRoutes
<1> HIDE DEF m
<1>12. IsMem(n)
  BY <1>9 DEF IsMem
<1>13. MemOf(e) = n
  <2>1. /\ n.events = m.events /\ n.clocks = m.clocks
        /\ n.event_seq = m.event_seq /\ n.clock_seq = m.clock_seq
        /\ n.next_clock = m.next_clock /\ n.referencing = m.referencing
        /\ n.tip = m.tip /\ n.ring = m.ring
        /\ n.routes = m.routes /\ n.timed = m.timed
        /\ n.neighbors = Put(m.neighbors, o.id, o.rec)
    BY <1>9 DEF IsMem
  <2> HIDE DEF n
  <2> QED BY <2>1, <1>8, <1>9, <1>10, <1>11, <1>12, MemEqual, Zenon
<1> QED BY <1>6, <1>7, <1>13 DEF Achieves, m

\* put_route.
LEMMA RouteAchieves ==
    ASSUME Current, NEW o \in Call, o.name = "put_route"
    PROVE  Achieves(o)
<1> DEFINE x == Put(disk.routes, o.id, o.rec)
           e == [disk EXCEPT !.routes = x]
<1>1. Staged(o) = [NewBatch EXCEPT !.db = e]
  BY DEF Staged
<1>2. [NewBatch EXCEPT !.db = e] =
        [db |-> e, event_seq |-> ram.next_event, clock_seq |-> ram.next_clock,
         appends |-> Nothing]
  BY DEF NewBatch
<1>3. IsDisk(disk)
  BY DEF Current, Good
<1> HIDE DEF x
<1>4. IsDisk(e)
  BY <1>3 DEF IsDisk
<1>5. /\ e.events = disk.events /\ e.event_index = disk.event_index
      /\ e.clock_events = disk.clock_events /\ e.clock_index = disk.clock_index
      /\ e.referencing = disk.referencing /\ e.routes = x
      /\ e.neighbors = disk.neighbors /\ e.timed_routes = disk.timed_routes
  BY <1>3 DEF IsDisk
<1> HIDE DEF e
<1>6. /\ Good(Staged(o).db)
      /\ Advanced(o, Staged(o)) = Seed(Staged(o).db)
      /\ Staged(o).db = e /\ Seed(e) = Seed(disk)
  BY <1>1, <1>2, <1>4, <1>5, TableWritten
<1> DEFINE m == MemOf(disk)
           n == [m EXCEPT !.routes = x]
<1>7. Apply(m, o) = n
  <2>1. m.routes = disk.routes
    BY DEF MemOf, Image
  <2> HIDE DEF m
  <2> QED BY <2>1, Zenon DEF Apply, x
<1>8. IsMem(m) /\ IsMem(MemOf(e))
  BY MemFields, Zenon
<1>9. /\ MemOf(e).events = m.events /\ MemOf(e).event_seq = m.event_seq
      /\ MemOf(e).clocks = m.clocks /\ MemOf(e).clock_seq = m.clock_seq
      /\ MemOf(e).next_clock = m.next_clock /\ MemOf(e).referencing = m.referencing
      /\ MemOf(e).tip = m.tip /\ MemOf(e).ring = m.ring
  <2>1. /\ e.events = disk.events /\ e.event_index = disk.event_index
        /\ e.clock_events = disk.clock_events /\ e.clock_index = disk.clock_index
        /\ e.referencing = disk.referencing /\ Seed(e) = Seed(disk)
    BY <1>5, <1>6, Zenon
  <2> QED
    BY <2>1, TableReads
<1>10. MemOf(e).routes = x /\ MemOf(e).neighbors = m.neighbors /\ MemOf(e).timed = m.timed
  BY <1>5, Zenon DEF MemOf, Image, LoadNeighbors, LoadTimedRoutes
<1> HIDE DEF m
<1>11. IsMem(n)
  BY <1>8, Zenon DEF IsMem
<1>12. MemOf(e) = n
  <2>1. /\ n.events = m.events /\ n.clocks = m.clocks
        /\ n.event_seq = m.event_seq /\ n.clock_seq = m.clock_seq
        /\ n.next_clock = m.next_clock /\ n.referencing = m.referencing
        /\ n.tip = m.tip /\ n.ring = m.ring
        /\ n.neighbors = m.neighbors /\ n.timed = m.timed /\ n.routes = x
    BY <1>8 DEF IsMem
  <2> HIDE DEF n
  <2> QED BY <2>1, <1>8, <1>9, <1>10, <1>11, MemEqual, Zenon
<1> QED BY <1>6, <1>7, <1>12 DEF Achieves, m

\* put_timed_routes, when it does not throw.
LEMMA TimedRoutesAchieve ==
    ASSUME Current, NEW o \in Call, o.name = "put_timed_routes", o.rec \in Tables
    PROVE  Achieves(o)
<1> DEFINE x == [k \in DOMAIN o.rec |-> Encode("timed", o.rec[k])]
           e == [disk EXCEPT !.timed_routes = x]
<1>1. Staged(o) = [NewBatch EXCEPT !.db = e]
  BY DEF Staged
<1>2. [NewBatch EXCEPT !.db = e] =
        [db |-> e, event_seq |-> ram.next_event, clock_seq |-> ram.next_clock,
         appends |-> Nothing]
  BY DEF NewBatch
<1>3. IsDisk(disk)
  BY DEF Current, Good
<1> HIDE DEF x
<1>4. IsDisk(e)
  BY <1>3 DEF IsDisk
<1>5. /\ e.events = disk.events /\ e.event_index = disk.event_index
      /\ e.clock_events = disk.clock_events /\ e.clock_index = disk.clock_index
      /\ e.referencing = disk.referencing /\ e.timed_routes = x
      /\ e.neighbors = disk.neighbors /\ e.routes = disk.routes
  BY <1>3 DEF IsDisk
<1> HIDE DEF e
<1>6. /\ Good(Staged(o).db)
      /\ Advanced(o, Staged(o)) = Seed(Staged(o).db)
      /\ Staged(o).db = e /\ Seed(e) = Seed(disk)
  BY <1>1, <1>2, <1>4, <1>5, TableWritten
<1> DEFINE m == MemOf(disk)
           n == [m EXCEPT !.timed = o.rec]
<1>7. Apply(m, o) = n
  BY DEF Apply
<1>8. IsMem(m) /\ IsMem(MemOf(e))
  BY MemFields, Zenon
<1>9. /\ MemOf(e).events = m.events /\ MemOf(e).event_seq = m.event_seq
      /\ MemOf(e).clocks = m.clocks /\ MemOf(e).clock_seq = m.clock_seq
      /\ MemOf(e).next_clock = m.next_clock /\ MemOf(e).referencing = m.referencing
      /\ MemOf(e).tip = m.tip /\ MemOf(e).ring = m.ring
  <2>1. /\ e.events = disk.events /\ e.event_index = disk.event_index
        /\ e.clock_events = disk.clock_events /\ e.clock_index = disk.clock_index
        /\ e.referencing = disk.referencing /\ Seed(e) = Seed(disk)
    BY <1>5, <1>6, Zenon
  <2> QED
    BY <2>1, TableReads
<1>10. MemOf(e).neighbors = m.neighbors /\ MemOf(e).routes = m.routes
  BY <1>5 DEF MemOf, Image, LoadNeighbors
<1>13. MemOf(e).timed = o.rec
  <2>1. MemOf(e).timed = [k \in DOMAIN x |-> Decode("timed", x[k])]
    BY <1>5 DEF MemOf, Image, LoadTimedRoutes
  <2>2. [k \in DOMAIN x |-> Decode("timed", x[k])]
          = [k \in DOMAIN o.rec |-> Decode("timed", Encode("timed", o.rec[k]))]
    BY DEF x
  <2> QED BY <2>1, <2>2, CodecAssumption, Zenon
<1> HIDE DEF m
<1>11. IsMem(n)
  BY <1>8, Zenon DEF IsMem
<1>12. MemOf(e) = n
  <2>1. /\ n.events = m.events /\ n.clocks = m.clocks
        /\ n.event_seq = m.event_seq /\ n.clock_seq = m.clock_seq
        /\ n.next_clock = m.next_clock /\ n.referencing = m.referencing
        /\ n.tip = m.tip /\ n.ring = m.ring
        /\ n.neighbors = m.neighbors /\ n.routes = m.routes /\ n.timed = o.rec
    BY <1>8 DEF IsMem
  <2> HIDE DEF n
  <2> QED BY <2>1, <1>8, <1>9, <1>10, <1>11, <1>13, MemEqual, Zenon
<1> QED BY <1>6, <1>7, <1>12 DEF Achieves, m

\* clear.
LEMMA ClearAchieves ==
    ASSUME Current, NEW o \in Call, o.name = "clear"
    PROVE  Achieves(o)
<1>1. Staged(o).db = EmptyDisk
  BY DEF Staged, NewBatch
<1>2. Advanced(o, Staged(o)) = EmptyRam
  BY DEF Advanced
<1>3. Apply(MemOf(disk), o) = EmptyMem
  BY DEF Apply
<1> QED BY <1>1, <1>2, <1>3, EmptyGood, EmptyImage, Zenon DEF Achieves

\* Event v was appended to d under number n, which gave e.
EventAppended(d, v, n, e) ==
    /\ n \in Nat /\ n = Cardinality(DOMAIN d.events)
    /\ DOMAIN e.events = DOMAIN d.events \cup {n}
    /\ EventAt(e, n) = v
    /\ \A s \in DOMAIN d.events : s # n /\ EventAt(e, s) = EventAt(d, s)
    /\ NextSeq(e.events) = n + 1
    /\ EventsAgree(e)

\* What appending an event does to the event log and its index.
LEMMA AppendedEvent ==
    ASSUME NEW d, EventsAgree(d), NEW v \in EventRecs, v.hash \notin DOMAIN d.event_index,
           NEW n, n = NextSeq(d.events), NEW e,
           e.events = Put(d.events, n, Encode("event", v)),
           e.event_index = Put(d.event_index, v.hash, n)
    PROVE  EventAppended(d, v, n, e)
<1>1. n \in Nat /\ DOMAIN d.events = 0 .. n - 1
  BY DEF EventsAgree
<1>2. n = Cardinality(DOMAIN d.events)
  <2>1. Cardinality(0 .. n - 1) = IF 0 > n - 1 THEN 0 ELSE (n - 1) - 0 + 1
    BY <1>1, FS_Interval
  <2> QED BY <2>1, <1>1
<1>3. DOMAIN e.events = DOMAIN d.events \cup {n}
  BY DEF Put
<1>4. EventAt(e, n) = v
  BY CodecAssumption DEF EventAt, Put
<1>5. \A s \in DOMAIN d.events : s # n
  BY <1>1
<1>6. \A s \in DOMAIN d.events : EventAt(e, s) = EventAt(d, s)
  BY <1>5, Zenon DEF EventAt, Put
<1>7. NextSeq(e.events) = n + 1
  <2>1. DOMAIN e.events \subseteq Nat /\ IsTop(DOMAIN e.events, n)
    BY <1>1, <1>3 DEF IsTop
  <2>2. HasTop(DOMAIN e.events)
    BY <2>1, Zenon DEF HasTop, IsTop
  <2> QED BY <2>1, <2>2, NextSeqIs, Zenon
<1>8. EventsAgree(e)
  <2>1. DOMAIN e.events = 0 .. NextSeq(e.events) - 1
    <3>1. NextSeq(e.events) - 1 = n
      BY <1>1, <1>7
    <3>2. \A s : s \in 0 .. n <=> s \in 0 .. n - 1 \/ s = n
      BY <1>1
    <3>3. 0 .. n = DOMAIN e.events
      BY <1>1, <1>3, <3>2, Zenon
    <3> QED BY <3>1, <3>3
  <2>2. /\ DOMAIN e.event_index = DOMAIN d.event_index \cup {v.hash}
        /\ e.event_index[v.hash] = n
        /\ \A h \in DOMAIN d.event_index : e.event_index[h] = d.event_index[h]
    BY Zenon DEF Put
  <2>3. \A s \in DOMAIN e.events : /\ EventAt(e, s).hash \in DOMAIN e.event_index
                                   /\ e.event_index[EventAt(e, s).hash] = s
    BY <1>3, <1>4, <1>6, <2>2 DEF EventsAgree
  <2>4. \A h \in DOMAIN e.event_index : /\ e.event_index[h] \in DOMAIN e.events
                                        /\ EventAt(e, e.event_index[h]).hash = h
    BY <1>3, <1>4, <1>6, <2>2 DEF EventsAgree
  <2> QED BY <1>1, <1>7, <2>1, <2>3, <2>4 DEF EventsAgree
<1> QED BY <1>1, <1>2, <1>3, <1>4, <1>5, <1>6, <1>7, <1>8, Zenon DEF EventAppended

\* append_event.
LEMMA EventAchieves ==
    ASSUME Current, NEW o \in Call, o.name = "append_event", o.rec \in EventRecs, Legal(o)
    PROVE  Achieves(o)
<1> DEFINE k == ram.next_event
           x == Put(disk.events, k, Encode("event", o.rec))
           y == Put(disk.event_index, o.rec.hash, k)
           e == [disk EXCEPT !.events = x, !.event_index = y]
<1>1. Staged(o) = BatchAppendEvent(NewBatch, o.rec)
  BY DEF Staged
<1>2. BatchAppendEvent(NewBatch, o.rec) =
        [db |-> e, event_seq |-> k + 1, clock_seq |-> ram.next_clock, appends |-> Nothing]
  BY Zenon DEF BatchAppendEvent, NewBatch
<1>3. IsDisk(disk) /\ Good(disk) /\ k = NextSeq(disk.events)
  BY DEF Current, Good, Seed
<1>4. o.rec.hash \notin DOMAIN disk.event_index
  BY DEF Legal
<1> HIDE DEF x, y, k
<1>5. IsDisk(e)
  BY <1>3, Zenon DEF IsDisk
<1>6. /\ e.events = x /\ e.event_index = y
      /\ e.clock_events = disk.clock_events /\ e.clock_index = disk.clock_index
      /\ e.referencing = disk.referencing /\ e.neighbors = disk.neighbors
      /\ e.routes = disk.routes /\ e.timed_routes = disk.timed_routes
  BY <1>3, Zenon DEF IsDisk
<1> HIDE DEF e
<1>7. /\ k \in Nat /\ k = Cardinality(DOMAIN disk.events)
      /\ DOMAIN e.events = DOMAIN disk.events \cup {k}
      /\ EventAt(e, k) = o.rec
      /\ \A s \in DOMAIN disk.events : s # k /\ EventAt(e, s) = EventAt(disk, s)
      /\ NextSeq(e.events) = k + 1
      /\ EventsAgree(e)
  <2>1. EventsAgree(disk)
    BY <1>3, Zenon DEF Good
  <2>2. /\ e.events = Put(disk.events, k, Encode("event", o.rec))
        /\ e.event_index = Put(disk.event_index, o.rec.hash, k)
    BY <1>6, Zenon DEF x, y
  <2>3. EventAppended(disk, o.rec, k, e)
    BY <1>3, <1>4, <2>1, <2>2, AppendedEvent, Zenon
  <2> QED
    BY <2>3, Zenon DEF EventAppended
<1>8. \A s : ClockAt(e, s) = ClockAt(disk, s)
  BY <1>6 DEF ClockAt
<1>9. /\ Numbered(e) /\ Seed(e).next_clock = Seed(disk).next_clock
      /\ Seed(e).tip = Seed(disk).tip /\ Seed(e).ring = Seed(disk).ring
  BY <1>3, <1>6, <1>8, SameChains, Zenon DEF Good
<1>10. ClocksAgree(e)
  BY <1>3, <1>6, <1>8 DEF Good, ClocksAgree
<1>11. EdgesAgree(e)
  BY <1>3, <1>6, <1>8, Zenon DEF Good, EdgesAgree
<1>12. Good(e)
  BY <1>5, <1>7, <1>9, <1>10, <1>11, Zenon DEF Good
<1>13. Staged(o).db = e
  BY <1>1, <1>2
<1>14. Advanced(o, Staged(o)) = Seed(e)
  <2>1. /\ Staged(o).appends = Nothing /\ Staged(o).event_seq = k + 1
        /\ Staged(o).clock_seq = ram.next_clock
    BY <1>1, <1>2
  <2>2. Advanced(o, Staged(o)) = [next_event |-> k + 1, next_clock |-> ram.next_clock,
                                  tip |-> Seed(disk).tip, ring |-> Seed(disk).ring]
    BY <2>1, AdvancedCounters, Zenon
  <2>3. Seed(e).next_event = k + 1
    BY <1>7 DEF Seed
  <2>4. Seed(e).next_clock = ram.next_clock
    BY <1>9, Zenon DEF Current
  <2> QED BY <2>2, <2>3, <2>4, <1>9, SeedIs
<1> DEFINE m == MemOf(disk)
           n == [m EXCEPT !.events = Put(m.events, k, o.rec),
                          !.event_seq = Put(m.event_seq, o.rec.hash, k)]
<1>15. m.event_seq = disk.event_index /\ m.events = [s \in DOMAIN disk.events |-> EventAt(disk, s)]
  BY DEF MemOf, Image
<1>16. DOMAIN m.events = DOMAIN disk.events
  BY <1>15, Zenon
<1>17. Emplace(m.event_seq, o.rec.hash, k) = Put(m.event_seq, o.rec.hash, k)
  BY <1>4, <1>15 DEF Emplace
<1>18. IsMem(m) /\ IsMem(MemOf(e))
  BY MemFields, Zenon
<1>19. MemOf(e).events = Put(m.events, k, o.rec)
  <2>1. MemOf(e).events = [s \in DOMAIN disk.events \cup {k} |-> EventAt(e, s)]
    BY <1>7, Zenon DEF MemOf, Image
  <2>2. \A s \in DOMAIN disk.events : m.events[s] = EventAt(e, s)
    BY <1>7, <1>15, Zenon
  <2> HIDE DEF m
  <2> QED BY <2>1, <2>2, <1>7, <1>16, Zenon DEF Put
<1>20. MemOf(e).event_seq = Put(m.event_seq, o.rec.hash, k)
  BY <1>6, <1>15, Zenon DEF MemOf, Image, y
<1>21. MemOf(e).clocks = m.clocks
  BY <1>6, <1>8, Zenon DEF MemOf, Image
<1>22. /\ MemOf(e).clock_seq = m.clock_seq /\ MemOf(e).referencing = m.referencing
       /\ MemOf(e).routes = m.routes /\ MemOf(e).timed = m.timed
  BY <1>6, Zenon DEF MemOf, Image, LoadTimedRoutes
<1>23. /\ MemOf(e).next_clock = m.next_clock /\ MemOf(e).tip = m.tip /\ MemOf(e).ring = m.ring
  BY <1>9, Zenon DEF MemOf, Image
<1>24. MemOf(e).neighbors = m.neighbors
  BY <1>6, Zenon DEF MemOf, Image, LoadNeighbors
<1> HIDE DEF m
<1>25. Apply(m, o) = n
  <2>1. Apply(m, o) = AppendEvent(m, o.rec)
    BY DEF Apply
  <2> QED BY <2>1, <1>7, <1>16, <1>17, Zenon DEF AppendEvent
<1>26. IsMem(n)
  BY <1>18, Zenon DEF IsMem
<1>27. MemOf(e) = n
  <2>1. /\ n.events = Put(m.events, k, o.rec) /\ n.event_seq = Put(m.event_seq, o.rec.hash, k)
        /\ n.clocks = m.clocks /\ n.clock_seq = m.clock_seq
        /\ n.next_clock = m.next_clock /\ n.referencing = m.referencing
        /\ n.tip = m.tip /\ n.ring = m.ring
        /\ n.neighbors = m.neighbors /\ n.routes = m.routes /\ n.timed = m.timed
    BY <1>18, Zenon DEF IsMem
  <2> HIDE DEF n
  <2>2. /\ MemOf(e).events = n.events /\ MemOf(e).event_seq = n.event_seq
        /\ MemOf(e).clocks = n.clocks /\ MemOf(e).clock_seq = n.clock_seq
        /\ MemOf(e).next_clock = n.next_clock /\ MemOf(e).referencing = n.referencing
        /\ MemOf(e).tip = n.tip /\ MemOf(e).ring = n.ring
        /\ MemOf(e).neighbors = n.neighbors /\ MemOf(e).routes = n.routes
        /\ MemOf(e).timed = n.timed
    BY <2>1, <1>19, <1>20, <1>21, <1>22, <1>23, <1>24, Zenon
  <2> QED BY <2>2, <1>18, <1>26, MemEqual
<1> QED BY <1>12, <1>13, <1>14, <1>25, <1>27, Zenon DEF Achieves, m
=============================================================================
