--------------------------- MODULE LotiDagProofs ---------------------------
(***************************************************************************)
(* Proofs about LotiDag for every set of nodes, every number of chains,    *)
(* every retention and every bound.                                        *)
(***************************************************************************)
EXTENDS LotiDag, TLAPS

USE DEF dagVars

-----------------------------------------------------------------------------
\* The extension keeps a function's type.
LEMMA WithType ==
    ASSUME NEW f, NEW x, NEW v, NEW D, NEW T,
           DOMAIN f \subseteq D, f \in [DOMAIN f -> T], x \in D, v \in T
    PROVE  /\ DOMAIN With(f, x, v) \subseteq D
           /\ With(f, x, v) \in [DOMAIN With(f, x, v) -> T]
BY DEF With

\* The hash of the next object to be created by n.
LEMMA NewHash ==
    ASSUME births \in Nat, NEW n \in Nodes
    PROVE  /\ <<n, births + 1>> \in Hash
           /\ Creator(<<n, births + 1>>) = n /\ Born(<<n, births + 1>>) = births + 1
BY DEF Hash, Creator, Born

LEMMA HashParts ==
    ASSUME NEW h \in Hash
    PROVE  Creator(h) \in Nodes /\ Born(h) \in Nat /\ h = <<Creator(h), Born(h)>>
BY DEF Hash, Creator, Born

\* The clock event a tick creates is well formed.
LEMMA NewClockEventType ==
    ASSUME TypeOK, NEW n \in Nodes, NEW c \in Chains,
           last[n][c] = NoHash \/ last[n][c] \in DOMAIN clock
    PROVE  NewClockEvent(n, c) \in ClockEvent
<1>1. Stamp(n, c) \in Nat
  BY DEF TypeOK, Stamp, ClockEvent
<1>2. /\ last[n][c] \in OptHash
      /\ tail[n][c] \in SUBSET Hash
      /\ [m \in Nodes |-> IF m \in nbrs[n] THEN tip[n][m][c] ELSE NoHash] \in [Nodes -> OptHash]
  BY DEF TypeOK, OptHash
<1> QED
  BY <1>1, <1>2 DEF NewClockEvent, ClockEvent

LEMMA HydratedType ==
    ASSUME NEW n, NEW T, NEW ck, DOMAIN event \subseteq Hash
    PROVE  HydratedTail(n, T, ck) \in [Chains -> SUBSET EventsOf(n)]
BY DEF HydratedTail, Hydrated, EventsOf

\* A step either leaves what exists alone, or publishes one event, or inserts
\* one clock event.
Quiet == UNCHANGED <<births, event, clock, last>>
Ticks(n, c) == CreateClockEvent(n, c) \/ CrashInTick(n, c)

LEMMA StepKinds ==
    ASSUME Next
    PROVE  \/ Quiet
           \/ \E n \in Nodes : Publish(n)
           \/ \E n \in Nodes, c \in Chains : Ticks(n, c)
BY ZenonT(40) DEF Next, DagStep, DagCrash, AdvanceClock, StepBack, AddNeighbor, Gc, Restart,
       ReceiveNotification, CrashInReceive, LearnTip, Quiet, Ticks

LEMMA TickFacts ==
    ASSUME NEW n \in Nodes, NEW c \in Chains, Ticks(n, c)
    PROVE  InsertClockEvent(n, c, <<n, births + 1>>)
BY DEF Ticks, CreateClockEvent, CrashInTick

LEMMA EmptyCardinality == Cardinality({}) = 0
<1> DEFINE Counts(f) == f = [T \in SUBSET {} |-> IF T = {} THEN 0 ELSE 1 + f[T \ {CHOOSE x : x \in T}]]
<1>1. Cardinality({}) = (CHOOSE f : Counts(f))[{}]
  BY Zenon DEF Cardinality
<1>2. Counts([T \in SUBSET {} |-> 0])
  OBVIOUS
<1>3. \A f : Counts(f) => f[{}] = 0
  OBVIOUS
<1> HIDE DEF Counts
<1>4. Counts(CHOOSE f : Counts(f))
  BY <1>2, Zenon
<1> QED
  BY <1>1, <1>3, <1>4, Zenon

\* Pruning keeps other chains, keeps a clock event with none newer in its chain,
\* and with a clock event keeps everything newer in its chain.
LEMMA PrunedFacts ==
    ASSUME NEW T \in SUBSET Hash, NEW ck, NEW c, NEW k \in Nat
    PROVE  /\ Pruned(T, ck, c, k) \subseteq T
           /\ \A h \in T : ck[h].chain # c => h \in Pruned(T, ck, c, k)
           /\ \A h \in T : (\A g \in T : ck[g].chain = c => Born(g) <= Born(h))
                           => h \in Pruned(T, ck, c, k)
           /\ \A h \in Pruned(T, ck, c, k) : \A g \in T :
                 ck[h].chain = c /\ ck[g].chain = c /\ Born(g) > Born(h)
                    => g \in Pruned(T, ck, c, k)
<1> DEFINE Newer(h) == {g \in T : ck[g].chain = c /\ Born(g) > Born(h)}
<1>1. Pruned(T, ck, c, k) \subseteq T
  BY DEF Pruned
<1>2. \A h \in T : ck[h].chain # c => h \in Pruned(T, ck, c, k)
  BY DEF Pruned
<1>3. ASSUME NEW h \in T, \A g \in T : ck[g].chain = c => Born(g) <= Born(h)
      PROVE  h \in Pruned(T, ck, c, k)
  <2>1. Newer(h) = {}
    BY <1>3, HashParts
  <2> HIDE DEF Newer
  <2>2. \A N \in SUBSET Newer(h) : Cardinality(N) = 0
    <3>1. \A N \in SUBSET Newer(h) : N = {}
      BY <2>1
    <3> QED
      BY <3>1, EmptyCardinality, Zenon
  <2>3. k = 0 \/ ~\E N \in SUBSET Newer(h) : Cardinality(N) = k
    BY <2>2
  <2> QED
    BY <2>3, Zenon DEF Pruned, Newer
<1>4. ASSUME NEW h \in Pruned(T, ck, c, k), NEW g \in T,
             ck[h].chain = c, ck[g].chain = c, Born(g) > Born(h)
      PROVE  g \in Pruned(T, ck, c, k)
  <2>1. CASE k = 0
    BY <2>1 DEF Pruned
  <2>2. CASE k # 0
    <3>1. h \in T /\ ~\E N \in SUBSET Newer(h) : Cardinality(N) = k
      BY <2>2, <1>4, Zenon DEF Pruned
    <3>2. Newer(g) \subseteq Newer(h)
      BY <1>4, <3>1, HashParts
    <3> HIDE DEF Newer
    <3>3. ~\E N \in SUBSET Newer(g) : Cardinality(N) = k
      BY <3>1, <3>2
    <3> QED
      BY <3>3, Zenon DEF Pruned, Newer
  <2> QED
    BY <2>1, <2>2
<1> QED
  BY <1>1, <1>2, <1>3, <1>4
-----------------------------------------------------------------------------
\* A tick adds one new clock event, leaves all others as they are, and only its
\* chain's tip moves.
LEMMA TickAdds ==
    ASSUME Structure, NEW n \in Nodes, NEW c \in Chains, Ticks(n, c),
           NEW h, h = <<n, births + 1>>
    PROVE  /\ h \in Hash /\ Creator(h) = n /\ Born(h) = births + 1
           /\ h \notin DOMAIN clock /\ h \notin DOMAIN event
           /\ births' = births + 1 /\ event' = event
           /\ DOMAIN clock' = DOMAIN clock \cup {h}
           /\ clock'[h] = NewClockEvent(n, c) /\ NewClockEvent(n, c) \in ClockEvent
           /\ \A g \in DOMAIN clock : clock'[g] = clock[g]
           /\ last' = [last EXCEPT ![n][c] = h]
           /\ UNCHANGED <<now, nbrs, tip>>
           /\ clock' \in [DOMAIN clock' -> ClockEvent] /\ DOMAIN clock' \subseteq Hash
<1>1. h \in Hash /\ Creator(h) = n /\ Born(h) = births + 1
  BY NewHash DEF Structure, TypeOK
<1>2. h \notin DOMAIN clock /\ h \notin DOMAIN event
  BY <1>1 DEF Structure, TypeOK, Numbered
<1>3. /\ clock' = With(clock, h, NewClockEvent(n, c))
      /\ births' = births + 1 /\ event' = event
      /\ last' = [last EXCEPT ![n][c] = h]
      /\ UNCHANGED <<now, nbrs, tip>>
  BY TickFacts DEF InsertClockEvent
<1>4. NewClockEvent(n, c) \in ClockEvent
  BY NewClockEventType DEF Structure, LastNewest, IsClock
<1>5. clock' \in [DOMAIN clock' -> ClockEvent] /\ DOMAIN clock' \subseteq Hash
  BY ZenonT(40), <1>1, <1>3, <1>4, WithType DEF Structure, TypeOK
<1>6. /\ DOMAIN clock' = DOMAIN clock \cup {h}
      /\ clock'[h] = NewClockEvent(n, c)
      /\ \A g \in DOMAIN clock : clock'[g] = clock[g]
  BY <1>2, <1>3 DEF With
<1> QED
  BY <1>1, <1>2, <1>3, <1>4, <1>5, <1>6

\* Publishing adds one new event and leaves all others as they are.
LEMMA PublishAdds ==
    ASSUME Structure, NEW n \in Nodes, Publish(n), NEW h, h = <<n, births + 1>>
    PROVE  /\ h \in Hash /\ Creator(h) = n /\ Born(h) = births + 1
           /\ h \notin DOMAIN clock /\ h \notin DOMAIN event
           /\ births' = births + 1 /\ clock' = clock
           /\ DOMAIN event' = DOMAIN event \cup {h}
           /\ event'[h] = last[n]
           /\ \A e \in DOMAIN event : event'[e] = event[e]
           /\ UNCHANGED <<now, live, last, nbrs, tip, back, notes>>
<1>1. h \in Hash /\ Creator(h) = n /\ Born(h) = births + 1
  BY NewHash DEF Structure, TypeOK
<1>2. h \notin DOMAIN clock /\ h \notin DOMAIN event
  BY <1>1 DEF Structure, TypeOK, Numbered
<1>3. /\ event' = With(event, h, last[n])
      /\ births' = births + 1
      /\ UNCHANGED <<now, clock, live, last, nbrs, tip, back, notes>>
  BY DEF Publish, InsertEvent
<1>4. /\ DOMAIN event' = DOMAIN event \cup {h}
      /\ event'[h] = last[n]
      /\ \A e \in DOMAIN event : event'[e] = event[e]
  BY <1>2, <1>3 DEF With
<1> QED
  BY <1>1, <1>2, <1>3, <1>4

\* A new event is the one a node has just published, anchored in the node's last clock events.
LEMMA NewEventPublished ==
    ASSUME Structure, Next, NEW e \in DOMAIN event', e \notin DOMAIN event
    PROVE  \E n \in Nodes : /\ Publish(n) /\ e = <<n, births + 1>>
                            /\ Creator(e) = n /\ Born(e) = births + 1
                            /\ clock' = clock /\ event'[e] = last[n]
<1>1. event' # event
  OBVIOUS
<1>2. ASSUME NEW n \in Nodes, NEW c \in Chains, Ticks(n, c) PROVE FALSE
  <2>1. event' = event
    BY <1>2, TickAdds, Zenon
  <2> QED BY <1>1, <2>1, Zenon
<1>3. ~Quiet
  BY <1>1, Zenon DEF Quiet
<1>4. PICK n \in Nodes : Publish(n)
  BY <1>2, <1>3, StepKinds, Zenon
<1> DEFINE h == <<n, births + 1>>
<1>5. /\ Creator(h) = n /\ Born(h) = births + 1
      /\ clock' = clock /\ event'[h] = last[n]
      /\ DOMAIN event' = DOMAIN event \cup {h}
  BY <1>4, PublishAdds, Zenon
<1>6. e = h
  BY <1>5, Zenon
<1> QED BY <1>4, <1>5, <1>6, Zenon

\* Nothing that exists is ever changed: clock events stay what they are.
LEMMA ClockStable ==
    ASSUME Structure, Next
    PROVE  /\ \A h \in DOMAIN clock : h \in DOMAIN clock' /\ clock'[h] = clock[h]
           /\ \A e \in DOMAIN event : e \in DOMAIN event' /\ event'[e] = event[e]
           /\ \A h, m, c : IsClock(h, m, c) => IsClock(h, m, c)'
<1>1. CASE Quiet
  BY <1>1 DEF Quiet, IsClock
<1>2. ASSUME NEW n \in Nodes, Publish(n)
      PROVE  /\ clock' = clock
             /\ \A e \in DOMAIN event : e \in DOMAIN event' /\ event'[e] = event[e]
  BY ZenonT(40), <1>2, PublishAdds
<1>3. ASSUME NEW n \in Nodes, NEW c \in Chains, Ticks(n, c)
      PROVE  /\ \A h \in DOMAIN clock : h \in DOMAIN clock' /\ clock'[h] = clock[h]
             /\ event' = event
  BY ZenonT(40), <1>3, TickAdds
<1> QED
  BY <1>1, <1>2, <1>3, StepKinds DEF IsClock

-----------------------------------------------------------------------------
\* Type correctness is preserved.
LEMMA TypeStep ==
    ASSUME Structure, Next
    PROVE  TypeOK'
<1> USE DEF Structure, TypeOK
<1>1. PICK n \in Nodes : DagStep(n) \/ DagCrash(n)
  BY DEF Next
<1>2. CASE AdvanceClock(n)
  BY <1>2 DEF AdvanceClock
<1>3. CASE StepBack(n)
  BY <1>3 DEF StepBack
<1>4. ASSUME NEW m \in Nodes, AddNeighbor(n, m) PROVE TypeOK'
  BY <1>4 DEF AddNeighbor
<1>5. CASE Publish(n)
  <2>1. <<n, births + 1>> \in Hash
    BY NewHash
  <2>2. DOMAIN event' \subseteq Hash /\ event' \in [DOMAIN event' -> [Chains -> OptHash]]
    BY ZenonT(40), <1>5, <2>1, WithType DEF Publish, InsertEvent
  <2>3. tail' \in [Nodes -> [Chains -> SUBSET Hash]]
    BY ZenonT(40), <1>5, <2>1 DEF Publish, InsertEvent
  <2>4. births' = births + 1 /\ UNCHANGED <<now, clock, live, last, nbrs, tip, back, notes>>
    BY <1>5 DEF Publish
  <2> QED
    BY <2>2, <2>3, <2>4
<1>6. ASSUME NEW c \in Chains, CreateClockEvent(n, c) PROVE TypeOK'
  <2> DEFINE h == <<n, births + 1>>
             kept == Pruned(live[n] \cup {h}, clock', c, Keep[c])
  <2>1. /\ h \in Hash
        /\ clock' \in [DOMAIN clock' -> ClockEvent] /\ DOMAIN clock' \subseteq Hash
        /\ last' = [last EXCEPT ![n][c] = h]
        /\ births' = births + 1 /\ UNCHANGED <<event, now, nbrs, tip>>
    BY ZenonT(40), <1>6, TickAdds DEF Ticks
  <2>2. last' \in [Nodes -> [Chains -> OptHash]]
    BY <2>1 DEF OptHash
  <2>3. kept \subseteq Hash
    BY ZenonT(40), <2>1 DEF Pruned
  <2>4. live' \in [Nodes -> SUBSET Hash]
    BY ZenonT(40), <1>6, <2>3 DEF CreateClockEvent
  <2>5. tail' \in [Nodes -> [Chains -> SUBSET Hash]] /\ back' \subseteq Hash \X Hash
    BY <1>6 DEF CreateClockEvent
  <2>6. notes' \subseteq Notification
    <3>1. notes' = notes \cup
             {[from |-> n, to |-> m, chain |-> c, tip |-> h, their |-> tip[n][m][c]]
                : m \in nbrs[n]}
      BY <1>6 DEF CreateClockEvent
    <3>2. ASSUME NEW m \in nbrs[n]
          PROVE  [from |-> n, to |-> m, chain |-> c, tip |-> h, their |-> tip[n][m][c]]
                    \in Notification
      BY <2>1 DEF Notification
    <3> QED
      BY <3>1, <3>2
  <2> QED
    BY <2>1, <2>2, <2>4, <2>5, <2>6
<1>7. ASSUME NEW c \in Chains, CrashInTick(n, c) PROVE TypeOK'
  <2> DEFINE h == <<n, births + 1>>
  <2>1. /\ h \in Hash
        /\ clock' \in [DOMAIN clock' -> ClockEvent] /\ DOMAIN clock' \subseteq Hash
        /\ last' = [last EXCEPT ![n][c] = h]
        /\ births' = births + 1 /\ UNCHANGED <<event, now, nbrs, tip>>
    BY ZenonT(40), <1>7, TickAdds DEF Ticks
  <2>2. last' \in [Nodes -> [Chains -> OptHash]]
    BY <2>1 DEF OptHash
  <2>3. live' \in [Nodes -> SUBSET Hash]
    BY ZenonT(40), <1>7, <2>1 DEF CrashInTick
  <2>4. HydratedTail(n, live'[n], clock') \in [Chains -> SUBSET Hash]
    BY HydratedType DEF EventsOf
  <2>5. tail' \in [Nodes -> [Chains -> SUBSET Hash]]
    BY ZenonT(40), <1>7, <2>4 DEF CrashInTick
  <2>6. UNCHANGED <<back, notes>>
    BY <1>7 DEF CrashInTick
  <2> QED
    BY <2>1, <2>2, <2>3, <2>5, <2>6
<1>8. HydratedTail(n, live[n], clock) \in [Chains -> SUBSET Hash]
  BY HydratedType DEF EventsOf
<1>9. CASE Restart(n)
  BY <1>8, <1>9 DEF Restart
<1>10. CASE Gc(n)
  BY <1>10 DEF Gc
<1>11. ASSUME NEW m \in notes, ReceiveNotification(n, m) PROVE TypeOK'
  <2>1. m \in Notification /\ m.from \in Nodes /\ m.chain \in Chains /\ m.tip \in Hash
    BY DEF Notification
  <2>2. tip' \in [Nodes -> [Nodes -> [Chains -> OptHash]]]
    BY <1>11, <2>1 DEF ReceiveNotification, LearnTip, OptHash
  <2>3. back' \subseteq Hash \X Hash
    BY <1>11, <2>1 DEF ReceiveNotification
  <2> QED
    BY <1>11, <2>2, <2>3 DEF ReceiveNotification
<1>12. ASSUME NEW m \in notes, CrashInReceive(n, m) PROVE TypeOK'
  <2>1. m \in Notification /\ m.from \in Nodes /\ m.chain \in Chains /\ m.tip \in Hash
    BY DEF Notification
  <2>2. tip' \in [Nodes -> [Nodes -> [Chains -> OptHash]]]
    BY <1>12, <2>1 DEF CrashInReceive, LearnTip, OptHash
  <2> QED
    BY ZenonT(40), <1>8, <1>12, <2>2 DEF CrashInReceive
<1> QED
  BY SMTT(40), <1>1, <1>2, <1>3, <1>4, <1>5, <1>6, <1>7, <1>9, <1>10, <1>11, <1>12 DEF DagStep, DagCrash
-----------------------------------------------------------------------------
\* What a store satisfies: it is its own, holds every chain's tip, and is gap free.
StoreOK(m) ==
    /\ \A h \in live[m] : h \in DOMAIN clock /\ Creator(h) = m
    /\ \A c \in Chains : last[m][c] # NoHash => last[m][c] \in live[m]
    /\ \A h \in live[m] : \A g \in DOMAIN clock :
          IsClock(g, m, clock[h].chain) /\ Born(g) > Born(h) => g \in live[m]

\* A tick with its pruning keeps the store so.
LEMMA CreateStore ==
    ASSUME Structure, RingsContiguous, NEW n \in Nodes, NEW c \in Chains,
           CreateClockEvent(n, c)
    PROVE  StoreOK(n)' /\ \A m \in Nodes \ {n} : live'[m] = live[m]
<1> DEFINE h == <<n, births + 1>>
           T == live[n] \cup {h}
           kept == Pruned(T, clock', c, Keep[c])
<1>1. /\ h \in Hash /\ Creator(h) = n /\ Born(h) = births + 1 /\ h \notin DOMAIN clock
      /\ DOMAIN clock' = DOMAIN clock \cup {h}
      /\ clock'[h].chain = c
      /\ \A g \in DOMAIN clock : clock'[g] = clock[g]
      /\ last' = [last EXCEPT ![n][c] = h]
  <2>1. Ticks(n, c)
    BY DEF Ticks
  <2>2. NewClockEvent(n, c).chain = c
    BY DEF NewClockEvent
  <2> QED
    BY <2>1, <2>2, TickAdds
<1>2. live' = [live EXCEPT ![n] = kept]
  BY DEF CreateClockEvent
<1>3. live'[n] = kept /\ \A m \in Nodes \ {n} : live'[m] = live[m]
  BY <1>2 DEF Structure, TypeOK
<1>4. /\ T \in SUBSET Hash
      /\ \A g \in live[n] : g \in DOMAIN clock /\ Creator(g) = n /\ Born(g) \in Nat /\ Born(g) <= births
      /\ births \in Nat
  BY ZenonT(40), <1>1, HashParts DEF Structure, TypeOK, OwnStore, Numbered
<1>5. Keep[c] \in Nat
  BY ChainsAssumption
<1> HIDE DEF T, h
<1>7. /\ kept \subseteq T
      /\ \A x \in T : clock'[x].chain # c => x \in kept
      /\ \A x \in T : (\A g \in T : clock'[g].chain = c => Born(g) <= Born(x)) => x \in kept
      /\ \A x \in kept : \A g \in T :
            clock'[x].chain = c /\ clock'[g].chain = c /\ Born(g) > Born(x) => g \in kept
  BY <1>4, <1>5, PrunedFacts
<1> HIDE DEF kept
<1>8. h \in kept
  <2>1. h \in T /\ \A g \in T : Born(g) <= Born(h)
    BY <1>1, <1>4 DEF T
  <2> QED
    BY <1>7, <2>1
<1>9. \A x \in kept : x \in DOMAIN clock' /\ Creator(x) = n
  BY <1>1, <1>4, <1>7 DEF T
<1>10. ASSUME NEW d \in Chains, last'[n][d] # NoHash PROVE last'[n][d] \in kept
  <2>1. CASE d = c
    BY <1>1, <1>8, <2>1 DEF Structure, TypeOK
  <2>2. CASE d # c
    <3>1. last'[n][d] = last[n][d]
      BY <1>1, <2>2 DEF Structure, TypeOK
    <3>2. last[n][d] \in live[n] /\ last[n][d] \in DOMAIN clock /\ clock[last[n][d]].chain = d
      BY <1>10, <3>1 DEF Structure, LastNewest, IsClock
    <3> QED
      BY <1>1, <1>7, <2>2, <3>1, <3>2 DEF T
  <2> QED
    BY <2>1, <2>2
<1>11. ASSUME NEW x \in kept, NEW g \in DOMAIN clock',
              IsClock(g, n, clock[x].chain)', Born(g) > Born(x)
       PROVE  g \in kept
  <2>1. g \in DOMAIN clock' /\ Creator(g) = n /\ clock'[g].chain = clock'[x].chain
    BY <1>11 DEF IsClock
  <2>2. Born(g) \in Nat /\ Born(x) \in Nat /\ Born(g) <= births + 1
    BY <1>1, <1>4, <1>7, HashParts DEF T, Structure, TypeOK, Numbered
  <2>3. x # h
    BY <1>1, <1>4, <1>11, <2>2
  <2>4. x \in live[n] /\ x \in DOMAIN clock /\ clock'[x] = clock[x]
    BY <1>1, <1>4, <1>7, <2>3 DEF T
  <2>5. g \in T
    BY <1>1, <1>11, <2>1, <2>4 DEF T, RingsContiguous, IsClock
  <2> QED
    BY <1>7, <1>11, <2>1, <2>5
<1> QED
  BY <1>3, <1>7, <1>9, <1>10, <1>11 DEF StoreOK

\* A tick cut short by a crash, too: it only adds.
LEMMA CrashStore ==
    ASSUME Structure, RingsContiguous, NEW n \in Nodes, NEW c \in Chains, CrashInTick(n, c)
    PROVE  StoreOK(n)' /\ \A m \in Nodes \ {n} : live'[m] = live[m]
<1> DEFINE h == <<n, births + 1>>
<1>1. /\ h \in Hash /\ Creator(h) = n /\ Born(h) = births + 1 /\ h \notin DOMAIN clock
      /\ DOMAIN clock' = DOMAIN clock \cup {h}
      /\ clock'[h].chain = c
      /\ \A g \in DOMAIN clock : clock'[g] = clock[g]
      /\ last' = [last EXCEPT ![n][c] = h]
  <2>1. Ticks(n, c)
    BY DEF Ticks
  <2>2. NewClockEvent(n, c).chain = c
    BY DEF NewClockEvent
  <2> QED
    BY <2>1, <2>2, TickAdds
<1>2. live' = [live EXCEPT ![n] = @ \cup {h}]
  BY DEF CrashInTick
<1> HIDE DEF h
<1>3. live'[n] = live[n] \cup {h} /\ \A m \in Nodes \ {n} : live'[m] = live[m]
  BY <1>2 DEF Structure, TypeOK
<1>4. /\ \A g \in live[n] : g \in DOMAIN clock /\ Creator(g) = n
      /\ \A g \in DOMAIN clock : Born(g) \in Nat /\ Born(g) <= births
      /\ births \in Nat
  BY HashParts DEF Structure, TypeOK, OwnStore, Numbered
<1>6. \A d \in Chains : last'[n][d] # NoHash => last'[n][d] \in live'[n]
  BY <1>1, <1>3 DEF Structure, TypeOK, LastNewest
<1>7. ASSUME NEW x \in live'[n], NEW g \in DOMAIN clock',
             IsClock(g, n, clock[x].chain)', Born(g) > Born(x)
      PROVE  g \in live'[n]
  <2>1. CASE g = h
    BY <1>3, <2>1
  <2>2. CASE g # h
    <3>1. g \in DOMAIN clock /\ x # h
      BY <1>1, <1>4, <1>7, <2>2
    <3>2. x \in live[n] /\ x \in DOMAIN clock
      BY <1>3, <1>4, <3>1
    <3> QED
      BY <1>1, <1>3, <1>7, <3>1, <3>2 DEF RingsContiguous, IsClock
  <2> QED
    BY <2>1, <2>2
<1> QED
  BY <1>1, <1>3, <1>4, <1>6, <1>7 DEF StoreOK
\* Explicit garbage collection keeps the store so.
LEMMA GcStore ==
    ASSUME Structure, RingsContiguous, NEW n \in Nodes, Gc(n)
    PROVE  StoreOK(n)' /\ \A m \in Nodes \ {n} : live'[m] = live[m]
<1> DEFINE T == live[n]
           Ring(c) == Pruned(T, clock, c, Keep[c])
           kept == {h \in T : h \in Ring(clock[h].chain)}
<1>1. live' = [live EXCEPT ![n] = kept] /\ UNCHANGED <<clock, last>>
  BY DEF Gc
<1>2. live'[n] = kept /\ \A m \in Nodes \ {n} : live'[m] = live[m]
  BY <1>1 DEF Structure, TypeOK
<1>3. /\ T \in SUBSET Hash
      /\ \A g \in T : g \in DOMAIN clock /\ Creator(g) = n /\ clock[g].chain \in Chains
  BY DEF Structure, TypeOK, OwnStore, ClockEvent
<1>4. \A c \in Chains : Keep[c] \in Nat
  BY ChainsAssumption
<1> HIDE DEF T
<1>5. ASSUME NEW c \in Chains
      PROVE  /\ \A x \in T : (\A g \in T : clock[g].chain = c => Born(g) <= Born(x)) => x \in Ring(c)
             /\ \A x \in Ring(c) : \A g \in T :
                   clock[x].chain = c /\ clock[g].chain = c /\ Born(g) > Born(x) => g \in Ring(c)
  BY <1>3, <1>4, PrunedFacts
<1> HIDE DEF Ring
<1>7. ASSUME NEW c \in Chains, last[n][c] # NoHash PROVE last[n][c] \in kept
  <2>1. last[n][c] \in T /\ clock[last[n][c]].chain = c
    BY <1>7 DEF T, Structure, LastNewest, IsClock
  <2>2. \A g \in T : clock[g].chain = c => Born(g) <= Born(last[n][c])
    BY <1>3 DEF Structure, LastNewest, IsClock
  <2> QED
    BY <1>5, <2>1, <2>2
<1>8. ASSUME NEW x \in kept, NEW g \in DOMAIN clock,
             IsClock(g, n, clock[x].chain), Born(g) > Born(x)
      PROVE  g \in kept
  <2>1. g \in T /\ clock[g].chain = clock[x].chain
    BY <1>8 DEF T, RingsContiguous, IsClock
  <2> QED
    BY <1>3, <1>5, <1>8, <2>1
<1> HIDE DEF kept
<1>9. \A x \in kept : x \in DOMAIN clock /\ Creator(x) = n
  BY <1>3 DEF kept
<1>10. ASSUME NEW x \in kept, NEW g \in DOMAIN clock',
             IsClock(g, n, clock[x].chain)', Born(g) > Born(x)
      PROVE  g \in kept
  BY <1>1, <1>8, <1>10 DEF IsClock
<1> QED
  BY <1>1, <1>2, <1>7, <1>9, <1>10 DEF StoreOK

\* Every step keeps every store finite, its own, gap free and with its tips.
LEMMA StoreStep ==
    ASSUME Structure, RingsContiguous, Next, NEW m \in Nodes
    PROVE  StoreOK(m)'
<1>1. StoreOK(m)
  BY SMTT(40) DEF Structure, RingsContiguous, OwnStore, LastNewest, StoreOK
<1>2. CASE UNCHANGED <<live, clock, last>>
  BY <1>1, <1>2 DEF StoreOK, IsClock
<1>3. ASSUME NEW n \in Nodes, n # m, live'[m] = live[m],
             \/ UNCHANGED <<clock, last>>
             \/ \E c \in Chains : Ticks(n, c)
      PROVE  StoreOK(m)'
  <2>1. CASE UNCHANGED <<clock, last>>
    BY <1>1, <1>3, <2>1 DEF StoreOK, IsClock
  <2>2. ASSUME NEW c \in Chains, Ticks(n, c) PROVE StoreOK(m)'
    <3> DEFINE h == <<n, births + 1>>
    <3>1. /\ Creator(h) = n /\ h \notin DOMAIN clock
          /\ DOMAIN clock' = DOMAIN clock \cup {h}
          /\ \A g \in DOMAIN clock : clock'[g] = clock[g]
          /\ last' = [last EXCEPT ![n][c] = h]
      BY <2>2, TickAdds
    <3> HIDE DEF h
    <3>2. last'[m] = last[m]
      BY <1>3, <3>1 DEF Structure, TypeOK
    <3> QED
      BY <1>1, <1>3, <3>1, <3>2 DEF StoreOK, IsClock
  <2> QED
    BY <1>3, <2>1, <2>2
<1>4. PICK n \in Nodes : DagStep(n) \/ DagCrash(n)
  BY DEF Next
<1>5. ASSUME NEW c \in Chains, CreateClockEvent(n, c) PROVE StoreOK(m)'
  BY <1>3, <1>5, CreateStore DEF Ticks
<1>6. ASSUME NEW c \in Chains, CrashInTick(n, c) PROVE StoreOK(m)'
  BY <1>3, <1>6, CrashStore DEF Ticks
<1>7. CASE Gc(n)
  <2>1. UNCHANGED <<clock, last>>
    BY <1>7 DEF Gc
  <2> QED
    BY <1>3, <1>7, <2>1, GcStore
<1> QED
  BY SMTT(40), <1>2, <1>4, <1>5, <1>6, <1>7 DEF DagStep, DagCrash, AdvanceClock, StepBack, AddNeighbor,
     Publish, Restart, ReceiveNotification, CrashInReceive

LEMMA LastStep ==
    ASSUME Structure, RingsContiguous, Next
    PROVE  LastNewest'
<1> SUFFICES ASSUME NEW m \in Nodes, NEW d \in Chains
             PROVE  /\ last'[m][d] # NoHash => IsClock(last[m][d], m, d)' /\ last'[m][d] \in live'[m]
                    /\ \A g \in DOMAIN clock' : IsClock(g, m, d)' =>
                          last'[m][d] # NoHash /\ Born(g) <= Born(last'[m][d])
  BY DEF LastNewest, IsClock
<1>1. last'[m][d] # NoHash => last'[m][d] \in live'[m]
  BY StoreStep DEF StoreOK
<1>2. CASE UNCHANGED <<clock, last>>
  BY <1>1, <1>2 DEF Structure, LastNewest, IsClock
<1>3. ASSUME NEW n \in Nodes, NEW c \in Chains, Ticks(n, c)
      PROVE  /\ last'[m][d] # NoHash => IsClock(last[m][d], m, d)'
             /\ \A g \in DOMAIN clock' : IsClock(g, m, d)' =>
                   last'[m][d] # NoHash /\ Born(g) <= Born(last'[m][d])
  <2> DEFINE h == <<n, births + 1>>
  <2>1. /\ h \in Hash /\ Creator(h) = n /\ Born(h) = births + 1 /\ h \notin DOMAIN clock
        /\ DOMAIN clock' = DOMAIN clock \cup {h}
        /\ clock'[h] = NewClockEvent(n, c)
        /\ \A g \in DOMAIN clock : clock'[g] = clock[g]
        /\ last' = [last EXCEPT ![n][c] = h]
    BY ZenonT(40), <1>3, TickAdds
  <2>2. clock'[h].chain = c
    BY <2>1 DEF NewClockEvent
  <2> HIDE DEF h
  <2>3. \A g \in DOMAIN clock : Born(g) \in Nat /\ Born(g) <= births
    BY HashParts DEF Structure, TypeOK, Numbered
  <2>4. births \in Nat /\ h # NoHash
    BY <2>1, NoHashAssumption DEF Structure, TypeOK
  <2>5. CASE m = n /\ d = c
    <3>1. last'[m][d] = h
      BY <2>1, <2>5 DEF Structure, TypeOK
    <3>2. \A g \in DOMAIN clock' : Born(g) <= Born(h)
      BY <2>1, <2>3, <2>4
    <3> QED
      BY <2>1, <2>2, <2>4, <2>5, <3>1, <3>2 DEF IsClock
  <2>6. CASE ~(m = n /\ d = c)
    <3>1. last'[m][d] = last[m][d]
      BY <2>1, <2>6 DEF Structure, TypeOK
    <3> QED
      BY <2>1, <2>2, <2>6, <3>1 DEF Structure, LastNewest, IsClock
  <2> QED
    BY <2>5, <2>6
<1> QED
  BY <1>1, <1>2, <1>3, StepKinds DEF Quiet, Publish
LEMMA NumberedStep ==
    ASSUME Structure, Next
    PROVE  Numbered'
<1>1. CASE Quiet
  BY <1>1 DEF Quiet, Structure, Numbered
<1>2. births \in Nat /\ \A h \in DOMAIN event \cup DOMAIN clock : Born(h) \in Nat /\ Born(h) <= births
  BY HashParts DEF Structure, TypeOK, Numbered
<1>3. ASSUME NEW n \in Nodes, Publish(n) PROVE Numbered'
  <2> DEFINE h == <<n, births + 1>>
  <2>1. /\ Born(h) = births + 1 /\ h \notin DOMAIN clock
        /\ births' = births + 1 /\ clock' = clock /\ DOMAIN event' = DOMAIN event \cup {h}
    BY <1>3, PublishAdds
  <2> QED
    BY <1>2, <2>1 DEF Structure, Numbered
<1>4. ASSUME NEW n \in Nodes, NEW c \in Chains, Ticks(n, c) PROVE Numbered'
  <2> DEFINE h == <<n, births + 1>>
  <2>1. /\ Born(h) = births + 1 /\ h \notin DOMAIN event
        /\ births' = births + 1 /\ event' = event /\ DOMAIN clock' = DOMAIN clock \cup {h}
    BY <1>4, TickAdds
  <2> QED
    BY <1>2, <2>1 DEF Structure, Numbered
<1> QED
  BY <1>1, <1>3, <1>4, StepKinds

\* Tails hold published events of their node.
LEMMA TailStep ==
    ASSUME Structure, Next
    PROVE  \A m \in Nodes : \A d \in Chains : tail'[m][d] \subseteq EventsOf(m)'
<1> SUFFICES ASSUME NEW m \in Nodes, NEW d \in Chains
             PROVE  tail'[m][d] \subseteq EventsOf(m)'
  OBVIOUS
<1>1. tail[m][d] \subseteq EventsOf(m)
  BY DEF Structure, OwnStore
<1>2. EventsOf(m) \subseteq EventsOf(m)'
  BY ClockStable DEF EventsOf
<1>3. CASE tail' = tail
  BY <1>1, <1>2, <1>3
<1>4. ASSUME NEW n \in Nodes, Publish(n) PROVE tail'[m][d] \subseteq EventsOf(m)'
  <2>1. tail'[m][d] \subseteq tail[m][d] \cup {<<n, births + 1>>} /\ (m # n => tail'[m][d] = tail[m][d])
    BY <1>4 DEF Publish, Structure, TypeOK
  <2>2. <<n, births + 1>> \in EventsOf(n)'
    BY ZenonT(40), <1>4, PublishAdds DEF EventsOf
  <2> QED
    BY <1>1, <1>2, <2>1, <2>2
<1>5. ASSUME NEW n \in Nodes, NEW c \in Chains, CreateClockEvent(n, c)
      PROVE  tail'[m][d] \subseteq EventsOf(m)'
  BY <1>1, <1>2, <1>5 DEF CreateClockEvent, Structure, TypeOK
<1>6. ASSUME NEW n \in Nodes, NEW T, NEW ck, event' = event,
             tail' = [tail EXCEPT ![n] = HydratedTail(n, T, ck)]
      PROVE  tail'[m][d] \subseteq EventsOf(m)'
  <2>1. HydratedTail(n, T, ck) \in [Chains -> SUBSET EventsOf(n)]
    BY HydratedType DEF Structure, TypeOK
  <2>2. tail'[m][d] \subseteq EventsOf(m)
    BY <1>1, <1>6, <2>1 DEF Structure, TypeOK
  <2> QED
    BY <1>2, <2>2
<1>7. ASSUME NEW n \in Nodes, NEW c \in Chains, CrashInTick(n, c)
      PROVE  event' = event /\ tail' = [tail EXCEPT ![n] = HydratedTail(n, live'[n], clock')]
  BY <1>7 DEF CrashInTick, InsertClockEvent
<1>8. ASSUME NEW n \in Nodes, Restart(n) \/ \E x \in notes : CrashInReceive(n, x)
      PROVE  event' = event /\ tail' = [tail EXCEPT ![n] = HydratedTail(n, live[n], clock)]
  BY <1>8 DEF Restart, CrashInReceive
<1>9. PICK n \in Nodes : DagStep(n) \/ DagCrash(n)
  BY DEF Next
<1>10. CASE DagStep(n)
  BY SMTT(40), <1>3, <1>4, <1>5, <1>10 DEF DagStep, AdvanceClock, StepBack, AddNeighbor, Gc, ReceiveNotification
<1>11. CASE DagCrash(n)
  BY <1>6, <1>7, <1>8, <1>11 DEF DagCrash
<1> QED
  BY <1>9, <1>10, <1>11

LEMMA TipsStep ==
    ASSUME Structure, Next
    PROVE  TipsTruthful'
<1> SUFFICES ASSUME NEW k \in Nodes, NEW m \in Nodes, NEW d \in Chains, tip'[k][m][d] # NoHash
             PROVE  IsClock(tip[k][m][d], m, d)'
  BY DEF TipsTruthful
<1>1. CASE tip' = tip
  <2>1. IsClock(tip[k][m][d], m, d)
    BY <1>1 DEF Structure, TipsTruthful
  <2> QED
    BY <1>1, <2>1, ClockStable DEF IsClock
<1>2. ASSUME NEW n \in Nodes, NEW x \in notes, LearnTip(n, x), UNCHANGED clock
      PROVE  IsClock(tip[k][m][d], m, d)'
  <2>1. x \in Notification /\ IsClock(x.tip, x.from, x.chain)
    BY DEF Structure, TypeOK, NotesTruthful
  <2>2. \/ tip'[k][m][d] = tip[k][m][d]
        \/ m = x.from /\ d = x.chain /\ tip'[k][m][d] = x.tip
    BY <1>2, <2>1 DEF LearnTip, Structure, TypeOK, Notification
  <2> QED
    BY <1>2, <2>1, <2>2 DEF Structure, TipsTruthful, IsClock
<1> QED
  BY SMTT(40), <1>1, <1>2 DEF Next, DagStep, DagCrash, AdvanceClock, StepBack, AddNeighbor, Publish,
     CreateClockEvent, CrashInTick, InsertClockEvent, Gc, Restart, ReceiveNotification, CrashInReceive

LEMMA NotesStep ==
    ASSUME Structure, Next
    PROVE  NotesTruthful'
<1>1. ASSUME NEW x \in notes
      PROVE  IsClock(x.tip, x.from, x.chain)' /\ clock'[x.tip].cross[x.to] = x.their
  <2>1. IsClock(x.tip, x.from, x.chain) /\ clock[x.tip].cross[x.to] = x.their
    BY DEF Structure, NotesTruthful
  <2>2. clock'[x.tip] = clock[x.tip] /\ IsClock(x.tip, x.from, x.chain)'
    BY <2>1, ClockStable DEF IsClock
  <2> QED
    BY <2>1, <2>2
<1>2. CASE notes' = notes
  BY <1>1, <1>2 DEF NotesTruthful, IsClock
<1>3. ASSUME NEW n \in Nodes, NEW c \in Chains, CreateClockEvent(n, c)
      PROVE  NotesTruthful'
  <2> DEFINE h == <<n, births + 1>>
             Note(m) == [from |-> n, to |-> m, chain |-> c, tip |-> h, their |-> tip[n][m][c]]
  <2>1. /\ h \in DOMAIN clock' /\ Creator(h) = n /\ clock'[h] = NewClockEvent(n, c)
    BY ZenonT(40), <1>3, TickAdds DEF Ticks
  <2>2. clock'[h].chain = c /\ \A m \in nbrs[n] : clock'[h].cross[m] = tip[n][m][c]
    BY <2>1 DEF NewClockEvent, Structure, TypeOK
  <2>3. notes' = notes \cup {Note(m) : m \in nbrs[n]}
    BY <1>3 DEF CreateClockEvent
  <2>4. ASSUME NEW x \in notes' \ notes
        PROVE  IsClock(x.tip, x.from, x.chain)' /\ clock'[x.tip].cross[x.to] = x.their
    <3>1. PICK m \in nbrs[n] : x = Note(m)
      BY SMTT(40), <2>3, <2>4
    <3>2. x.tip = h /\ x.from = n /\ x.chain = c /\ x.to = m /\ x.their = tip[n][m][c]
      BY SMTT(40), <3>1
    <3> HIDE DEF h
    <3> QED
      BY <2>1, <2>2, <3>2 DEF IsClock
  <2>5. ASSUME NEW x \in notes'
        PROVE  IsClock(x.tip, x.from, x.chain)' /\ clock'[x.tip].cross[x.to] = x.their
    BY <1>1, <2>4
  <2> QED
    BY <2>5 DEF NotesTruthful, IsClock
<1> QED
  BY SMTT(40), <1>2, <1>3 DEF Next, DagStep, DagCrash, AdvanceClock, StepBack, AddNeighbor, Publish,
     CrashInTick, Gc, Restart, ReceiveNotification, CrashInReceive
LEMMA StructureStep ==
    ASSUME Structure, RingsContiguous, Next
    PROVE  Structure' /\ RingsContiguous'
<1>1. OwnStore' /\ RingsContiguous'
  BY SMTT(40), StoreStep, TailStep DEF OwnStore, RingsContiguous, StoreOK
<1> QED
  BY <1>1, TypeStep, NumberedStep, LastStep, TipsStep, NotesStep DEF Structure

-----------------------------------------------------------------------------
\* References point to existing, earlier objects.
LEMMA AnchorsStep ==
    ASSUME Structure, AnchorsCausal, Next
    PROVE  AnchorsCausal'
<1> SUFFICES ASSUME NEW e \in DOMAIN event', NEW d \in Chains, event'[e][d] # NoHash
             PROVE  IsClock(event[e][d], Creator(e), d)' /\ Born(event'[e][d]) < Born(e)
  BY DEF AnchorsCausal, IsClock
<1>1. CASE e \in DOMAIN event
  <2>1. event'[e] = event[e] /\ IsClock(event[e][d], Creator(e), d) /\ Born(event[e][d]) < Born(e)
    BY <1>1, ClockStable DEF AnchorsCausal
  <2> QED
    BY <2>1, ClockStable DEF IsClock
<1>2. CASE e \notin DOMAIN event
  <2>1. PICK n \in Nodes : /\ Creator(e) = n /\ Born(e) = births + 1
                           /\ clock' = clock /\ event'[e] = last[n]
    BY <1>2, NewEventPublished, Zenon
  <2>2. /\ Creator(e) = n /\ Born(e) = births + 1
        /\ clock' = clock /\ event'[e] = last[n]
    BY <2>1, Zenon
  <2>3. IsClock(last[n][d], n, d)
    BY <2>2 DEF Structure, LastNewest
  <2>4. Born(last[n][d]) \in Nat /\ Born(last[n][d]) <= births /\ births \in Nat
    BY <2>3, HashParts DEF IsClock, Structure, TypeOK, Numbered
  <2> QED
    BY <2>2, <2>3, <2>4 DEF IsClock
<1> QED
  BY <1>1, <1>2

LEMMA ClocksStep ==
    ASSUME Structure, ClocksCausal, Next
    PROVE  ClocksCausal'
<1> DEFINE Cause(h, r, E, C) ==
             /\ r.prev # NoHash => /\ r.prev \in DOMAIN C /\ Creator(r.prev) = Creator(h)
                                   /\ C[r.prev].chain = r.chain /\ Born(r.prev) < Born(h)
             /\ \A m \in Nodes : r.cross[m] # NoHash =>
                   /\ r.cross[m] \in DOMAIN C /\ Creator(r.cross[m]) = m
                   /\ C[r.cross[m]].chain = r.chain /\ Born(r.cross[m]) < Born(h)
             /\ \A e \in r.pins : e \in DOMAIN E /\ Creator(e) = Creator(h) /\ Born(e) < Born(h)
<1>1. ASSUME NEW h \in DOMAIN clock PROVE Cause(h, clock[h], event, clock)
  BY DEF ClocksCausal, IsClock
<1>2. ASSUME NEW h \in DOMAIN clock PROVE Cause(h, clock'[h], event', clock')
  BY SMTT(40), <1>1, ClockStable
<1>3. ASSUME NEW h \in DOMAIN clock', h \notin DOMAIN clock
      PROVE  Cause(h, clock'[h], event', clock')
  <2>1. PICK n \in Nodes, c \in Chains : Ticks(n, c)
    BY <1>3, StepKinds DEF Quiet, Publish
  <2>2. /\ Creator(h) = n /\ Born(h) = births + 1
        /\ clock'[h] = NewClockEvent(n, c) /\ event' = event
        /\ \A g \in DOMAIN clock : g \in DOMAIN clock' /\ clock'[g] = clock[g]
    BY ZenonT(40), <1>3, <2>1, TickAdds
  <2>3. births \in Nat /\ \A g \in DOMAIN clock \cup DOMAIN event : Born(g) \in Nat /\ Born(g) < births + 1
    BY HashParts DEF Structure, TypeOK, Numbered
  <2>4. last[n][c] # NoHash => IsClock(last[n][c], n, c)
    BY DEF Structure, LastNewest
  <2>5. \A m \in Nodes : tip[n][m][c] # NoHash => IsClock(tip[n][m][c], m, c)
    BY DEF Structure, TipsTruthful
  <2>6. \A e \in tail[n][c] : e \in DOMAIN event /\ Creator(e) = n
    BY DEF Structure, OwnStore, EventsOf
  <2> QED
    BY SMTT(40), <2>2, <2>3, <2>4, <2>5, <2>6 DEF NewClockEvent, IsClock
<1> QED
  BY SMTT(40), <1>2, <1>3 DEF ClocksCausal, IsClock

\* Learned reverse edges are true.
LEMMA BackStep ==
    ASSUME Structure, BackEdgesTruthful, Next
    PROVE  BackEdgesTruthful'
<1> SUFFICES ASSUME NEW p \in back'
             PROVE  /\ p[1] \in DOMAIN clock' /\ p[2] \in DOMAIN clock'
                    /\ clock'[p[2]].cross[Creator(p[1])] = p[1]
  BY DEF BackEdgesTruthful
<1>1. CASE p \in back
  BY <1>1, ClockStable DEF BackEdgesTruthful
<1>2. CASE p \notin back
  <2>1. PICK n \in Nodes, x \in notes : ReceiveNotification(n, x)
    BY SMTT(40), <1>2 DEF Next, DagStep, DagCrash, AdvanceClock, StepBack, AddNeighbor, Publish,
       CreateClockEvent, CrashInTick, Gc, Restart, CrashInReceive
  <2>2. x.to = n /\ x.their \in live[n] /\ p = <<x.their, x.tip>> /\ clock' = clock
    BY <1>2, <2>1 DEF ReceiveNotification
  <2>3. IsClock(x.tip, x.from, x.chain) /\ clock[x.tip].cross[x.to] = x.their
    BY DEF Structure, NotesTruthful
  <2>4. x.their \in DOMAIN clock /\ Creator(x.their) = n
    BY <2>2 DEF Structure, OwnStore
  <2> QED
    BY <2>2, <2>3, <2>4 DEF IsClock
<1> QED
  BY <1>1, <1>2
-----------------------------------------------------------------------------
\* No event is forgotten.
LEMMA PinnedStable ==
    ASSUME Structure, Next, NEW e, NEW c, PinnedBy(e, c)
    PROVE  PinnedBy(e, c)'
BY ClockStable DEF PinnedBy, IsClock

LEMMA PrefixStep ==
    ASSUME Structure, ClocksCausal, PinnedOrPending, PinsPrefix, Next
    PROVE  PinsPrefix'
<1> SUFFICES ASSUME NEW h \in DOMAIN clock', NEW e \in clock'[h].pins, NEW f \in DOMAIN event',
                    Creator(f) = Creator(h), Born(f) <= Born(e)
             PROVE  \E g \in DOMAIN clock' : /\ Creator(g) = Creator(f)
                                             /\ clock'[g].chain = clock'[h].chain
                                             /\ f \in clock'[g].pins
  BY SMTT(40) DEF PinsPrefix, PinnedBy, IsClock
<1>1. CASE h \in DOMAIN clock
  <2>1. clock'[h] = clock[h] /\ e \in DOMAIN event
    BY SMTT(40), <1>1, ClockStable DEF ClocksCausal
  <2>2. f \in DOMAIN event
    <3>1. SUFFICES ASSUME f \notin DOMAIN event PROVE FALSE
      OBVIOUS
    <3>3. Born(f) = births + 1
      BY <3>1, NewEventPublished, Zenon
    <3>4. Born(e) \in Nat /\ Born(e) <= births /\ births \in Nat
      BY <2>1, HashParts DEF Structure, TypeOK, Numbered
    <3> QED
      BY <3>3, <3>4
  <2>3. PinnedBy(f, clock[h].chain)
    BY SMTT(40), <1>1, <2>1, <2>2 DEF PinsPrefix
  <2> QED
    BY <2>1, <2>3, ClockStable DEF PinnedBy, IsClock
<1>2. CASE h \notin DOMAIN clock
  <2>1. PICK n \in Nodes, c \in Chains : Ticks(n, c)
    BY SMTT(40), <1>2, StepKinds DEF Quiet, Publish
  <2>2. Creator(h) = n /\ clock'[h] = NewClockEvent(n, c) /\ event' = event
    <3>1. DOMAIN clock' = DOMAIN clock \cup {<<n, births + 1>>}
      BY ZenonT(40), <2>1, TickAdds
    <3>2. h = <<n, births + 1>>
      BY SMTT(40), <1>2, <3>1
    <3> QED
      BY ZenonT(40), <2>1, <3>2, TickAdds
  <2>3. clock'[h].chain = c /\ clock'[h].pins = tail[n][c]
    BY <2>2 DEF NewClockEvent
  <2>4. f \in tail[n][c] \/ PinnedBy(f, c)
    BY <2>2 DEF PinnedOrPending
  <2> QED
    BY <2>2, <2>3, <2>4, ClockStable DEF PinnedBy, IsClock
<1> QED
  BY <1>1, <1>2

\* What a rehydration leaves off a tail has been pinned.
HydrationSafe ==
    \A n \in Nodes : \A c \in Chains : \A e \in EventsOf(n) :
        e \notin Hydrated(n, live[n], clock, c) => PinnedBy(e, c)

LEMMA HydratedMissesPinned ==
    Structure /\ ClocksCausal /\ PinsPrefix => HydrationSafe
<1> SUFFICES ASSUME Structure, ClocksCausal, PinsPrefix, NEW n \in Nodes, NEW c \in Chains,
                    NEW e \in EventsOf(n), e \notin Hydrated(n, live[n], clock, c)
             PROVE  PinnedBy(e, c)
  BY DEF HydrationSafe
<1>1. PICK f \in EventsOf(n), h \in live[n] :
        Born(f) >= Born(e) /\ clock[h].chain = c /\ f \in ClockRefs(clock[h])
  BY DEF Hydrated
<1>2. h \in DOMAIN clock /\ Creator(h) = n
  BY DEF Structure, OwnStore
<1>3. f \in DOMAIN event /\ f \notin DOMAIN clock /\ Creator(e) = n
  BY DEF EventsOf, Structure, Numbered
<1>4. f \in clock[h].pins
  BY SMTT(40), <1>1, <1>2, <1>3 DEF ClockRefs, ClocksCausal, IsClock
<1>5. Born(e) \in Nat /\ Born(f) \in Nat
  BY <1>3, HashParts DEF EventsOf, Structure, TypeOK
<1> QED
  BY <1>1, <1>2, <1>3, <1>4, <1>5 DEF PinsPrefix, EventsOf

LEMMA PendingStep ==
    ASSUME Structure, RingsContiguous, ClocksCausal, PinnedOrPending, PinsPrefix, Next
    PROVE  PinnedOrPending'
<1> SUFFICES ASSUME NEW e \in DOMAIN event', NEW d \in Chains
             PROVE  e \in tail'[Creator(e)][d] \/ PinnedBy(e, d)'
  BY DEF PinnedOrPending, PinnedBy, IsClock
<1>1. Structure' /\ ClocksCausal' /\ PinsPrefix'
  BY StructureStep, ClocksStep, PrefixStep
<1>2. CASE e \notin DOMAIN event
  <2>1. PICK n \in Nodes : Publish(n) /\ e = <<n, births + 1>> /\ Creator(e) = n
    BY <1>2, NewEventPublished, Zenon
  <2>2. e = <<n, births + 1>> /\ Creator(e) = n
    BY <2>1, Zenon
  <2> QED
    BY <2>1, <2>2 DEF Publish, Structure, TypeOK
<1>3. CASE e \in DOMAIN event /\ PinnedBy(e, d)
  BY <1>3, PinnedStable
<1>4. CASE e \in DOMAIN event /\ e \in tail[Creator(e)][d]
  <2> DEFINE k == Creator(e)
  <2>1. k \in Nodes
    BY <1>4, HashParts DEF Structure, TypeOK
  <2>2. CASE tail' = tail
    BY <1>4, <2>2
  <2>3. ASSUME NEW n \in Nodes, Publish(n) PROVE e \in tail'[k][d]
    BY <1>4, <2>1, <2>3 DEF Publish, Structure, TypeOK
  <2>4. ASSUME NEW n \in Nodes, NEW c \in Chains, CreateClockEvent(n, c)
        PROVE  e \in tail'[k][d] \/ PinnedBy(e, d)'
    <3>1. CASE n = k /\ c = d
      <4> DEFINE h == <<n, births + 1>>
      <4>1. Ticks(n, c)
        BY <2>4 DEF Ticks
      <4>2. DOMAIN clock' = DOMAIN clock \cup {h} /\ clock'[h] = NewClockEvent(n, c) /\ Creator(h) = n
        BY <4>1, TickAdds
      <4> HIDE DEF h
      <4>3. clock'[h].chain = c /\ e \in clock'[h].pins
        BY <1>4, <3>1, <4>2 DEF NewClockEvent
      <4> QED
        BY <3>1, <4>2, <4>3 DEF PinnedBy, IsClock
    <3>2. CASE ~(n = k /\ c = d)
      BY <1>4, <2>1, <2>4, <3>2 DEF CreateClockEvent, Structure, TypeOK
    <3> QED
      BY <3>1, <3>2
  <2>5. ASSUME NEW n \in Nodes, event' = event,
               tail' = [tail EXCEPT ![n] = HydratedTail(n, live'[n], clock')]
        PROVE  e \in tail'[k][d] \/ PinnedBy(e, d)'
    <3>1. CASE n # k
      BY <1>4, <2>1, <2>5, <3>1 DEF Structure, TypeOK
    <3>2. CASE n = k
      <4>1. tail'[k][d] = Hydrated(k, live[k], clock, d)'
        BY <2>1, <2>5, <3>2 DEF HydratedTail, Hydrated, EventsOf, Structure, TypeOK
      <4>2. e \in EventsOf(k)'
        BY <2>1 DEF EventsOf
      <4>3. e \notin Hydrated(k, live[k], clock, d)' => PinnedBy(e, d)'
        <5>1. (Structure /\ ClocksCausal /\ PinsPrefix => HydrationSafe)'
          BY HydratedMissesPinned, PTL
        <5>2. HydrationSafe'
          BY <1>1, <5>1
        <5> QED
          BY <2>1, <4>2, <5>2 DEF HydrationSafe
      <4> QED
        BY <4>1, <4>3
    <3> QED
      BY <3>1, <3>2
  <2>6. ASSUME NEW n \in Nodes, DagCrash(n)
        PROVE  event' = event /\ tail' = [tail EXCEPT ![n] = HydratedTail(n, live'[n], clock')]
    BY <2>6 DEF DagCrash, Restart, CrashInReceive, CrashInTick, InsertClockEvent
  <2>7. PICK n \in Nodes : DagStep(n) \/ DagCrash(n)
    BY DEF Next
  <2>8. CASE DagStep(n)
    <3>1. CASE AdvanceClock(n) \/ StepBack(n) \/ Gc(n)
      BY <2>2, <3>1 DEF AdvanceClock, StepBack, Gc
    <3>2. CASE \E m \in Nodes : AddNeighbor(n, m)
      BY <2>2, <3>2 DEF AddNeighbor
    <3>3. CASE \E m \in notes : ReceiveNotification(n, m)
      BY <2>2, <3>3 DEF ReceiveNotification
    <3>4. CASE Publish(n)
      BY <2>3, <3>4
    <3>5. CASE \E c \in Chains : CreateClockEvent(n, c)
      BY <2>4, <3>5
    <3> QED
      BY <2>8, <3>1, <3>2, <3>3, <3>4, <3>5 DEF DagStep
  <2> QED
    BY <2>5, <2>6, <2>7, <2>8
<1> QED
  BY <1>2, <1>3, <1>4, ClockStable DEF PinnedOrPending
-----------------------------------------------------------------------------
\* How a step changes the tail of chain d at node m: it is cleared by the tick that
\* pins it, grows by a publication, is rederived by a crash, or stays as it is
\* while the stored clock events of the chain only become fewer.
Cleared(m, d) == CreateClockEvent(m, d) /\ tail'[m][d] = {}
Rederived(m, d) ==
    /\ event' = event /\ tail'[m][d] = Hydrated(m, live'[m], clock', d)
    /\ \A h \in live'[m] : h \in live[m] \/ \E c \in Chains : Ticks(m, c) /\ h = <<m, births + 1>>
Waits(m, d) ==
    /\ tail'[m][d] = tail[m][d]
    /\ \A h \in live'[m] : clock'[h].chain = d => h \in live[m]

LEMMA TickPins ==
    ASSUME Structure, NEW n \in Nodes, NEW c \in Chains, Ticks(n, c), NEW h, h = <<n, births + 1>>
    PROVE  /\ h \in DOMAIN clock' /\ h \notin DOMAIN clock
           /\ clock'[h].chain = c /\ clock'[h].pins = tail[n][c]
<1>1. h \notin DOMAIN clock /\ DOMAIN clock' = DOMAIN clock \cup {h}
  BY ZenonT(40), TickAdds
<1>2. clock'[h] = NewClockEvent(n, c)
  BY ZenonT(40), TickAdds
<1>3. NewClockEvent(n, c).chain = c /\ NewClockEvent(n, c).pins = tail[n][c]
  BY DEF NewClockEvent
<1> QED
  BY <1>1, <1>2, <1>3

LEMMA TickTail ==
    ASSUME Structure, NEW n \in Nodes, NEW c \in Chains, CreateClockEvent(n, c),
           NEW m \in Nodes, NEW d \in Chains
    PROVE  Cleared(m, d) \/ Waits(m, d)
<1> DEFINE h == <<n, births + 1>>
<1>1. CASE m = n /\ d = c
  BY <1>1 DEF Cleared, CreateClockEvent, Structure, TypeOK
<1>2. CASE ~(m = n /\ d = c)
  <2>1. tail'[m][d] = tail[m][d]
    BY <1>2 DEF CreateClockEvent, Structure, TypeOK
  <2>2. Ticks(n, c)
    BY DEF Ticks
  <2>3. clock'[h].chain = c
    BY <2>2, TickPins
  <2>4. live'[m] \subseteq live[m] \cup {h} /\ (m # n => live'[m] = live[m])
    <3> DEFINE kept == Pruned(live[n] \cup {h}, clock', c, Keep[c])
    <3>1. live' = [live EXCEPT ![n] = kept]
      BY DEF CreateClockEvent
    <3>2. kept \subseteq live[n] \cup {h}
      BY DEF Pruned
    <3>3. DOMAIN live = Nodes
      BY DEF Structure, TypeOK
    <3> HIDE DEF kept, h
    <3> QED
      BY <3>1, <3>2, <3>3
  <2> QED
    BY <1>2, <2>1, <2>3, <2>4 DEF Waits
<1> QED
  BY <1>1, <1>2

LEMMA CrashTail ==
    ASSUME Structure, NEW n \in Nodes, DagCrash(n), NEW m \in Nodes, NEW d \in Chains
    PROVE  Rederived(m, d) \/ Waits(m, d)
<1>1. /\ event' = event
      /\ tail' = [tail EXCEPT ![n] = HydratedTail(n, live'[n], clock')]
  BY DEF DagCrash, Restart, CrashInReceive, CrashInTick, InsertClockEvent
<1>2. \/ live' = live
      \/ \E c \in Chains : CrashInTick(n, c) /\ live' = [live EXCEPT ![n] = @ \cup {<<n, births + 1>>}]
  BY ZenonT(40) DEF DagCrash, Restart, CrashInReceive, CrashInTick
<1>3. CASE m = n
  <2>1. tail'[m][d] = Hydrated(m, live'[m], clock', d)
    BY <1>1, <1>3 DEF HydratedTail, Structure, TypeOK
  <2>2. \A h \in live'[m] : h \in live[m] \/ \E c \in Chains : Ticks(m, c) /\ h = <<m, births + 1>>
    BY <1>2, <1>3 DEF Ticks, Structure, TypeOK
  <2> QED
    BY <1>1, <2>1, <2>2, Zenon DEF Rederived
<1>4. CASE m # n
  BY <1>1, <1>2, <1>4 DEF Waits, Structure, TypeOK
<1> QED
  BY <1>3, <1>4

LEMMA TailKinds ==
    ASSUME Structure, Next, NEW m \in Nodes, NEW d \in Chains
    PROVE  Cleared(m, d) \/ Publish(m) \/ Rederived(m, d) \/ Waits(m, d)
<1>1. PICK n \in Nodes : DagStep(n) \/ DagCrash(n)
  BY DEF Next
<1>2. CASE DagCrash(n)
  BY <1>2, CrashTail
<1>3. CASE \E c \in Chains : CreateClockEvent(n, c)
  BY <1>3, TickTail
<1>4. CASE Publish(n)
  <2>1. live' = live /\ (m # n => tail'[m][d] = tail[m][d])
    BY <1>4 DEF Publish, Structure, TypeOK
  <2> QED
    BY <1>4, <2>1 DEF Waits
<1>5. CASE Gc(n)
  <2>1. tail' = tail /\ live'[m] \subseteq live[m]
    BY <1>5 DEF Gc, Structure, TypeOK
  <2> QED
    BY <2>1 DEF Waits
<1>6. CASE \/ AdvanceClock(n) \/ StepBack(n) \/ \E x \in Nodes : AddNeighbor(n, x)
           \/ \E x \in notes : ReceiveNotification(n, x)
  <2>1. UNCHANGED <<tail, live>>
    BY ZenonT(40), <1>6 DEF AdvanceClock, StepBack, AddNeighbor, ReceiveNotification
  <2> QED
    BY <2>1 DEF Waits
<1> QED
  BY <1>1, <1>2, <1>3, <1>4, <1>5, <1>6 DEF DagStep

\* The pins of a stored clock event are events of the node, and the only events
\* its references name.
PinsAreEvents ==
    \A n \in Nodes : \A h \in live[n] :
        /\ h \in DOMAIN clock
        /\ clock[h].pins \subseteq EventsOf(n)
        /\ EventsOf(n) \cap ClockRefs(clock[h]) = clock[h].pins

LEMMA StoredPins == Structure /\ ClocksCausal => PinsAreEvents
<1> SUFFICES ASSUME Structure, ClocksCausal, NEW n \in Nodes, NEW h \in live[n]
             PROVE  /\ h \in DOMAIN clock
                    /\ clock[h].pins \subseteq EventsOf(n)
                    /\ EventsOf(n) \cap ClockRefs(clock[h]) = clock[h].pins
  BY DEF PinsAreEvents
<1>1. h \in DOMAIN clock /\ Creator(h) = n
  BY DEF Structure, OwnStore
<1>2. clock[h].pins \subseteq EventsOf(n)
  BY <1>1 DEF ClocksCausal, EventsOf
<1>3. ASSUME NEW f \in EventsOf(n), f \in ClockRefs(clock[h]) PROVE f \in clock[h].pins
  <2>1. f \notin DOMAIN clock
    BY DEF EventsOf, Structure, Numbered
  <2> QED
    BY SMTT(40), <1>1, <1>3, <2>1 DEF ClockRefs, ClocksCausal, IsClock
<1> QED
  BY <1>1, <1>2, <1>3 DEF ClockRefs

LEMMA AheadStep ==
    ASSUME Structure, RingsContiguous, ClocksCausal, TailAhead, Next
    PROVE  TailAhead'
<1> SUFFICES ASSUME NEW n \in Nodes, NEW c \in Chains, NEW e \in tail'[n][c],
                    NEW h \in live'[n], clock'[h].chain = c, NEW f \in clock'[h].pins
             PROVE  Born(f) < Born(e)
  BY DEF TailAhead
<1>1. Structure' /\ ClocksCausal'
  BY StructureStep, ClocksStep
<1>2. /\ h \in DOMAIN clock' /\ f \in EventsOf(n)'
      /\ f \in ClockRefs(clock'[h])
  <2>1. (Structure /\ ClocksCausal => PinsAreEvents)'
    BY StoredPins, PTL
  <2>2. PinsAreEvents'
    BY <1>1, <2>1
  <2> QED
    BY <2>2 DEF PinsAreEvents, ClockRefs
<1>3. /\ e \in EventsOf(n)' /\ Born(e) \in Nat /\ Born(f) \in Nat
  <2>1. e \in EventsOf(n)'
    BY <1>1 DEF Structure, OwnStore
  <2>2. e \in Hash /\ f \in Hash
    BY <1>1, <1>2, <2>1 DEF EventsOf, Structure, TypeOK
  <2> QED
    BY <2>1, <2>2, HashParts
<1>4. ASSUME e \in tail[n][c], h \in live[n] PROVE Born(f) < Born(e)
  <2>1. h \in DOMAIN clock
    BY <1>4 DEF Structure, OwnStore
  <2>2. clock'[h] = clock[h]
    BY <2>1, ClockStable
  <2> QED
    BY <1>4, <2>2 DEF TailAhead
<1>5. CASE Publish(n)
  <2>1. live' = live /\ (e \in tail[n][c] \/ e = <<n, births + 1>>)
    BY <1>5 DEF Publish, Structure, TypeOK
  <2>2. CASE e = <<n, births + 1>>
    <3>1. h \in live[n]
      BY <2>1
    <3>2. f \in DOMAIN event
      <4>1. PinsAreEvents
        BY StoredPins
      <4>2. clock'[h] = clock[h]
        BY <1>5 DEF Publish
      <4> QED
        BY <3>1, <4>1, <4>2 DEF PinsAreEvents, EventsOf
    <3>3. Born(f) <= births /\ births \in Nat
      BY <3>2 DEF Structure, Numbered, TypeOK
    <3> QED
      BY <1>3, <2>2, <3>3 DEF Born
  <2> QED
    BY <1>4, <2>1, <2>2
<1>6. CASE Rederived(n, c)
  <2>1. e \in Hydrated(n, live'[n], clock', c) /\ f \in EventsOf(n)
    BY <1>2, <1>6 DEF Rederived, EventsOf
  <2>2. ~(Born(f) >= Born(e))
    BY <1>2, <2>1 DEF Hydrated
  <2> QED
    BY <1>3, <2>2
<1>7. CASE Waits(n, c)
  BY <1>4, <1>7 DEF Waits
<1>8. CASE Cleared(n, c)
  BY <1>8 DEF Cleared
<1> QED
  BY <1>5, <1>6, <1>7, <1>8, TailKinds

\* An event off a tail was pinned in that step.
LEMMA UnpinnedStays ==
    ASSUME Structure, RingsContiguous, ClocksCausal, TailAhead, Next,
           NEW e \in DOMAIN event, NEW c \in Chains,
           e \in tail[Creator(e)][c], e \notin tail'[Creator(e)][c]
    PROVE  \E h \in DOMAIN clock' \ DOMAIN clock : clock'[h].chain = c /\ e \in clock'[h].pins
<1> DEFINE n == Creator(e)
           g == <<n, births + 1>>
<1>1. n \in Nodes /\ e \in EventsOf(n) /\ Born(e) \in Nat
  BY HashParts DEF EventsOf, Structure, TypeOK
<1>2. ASSUME NEW d \in Chains, Ticks(n, d), clock'[g].chain = c
      PROVE  g \in DOMAIN clock' \ DOMAIN clock /\ clock'[g].chain = c /\ e \in clock'[g].pins
  <2>1. /\ g \in DOMAIN clock' /\ g \notin DOMAIN clock
        /\ clock'[g].chain = d /\ clock'[g].pins = tail[n][d]
    BY <1>1, <1>2, TickPins
  <2> QED
    BY <1>2, <2>1
<1>3. CASE Cleared(n, c)
  <2>1. Ticks(n, c)
    BY <1>3 DEF Cleared, Ticks
  <2>2. clock'[g].chain = c
    BY <1>1, <2>1, TickPins
  <2> QED
    BY <1>2, <2>1, <2>2
<1>4. CASE Rederived(n, c)
  <2>1. event' = event /\ e \notin Hydrated(n, live'[n], clock', c)
    BY <1>4 DEF Rederived
  <2>2. PICK f \in EventsOf(n), h \in live'[n] :
          Born(f) >= Born(e) /\ clock'[h].chain = c /\ f \in ClockRefs(clock'[h])
    BY <1>1, <2>1 DEF Hydrated
  <2>3. f \in clock'[h].pins
    <3>1. Structure' /\ ClocksCausal'
      BY StructureStep, ClocksStep
    <3>2. (Structure /\ ClocksCausal => PinsAreEvents)'
      BY StoredPins, PTL
    <3>3. PinsAreEvents'
      BY <3>1, <3>2
    <3>4. f \in EventsOf(n)'
      BY <2>1 DEF EventsOf
    <3> QED
      BY <1>1, <2>2, <3>3, <3>4 DEF PinsAreEvents
  <2>4. h \notin live[n]
    <3> SUFFICES ASSUME h \in live[n] PROVE FALSE
      OBVIOUS
    <3>1. h \in DOMAIN clock
      BY <1>1 DEF Structure, OwnStore
    <3>2. clock'[h] = clock[h]
      BY <3>1, ClockStable
    <3>3. Born(f) < Born(e)
      BY <1>1, <2>2, <2>3, <3>2 DEF TailAhead
    <3>4. Born(f) \in Nat
      BY HashParts DEF EventsOf, Structure, TypeOK
    <3> QED
      BY <1>1, <2>2, <3>3, <3>4
  <2>5. h = g /\ \E d \in Chains : Ticks(n, d)
    BY <2>4, <1>4 DEF Rederived
  <2> QED
    BY <1>2, <2>2, <2>5
<1>5. ~Publish(n) /\ ~Waits(n, c)
  <2>1. ASSUME Publish(n) PROVE e \in tail'[n][c]
    BY <1>1, <2>1 DEF Publish, Structure, TypeOK
  <2> QED
    BY <2>1 DEF Waits
<1> QED
  BY <1>1, <1>3, <1>4, <1>5, TailKinds

-----------------------------------------------------------------------------
\* Timestamps.
LEMMA StampFacts ==
    ASSUME Structure, NEW n \in Nodes, NEW c \in Chains
    PROVE  /\ Stamp(n, c) \in Nat /\ now[n] <= Stamp(n, c)
           /\ last[n][c] # NoHash => clock[last[n][c]].ts <= Stamp(n, c)
           /\ NotInFuture /\ ~Backward => Stamp(n, c) = now[n]
<1>1. now[n] \in Nat
  BY DEF Structure, TypeOK
<1>2. last[n][c] # NoHash => /\ last[n][c] \in DOMAIN clock /\ Creator(last[n][c]) = n
                             /\ clock[last[n][c]].ts \in Nat
  BY DEF Structure, TypeOK, LastNewest, IsClock, ClockEvent
<1> QED
  BY SMTT(40), <1>1, <1>2 DEF Stamp, NotInFuture

LEMMA PrevNewestStep ==
    ASSUME Structure, ClocksCausal, PrevNewest, Next
    PROVE  PrevNewest'
<1> SUFFICES ASSUME NEW h \in DOMAIN clock', NEW g \in DOMAIN clock',
                    Creator(g) = Creator(h), clock'[g].chain = clock'[h].chain, Born(g) < Born(h)
             PROVE  clock'[h].prev # NoHash /\ Born(g) <= Born(clock'[h].prev)
  BY DEF PrevNewest, IsClock
<1>1. /\ births \in Nat
      /\ \A x \in DOMAIN clock : Born(x) \in Nat /\ Born(x) <= births
  BY HashParts DEF Structure, TypeOK, Numbered
<1>2. \A x \in DOMAIN clock : x \in DOMAIN clock' /\ clock'[x] = clock[x]
  BY ClockStable
<1>3. CASE h \in DOMAIN clock /\ g \in DOMAIN clock
  BY <1>2, <1>3 DEF PrevNewest, IsClock
<1>4. CASE ~(h \in DOMAIN clock /\ g \in DOMAIN clock)
  <2>1. PICK n \in Nodes, c \in Chains : Ticks(n, c)
    BY <1>4, StepKinds DEF Quiet, Publish
  <2> DEFINE x == <<n, births + 1>>
  <2>2. DOMAIN clock' = DOMAIN clock \cup {x}
    BY ZenonT(40), <2>1, TickAdds
  <2>3. Creator(x) = n /\ Born(x) = births + 1
    BY DEF Creator, Born
  <2>4. clock'[x] = NewClockEvent(n, c)
    BY ZenonT(40), <2>1, TickAdds
  <2>5. clock'[x].prev = last[n][c] /\ clock'[x].chain = c
    BY SMTT(40), <2>4 DEF NewClockEvent
  <2> HIDE DEF x
  <2>6. h = x /\ g \in DOMAIN clock
    BY SMTT(20), <1>1, <1>4, <2>2, <2>3
  <2>7. IsClock(g, n, c)
    BY <1>2, <2>3, <2>5, <2>6 DEF IsClock
  <2>8. last[n][c] # NoHash /\ Born(g) <= Born(last[n][c])
    BY <2>6, <2>7 DEF Structure, LastNewest
  <2> QED
    BY <2>5, <2>6, <2>8
<1> QED
  BY <1>3, <1>4

LEMMA ChainMonotoneStep ==
    ASSUME Structure, ClocksCausal, ChainMonotone, Next
    PROVE  ChainMonotone'
<1> SUFFICES ASSUME NEW h \in DOMAIN clock', clock'[h].prev # NoHash
             PROVE  clock'[clock'[h].prev].ts <= clock'[h].ts
  BY DEF ChainMonotone
<1>1. CASE h \in DOMAIN clock
  <2>1. clock'[h] = clock[h] /\ clock[h].prev \in DOMAIN clock
    BY <1>1, ClockStable DEF ClocksCausal, IsClock
  <2>2. clock'[clock[h].prev] = clock[clock[h].prev]
    BY SMTT(40), <2>1, ClockStable
  <2> QED
    BY <1>1, <2>1, <2>2 DEF ChainMonotone
<1>2. CASE h \notin DOMAIN clock
  <2>1. PICK n \in Nodes, c \in Chains : Ticks(n, c)
    BY <1>2, StepKinds DEF Quiet, Publish
  <2>2. DOMAIN clock' = DOMAIN clock \cup {<<n, births + 1>>}
    BY ZenonT(40), <2>1, TickAdds
  <2>3. h = <<n, births + 1>>
    BY <1>2, <2>2
  <2>4. clock'[h] = NewClockEvent(n, c)
    BY ZenonT(40), <2>1, <2>3, TickAdds
  <2>5. clock'[h].prev = last[n][c] /\ clock'[h].ts = Stamp(n, c)
    BY SMTT(40), <2>4 DEF NewClockEvent
  <2>6. last[n][c] \in DOMAIN clock
    BY SMTT(40), <2>5 DEF Structure, LastNewest, IsClock
  <2>7. clock'[last[n][c]] = clock[last[n][c]]
    BY SMTT(40), <2>6, ClockStable
  <2> QED
    BY SMTT(40), <2>5, <2>7, StampFacts
<1> QED
  BY <1>1, <1>2

LEMMA NodeMonotoneStep ==
    ASSUME Structure, NotInFuture, NodeMonotone, Next
    PROVE  NotInFuture' /\ NodeMonotone'
<1> SUFFICES ASSUME ~Backward
             PROVE  /\ \A h \in DOMAIN clock' : clock'[h].ts <= now'[Creator(h)]
                    /\ \A g, h \in DOMAIN clock' : Creator(g) = Creator(h) /\ Born(g) <= Born(h)
                                                    => clock'[g].ts <= clock'[h].ts
  BY SMTT(40) DEF NotInFuture, NodeMonotone
<1>1. \A h \in DOMAIN clock : /\ clock[h].ts \in Nat /\ clock[h].ts <= now[Creator(h)]
                              /\ Creator(h) \in Nodes /\ now[Creator(h)] \in Nat
                              /\ Born(h) \in Nat /\ Born(h) <= births
  BY HashParts DEF Structure, TypeOK, Numbered, NotInFuture, ClockEvent
<1>2. \A g, h \in DOMAIN clock : Creator(g) = Creator(h) /\ Born(g) <= Born(h) => clock[g].ts <= clock[h].ts
  BY DEF NodeMonotone
<1>3. CASE now' = now /\ clock' = clock
  BY <1>1, <1>2, <1>3
<1>4. ASSUME NEW n \in Nodes, AdvanceClock(n)
      PROVE  clock' = clock /\ \A m \in Nodes : now[m] <= now'[m] /\ now'[m] \in Nat
  BY <1>4 DEF AdvanceClock, Structure, TypeOK
<1>5. ASSUME NEW n \in Nodes, NEW c \in Chains, Ticks(n, c)
      PROVE  /\ \A h \in DOMAIN clock' : clock'[h].ts <= now'[Creator(h)]
             /\ \A g, h \in DOMAIN clock' : Creator(g) = Creator(h) /\ Born(g) <= Born(h)
                                             => clock'[g].ts <= clock'[h].ts
  <2> DEFINE x == <<n, births + 1>>
  <2>1. /\ Creator(x) = n /\ Born(x) = births + 1 /\ now' = now
        /\ DOMAIN clock' = DOMAIN clock \cup {x}
        /\ clock'[x] = NewClockEvent(n, c)
        /\ \A g \in DOMAIN clock : clock'[g] = clock[g]
    BY <1>5, TickAdds
  <2>2. clock'[x].ts = now[n]
    BY SMTT(40), <2>1, StampFacts DEF NewClockEvent
  <2>3. now[n] \in Nat /\ births \in Nat
    BY DEF Structure, TypeOK
  <2> HIDE DEF x
  <2>4. \A h \in DOMAIN clock' : clock'[h].ts <= now'[Creator(h)]
    BY SMTT(40), <1>1, <2>1, <2>2, <2>3
  <2>5. ASSUME NEW g \in DOMAIN clock', NEW h \in DOMAIN clock',
               Creator(g) = Creator(h), Born(g) <= Born(h)
        PROVE  clock'[g].ts <= clock'[h].ts
    <3>1. CASE h = x
      BY <2>1, <2>2, <2>4, <2>5, <3>1
    <3>2. CASE h # x
      <4>1. h \in DOMAIN clock /\ g \in DOMAIN clock
        BY SMTT(40), <1>1, <2>1, <2>3, <2>5, <3>2
      <4> QED
        BY SMTT(40), <1>2, <2>1, <2>5, <4>1
    <3> QED
      BY <3>1, <3>2
  <2> QED
    BY <2>4, <2>5
<1>6. \/ now' = now /\ clock' = clock
      \/ \E n \in Nodes : AdvanceClock(n)
      \/ \E n \in Nodes, c \in Chains : Ticks(n, c)
  BY ZenonT(40) DEF Next, DagStep, DagCrash, StepBack, AddNeighbor, Publish, Ticks, Gc, Restart,
     ReceiveNotification, CrashInReceive
<1>7. ASSUME NEW n \in Nodes, AdvanceClock(n)
      PROVE  /\ \A h \in DOMAIN clock' : clock'[h].ts <= now'[Creator(h)]
             /\ \A g, h \in DOMAIN clock' : Creator(g) = Creator(h) /\ Born(g) <= Born(h)
                                             => clock'[g].ts <= clock'[h].ts
  BY SMTT(40), <1>1, <1>2, <1>4, <1>7
<1> QED
  BY SMTT(40), <1>3, <1>5, <1>6, <1>7

-----------------------------------------------------------------------------
LEMMA InitInv == Init => DagInv
<1> SUFFICES ASSUME Init PROVE DagInv
  OBVIOUS
<1> USE DEF Init
<1>1. TypeOK
  BY SMTT(40), PeersAssumption DEF TypeOK, OptHash
<1>3. Numbered
  BY DEF Numbered
<1>4. LastNewest /\ OwnStore
  BY DEF LastNewest, OwnStore, IsClock, EventsOf
<1>5. TipsTruthful /\ NotesTruthful
  BY DEF TipsTruthful, NotesTruthful, IsClock
<1>6. Structure
  BY <1>1, <1>3, <1>4, <1>5 DEF Structure
<1> QED
  BY ZenonT(40), <1>6 DEF DagInv, Causal, AnchorsCausal, ClocksCausal, BackEdgesTruthful, RingsContiguous,
     PinnedOrPending, PinsPrefix, TailAhead, PrevNewest, ChainMonotone, NotInFuture, NodeMonotone

LEMMA NextInv == DagInv /\ [Next]_dagVars => DagInv'
<1> SUFFICES ASSUME DagInv, [Next]_dagVars PROVE DagInv'
  OBVIOUS
<1>1. CASE Next
  BY <1>1, StructureStep, AnchorsStep, ClocksStep, BackStep, PrefixStep, PendingStep, AheadStep,
     PrevNewestStep, ChainMonotoneStep, NodeMonotoneStep DEF DagInv, Causal
<1>2. CASE UNCHANGED dagVars
  <2> USE <1>2
  <2>1. (TypeOK /\ Numbered)'
    BY SMTT(40) DEF DagInv, Structure, TypeOK, Numbered
  <2>2. LastNewest'
    BY ZenonT(40) DEF DagInv, Structure, LastNewest, IsClock
  <2>3. OwnStore'
    BY ZenonT(40) DEF DagInv, Structure, OwnStore, EventsOf, IsClock
  <2>4. (TipsTruthful /\ NotesTruthful)'
    <3>1. TipsTruthful'
      BY ZenonT(40) DEF DagInv, Structure, TipsTruthful, IsClock
    <3>2. NotesTruthful'
      BY ZenonT(40) DEF DagInv, Structure, NotesTruthful, IsClock
    <3> QED BY <3>1, <3>2, Zenon
  <2>5. Causal'
    <3>1. AnchorsCausal'
      BY ZenonT(40) DEF DagInv, Causal, AnchorsCausal, IsClock
    <3>2. ClocksCausal'
      BY ZenonT(40) DEF DagInv, Causal, ClocksCausal, IsClock
    <3> QED BY <3>1, <3>2, Zenon DEF Causal
  <2>6. (BackEdgesTruthful /\ RingsContiguous)'
    BY ZenonT(40) DEF DagInv, BackEdgesTruthful, RingsContiguous, IsClock
  <2>7. PinnedOrPending'
    BY ZenonT(40) DEF DagInv, PinnedOrPending, PinnedBy, IsClock
  <2>8. PinsPrefix'
    BY ZenonT(40) DEF DagInv, PinsPrefix, PinnedBy, IsClock
  <2>9. ChainMonotone'
    BY ZenonT(40) DEF DagInv, ChainMonotone
  <2>10. (NotInFuture /\ NodeMonotone)'
    BY ZenonT(40) DEF DagInv, NotInFuture, NodeMonotone
  <2>11. TailAhead'
    BY ZenonT(40) DEF DagInv, TailAhead
  <2>12. PrevNewest'
    BY ZenonT(40) DEF DagInv, PrevNewest, IsClock
  <2> QED
    BY <2>1, <2>2, <2>3, <2>4, <2>5, <2>6, <2>7, <2>8, <2>9, <2>10, <2>11, <2>12 DEF DagInv, Structure
<1> QED
  BY <1>1, <1>2

\* The inductive invariant of the growing DAG holds in every reachable state.
THEOREM DagInvariant == Spec => []DagInv
<1> QED
  BY InitInv, NextInv, PTL DEF Spec

\* The store and the working state are always well typed.
THEOREM TypeCorrect == Spec => []TypeOK
<1>1. DagInv => TypeOK
  BY DEF DagInv, Structure
<1> QED
  BY <1>1, DagInvariant, PTL

\* insert_event and insert_clock_event only ever reference existing, earlier objects
\* of the right creator and chain: the DAG is acyclic and matched in resolution.
THEOREM CausalAlways == Spec => []Causal
<1>1. DagInv => Causal
  BY DEF DagInv
<1> QED
  BY <1>1, DagInvariant, PTL

\* process_clock_event_notification never records a false reverse edge, however
\* notifications are lost, repeated or reordered and wherever the node crashes.
THEOREM BackEdgesAlwaysTruthful == Spec => []BackEdgesTruthful
<1>1. DagInv => BackEdgesTruthful
  BY DEF DagInv
<1> QED
  BY <1>1, DagInvariant, PTL

\* prune_chain and gc leave every chain a gap-free suffix.
THEOREM RingsAlwaysContiguous == Spec => []RingsContiguous
<1>1. DagInv => RingsContiguous
  BY DEF DagInv
<1> QED
  BY <1>1, DagInvariant, PTL

\* hydrate_working_state loses no event: each is pinned or waits for the next tick.
THEOREM NoEventForgotten == Spec => []PinnedOrPending
<1>1. DagInv => PinnedOrPending
  BY DEF DagInv
<1> QED
  BY <1>1, DagInvariant, PTL

\* Neither a crash inside a tick nor hydrate_working_state takes a waiting event off
\* a tail: only the step that creates the clock event pinning it does.
THEOREM WaitingUntilPinned == Spec => PendingUntilPinned
<1> DEFINE Step == \A e \in DOMAIN event : \A c \in Chains :
              e \in tail[Creator(e)][c] /\ e \notin tail'[Creator(e)][c] =>
                 \E h \in DOMAIN clock' \ DOMAIN clock :
                     clock'[h].chain = c /\ e \in clock'[h].pins
<1>1. DagInv /\ [Next]_dagVars => [Step]_dagVars
  <2>1. ASSUME DagInv, Next PROVE Step
    BY <2>1, UnpinnedStays DEF DagInv, Causal
  <2> QED
    BY <2>1
<1> HIDE DEF Step
<1>2. Spec => [][Step]_dagVars
  BY <1>1, DagInvariant, PTL DEF Spec
<1> QED
  BY <1>2 DEF PendingUntilPinned, Step

\* The clamp of insert_clock_event makes each chain's timestamps non-decreasing,
\* also when the wall clock steps back.
THEOREM ChainAlwaysMonotone == Spec => []ChainMonotone
<1>1. DagInv => ChainMonotone
  BY DEF DagInv
<1> QED
  BY <1>1, DagInvariant, PTL

\* Without backward clock steps the timestamps of all chains of a node together
\* follow the order in which insert_clock_event created the clock events.
THEOREM NodeAlwaysMonotone == Spec => []NodeMonotone
<1>1. DagInv => NodeMonotone
  BY DEF DagInv
<1> QED
  BY <1>1, DagInvariant, PTL
=============================================================================
