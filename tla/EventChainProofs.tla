-------------------------- MODULE EventChainProofs --------------------------
(***************************************************************************)
(* The event chains of ChainDiscovery: a chain built at the creator, spliced *)
(* by the nodes a response passes or extended by a hop encloses its event  *)
(* and is linked clock event by clock event, and both stay true as the DAG *)
(* grows.  ChainDiscoveryProofs rests on these lemmas.                     *)
(***************************************************************************)
EXTENDS ChainDiscovery, LotiDagProofs

USE DEF discVars, vars

-----------------------------------------------------------------------------
\* The first stored clock event referencing x was created after x.
LEMMA ReferencingIsLater ==
    ASSUME DagInv, NEW n \in Nodes, NEW x, NEW u \in Referencing(n, x)
    PROVE  u \in DOMAIN clock /\ u \in Hash /\ Creator(u) = n /\ Born(x) < Born(u)
<1>1. u \in live[n] /\ x \in ClockRefs(clock[u])
  BY DEF Referencing
<1>2. u \in DOMAIN clock /\ u \in Hash /\ Creator(u) = n
  BY <1>1 DEF DagInv, Structure, TypeOK, OwnStore
<1> QED
  BY <1>1, <1>2 DEF DagInv, Causal, ClocksCausal, ClockRefs

\* add_local_lower_bound and add_local_upper_bound at the creator enclose the event.
LEMMA SeedEncloses ==
    ASSUME DagInv, NEW n \in Nodes, NEW e \in DOMAIN event, NEW ch \in Seed(n, e)
    PROVE  ch \in EventChain /\ ch.event = e /\ Encloses(n, ch)
<1>1. PICK l \in SeedLower(n, e), u \in FirstReferencing(n, e) :
        ch = [event |-> e, lower |-> {l}, front |-> l, upper |-> {u}, back |-> u]
  BY DEF Seed
<1>2. PICK c \in Chains : l = event[e][c] /\ event[e][c] \in live[n]
  BY DEF SeedLower
<1>3. l \in DOMAIN clock /\ l \in Hash /\ Creator(l) = n
  BY <1>2 DEF DagInv, Structure, TypeOK, OwnStore
<1>4. Born(l) < Born(e)
  <2>1. l # NoHash
    BY <1>3, NoHashAssumption
  <2> QED
    BY <1>2, <2>1 DEF DagInv, Causal, AnchorsCausal
<1>5. u \in DOMAIN clock /\ u \in Hash /\ Creator(u) = n /\ Born(e) < Born(u)
  BY ReferencingIsLater DEF FirstReferencing
<1>6. e \in Hash
  BY DEF DagInv, Structure, TypeOK
<1> QED
  BY <1>1, <1>3, <1>4, <1>5, <1>6 DEF EventChain, Encloses

\* Splicing another node's clock events on widens the enclosure to that node.
LEMMA SpliceEncloses ==
    ASSUME DagInv, NEW n \in Nodes, NEW m \in Nodes, NEW ch \in EventChain,
           Encloses(m, ch), NEW ch2 \in Splice(n, ch)
    PROVE  ch2 \in EventChain /\ ch2.event = ch.event /\ Encloses(n, ch2)
<1>1. PICK l \in {clock[ch.front].cross[n]} \cap live[n], u \in FirstReferencing(n, ch.back) :
        ch2 = [event |-> ch.event, lower |-> ch.lower \cup {l}, front |-> l,
               upper |-> ch.upper \cup {u}, back |-> u]
  BY DEF Splice
<1>2. l \in DOMAIN clock /\ l \in Hash /\ Creator(l) = n
  BY DEF DagInv, Structure, TypeOK, OwnStore
<1>3. Born(l) < Born(ch.front)
  <2>1. l # NoHash /\ ch.front \in DOMAIN clock
    BY <1>2, NoHashAssumption DEF Encloses
  <2> QED
    BY <2>1 DEF DagInv, Causal, ClocksCausal
<1>4. u \in DOMAIN clock /\ u \in Hash /\ Creator(u) = n /\ Born(ch.back) < Born(u)
  BY ReferencingIsLater DEF FirstReferencing
<1>5. /\ ch2 \in EventChain /\ ch2.event = ch.event /\ ch2.front = l /\ ch2.back = u
  BY <1>1, <1>2, <1>4 DEF EventChain
<1>6. Born(l) \in Nat /\ Born(u) \in Nat /\ Born(ch.front) \in Nat /\ Born(ch.back) \in Nat
      /\ Born(ch.event) \in Nat
  BY <1>2, <1>4, HashParts DEF EventChain
<1> QED
  BY <1>2, <1>3, <1>4, <1>5, <1>6 DEF Encloses

\* Walking both ends along the node's own chains keeps the enclosure.
LEMMA ExtendEncloses ==
    ASSUME DagInv, NEW n \in Nodes, NEW m \in Nodes, NEW ch \in EventChain,
           Encloses(n, ch), NEW ch2 \in Extend(n, m, ch)
    PROVE  ch2 \in EventChain /\ ch2.event = ch.event /\ Encloses(n, ch2)
<1>1. PICK c1 \in ExtendLower(n, m, ch) : ch2 \in ExtendUpper(n, m, c1)
  BY DEF Extend
<1>2. PICK g \in live[n] :
        /\ Born(g) <= Born(ch.front)
        /\ c1 = [ch EXCEPT !.front = g, !.lower = @ \cup Run(n, g, ch.front)]
  BY ZenonT(40) DEF ExtendLower
<1>3. PICK h \in live[n] :
        /\ Born(c1.back) <= Born(h)
        /\ ch2 = [c1 EXCEPT !.back = h, !.upper = @ \cup Run(n, c1.back, h)]
  BY ZenonT(40), <1>1 DEF ExtendUpper
<1>4. /\ g \in DOMAIN clock /\ g \in Hash /\ Creator(g) = n
      /\ h \in DOMAIN clock /\ h \in Hash /\ Creator(h) = n
  BY DEF DagInv, Structure, TypeOK, OwnStore
<1>5. Run(n, g, ch.front) \subseteq Hash /\ Run(n, c1.back, h) \subseteq Hash
  BY DEF Run, DagInv, Structure, TypeOK
<1>6. c1 \in EventChain /\ c1.event = ch.event /\ c1.front = g /\ c1.back = ch.back
  BY ZenonT(40), <1>2, <1>4, <1>5 DEF EventChain
<1>7. ch2 \in EventChain /\ ch2.event = ch.event /\ ch2.front = g /\ ch2.back = h
  BY ZenonT(40), <1>3, <1>4, <1>5, <1>6 DEF EventChain
<1>8. Born(g) \in Nat /\ Born(h) \in Nat /\ Born(ch.front) \in Nat /\ Born(ch.back) \in Nat
      /\ Born(ch.event) \in Nat
  BY <1>4, HashParts DEF EventChain
<1> QED
  BY <1>2, <1>3, <1>4, <1>6, <1>7, <1>8 DEF Encloses
-----------------------------------------------------------------------------
(***************************************************************************)
(* Paths without gaps.                                                      *)
(***************************************************************************)

\* Links have natural birth numbers, and a clock event references what it commits to.
LEMMA LinkFacts ==
    ASSUME DagInv
    PROVE  /\ \A x \in DOMAIN event \cup DOMAIN clock : Born(x) \in Nat
           /\ \A x \in DOMAIN clock : Refs(x) = ClockRefs(clock[x])
<1>1. /\ DOMAIN event \subseteq Hash /\ DOMAIN clock \subseteq Hash
      /\ DOMAIN event \cap DOMAIN clock = {}
  BY DEF DagInv, Structure, TypeOK, Numbered
<1> QED
  BY <1>1, HashParts DEF Refs

\* The seed is a path: the event references its anchor, the pin references the event.
LEMMA SeedLinked ==
    ASSUME DagInv, NEW n \in Nodes, NEW e \in DOMAIN event, NEW ch \in Seed(n, e)
    PROVE  WellLinked(ch) /\ ch.front \in live[n] /\ ch.back \in live[n]
<1>1. PICK l \in SeedLower(n, e), u \in FirstReferencing(n, e) :
        ch = [event |-> e, lower |-> {l}, front |-> l, upper |-> {u}, back |-> u]
  BY DEF Seed
<1>2. PICK c \in Chains : l = event[e][c] /\ l \in live[n]
  BY DEF SeedLower
<1>3. u \in live[n] /\ e \in ClockRefs(clock[u])
  BY DEF FirstReferencing, Referencing
<1>4. ch.event = e /\ ch.front = l /\ ch.back = u /\ ch.lower = {l} /\ ch.upper = {u}
  BY <1>1
<1>5. /\ l \in DOMAIN clock /\ u \in DOMAIN clock
      /\ Born(l) < Born(e) /\ Born(e) < Born(u)
  BY <1>4, SeedEncloses DEF Encloses
<1>6. Born(l) \in Nat /\ Born(e) \in Nat /\ Born(u) \in Nat
  BY <1>5, LinkFacts
<1>7. l \in Refs(e) /\ e \in Refs(u)
  <2>1. l # NoHash
    BY <1>5, NoHashAssumption DEF DagInv, Structure, TypeOK
  <2> QED
    BY <1>2, <1>3, <1>5, <2>1, LinkFacts DEF Refs, EventRefs
<1>8. Links(ch) = {l, e, u}
  BY <1>4 DEF Links
<1>9. Linked(ch)
  <2>1. \A z \in {l, e, u} : Born(z) <= Born(l) \/ Born(z) >= Born(e)
    BY <1>5, <1>6
  <2>2. \A z \in {l, e, u} : Born(z) <= Born(e) \/ Born(z) >= Born(u)
    BY <1>5, <1>6
  <2> QED
    BY <1>4, <1>5, <1>7, <1>8, <2>1, <2>2 DEF Linked
<1> QED
  BY <1>2, <1>3, <1>4, <1>5, <1>6, <1>8, <1>9 DEF WellLinked

\* Splicing prolongs a path at both ends: the front references the new lower link,
\* the new upper link references the back.
LEMMA SpliceLinked ==
    ASSUME DagInv, NEW n \in Nodes, NEW m \in Nodes, NEW ch \in EventChain,
           Encloses(m, ch), WellLinked(ch), NEW ch2 \in Splice(n, ch)
    PROVE  WellLinked(ch2) /\ ch2.front \in live[n] /\ ch2.back \in live[n]
<1>1. PICK l \in {clock[ch.front].cross[n]} \cap live[n], u \in FirstReferencing(n, ch.back) :
        ch2 = [event |-> ch.event, lower |-> ch.lower \cup {l}, front |-> l,
               upper |-> ch.upper \cup {u}, back |-> u]
  BY DEF Splice
<1>2. u \in live[n] /\ ch.back \in ClockRefs(clock[u])
  BY DEF FirstReferencing, Referencing
<1>3. /\ ch2.event = ch.event /\ ch2.front = l /\ ch2.back = u
      /\ ch2.lower = ch.lower \cup {l} /\ ch2.upper = ch.upper \cup {u}
  BY <1>1
<1>4. l \in DOMAIN clock /\ u \in DOMAIN clock /\ ch.front \in DOMAIN clock
  BY <1>3, SpliceEncloses DEF Encloses
<1>5. l # NoHash
  BY <1>4, NoHashAssumption DEF DagInv, Structure, TypeOK
<1>6. Born(l) < Born(ch.front)
  BY <1>4, <1>5 DEF DagInv, Causal, ClocksCausal
<1>7. Born(ch.back) < Born(u)
  BY ReferencingIsLater DEF FirstReferencing
<1>8. l \in Refs(ch.front) /\ ch.back \in Refs(u)
  BY <1>2, <1>4, <1>5, LinkFacts DEF ClockRefs
<1> DEFINE L == Links(ch)
<1>9. Links(ch2) = L \cup {l, u}
  BY <1>3 DEF Links
<1>10. /\ ch.front \in L /\ ch.back \in L
       /\ \A x \in L : Born(ch.front) <= Born(x) /\ Born(x) <= Born(ch.back)
       /\ L \subseteq DOMAIN event \cup DOMAIN clock
  BY DEF WellLinked, Links
<1>11. \A x \in L \ {ch.front} : \E y \in L : /\ y \in Refs(x) /\ Born(y) < Born(x)
            /\ \A z \in L : Born(z) <= Born(y) \/ Born(z) >= Born(x)
  BY DEF WellLinked, Linked
<1>12. \A x \in L \cup {l, u} : Born(x) \in Nat
  BY <1>4, <1>10, LinkFacts
<1> HIDE DEF L
<1>13. \A x \in L \cup {l, u} : Born(l) <= Born(x) /\ Born(x) <= Born(u)
  BY <1>6, <1>7, <1>10, <1>12
<1>14. ASSUME NEW x \in L \cup {l, u}, x # l
       PROVE  \E y \in L \cup {l, u} : /\ y \in Refs(x) /\ Born(y) < Born(x)
                /\ \A z \in L \cup {l, u} : Born(z) <= Born(y) \/ Born(z) >= Born(x)
  <2>1. CASE x = ch.front
    <3>1. \A z \in L \cup {l, u} : Born(z) <= Born(l) \/ Born(z) >= Born(x)
      BY <1>7, <1>10, <1>12, <2>1
    <3> QED
      BY <1>6, <1>8, <2>1, <3>1
  <2>2. CASE x \in L /\ x # ch.front
    <3>1. PICK y \in L : /\ y \in Refs(x) /\ Born(y) < Born(x)
                         /\ \A z \in L : Born(z) <= Born(y) \/ Born(z) >= Born(x)
      BY <1>11, <2>2
    <3>2. \A z \in L \cup {l, u} : Born(z) <= Born(y) \/ Born(z) >= Born(x)
      BY <1>6, <1>7, <1>10, <1>12, <2>2, <3>1
    <3> QED
      BY <3>1, <3>2
  <2>3. CASE x = u
    <3>1. \A z \in L \cup {l, u} : Born(z) <= Born(ch.back) \/ Born(z) >= Born(x)
      BY <1>6, <1>10, <1>12, <2>3
    <3> QED
      BY <1>7, <1>8, <1>10, <2>3, <3>1
  <2> QED
    BY <1>14, <2>1, <2>2, <2>3
<1>15. Linked(ch2)
  BY <1>3, <1>9, <1>14 DEF Linked
<1>16. ch2.front \in ch2.lower /\ ch2.back \in ch2.upper
  BY <1>3
<1>17. Links(ch2) \subseteq DOMAIN event \cup DOMAIN clock
  BY <1>4, <1>9, <1>10
<1> QED
  BY <1>2, <1>3, <1>9, <1>13, <1>15, <1>16, <1>17 DEF WellLinked

\* A run of a node's chain has no gap: below each clock event of the run but the
\* first comes its prev, which the run contains.
LEMMA RunFacts ==
    ASSUME DagInv, NEW n \in Nodes, NEW g \in live[n], NEW h \in live[n],
           clock[g].chain = clock[h].chain, NEW x \in Run(n, g, h), x # g
    PROVE  \E y \in Run(n, g, h) : /\ y \in Refs(x) /\ Born(y) < Born(x)
             /\ \A z \in Run(n, g, h) : Born(z) <= Born(y) \/ Born(z) >= Born(x)
<1> DEFINE y == clock[x].prev
           c == clock[h].chain
<1>1. /\ \A z \in live[n] : z \in DOMAIN clock /\ Creator(z) = n /\ z \in Hash
      /\ \A z \in live[n] : Born(z) \in Nat /\ z = <<Creator(z), Born(z)>>
  BY HashParts DEF DagInv, Structure, TypeOK, OwnStore
<1>2. x \in live[n] /\ clock[x].chain = c /\ Born(g) <= Born(x) /\ Born(x) <= Born(h)
  BY DEF Run
<1>3. Born(g) < Born(x)
  BY <1>1, <1>2
<1>4. \A z \in DOMAIN clock : IsClock(z, n, c) /\ Born(z) < Born(x) => y # NoHash /\ Born(z) <= Born(y)
  BY <1>1, <1>2 DEF DagInv, PrevNewest
<1>5. y # NoHash /\ Born(g) <= Born(y)
  BY <1>1, <1>3, <1>4 DEF IsClock
<1>6. IsClock(y, n, c) /\ Born(y) < Born(x)
  BY <1>1, <1>2, <1>5 DEF DagInv, Causal, ClocksCausal
<1>7. y \in Hash /\ y \in DOMAIN clock /\ Born(y) \in Nat /\ y = <<Creator(y), Born(y)>>
  BY <1>6, HashParts DEF DagInv, Structure, TypeOK, IsClock
<1>8. y \in Refs(x)
  BY <1>1, <1>2, <1>5, LinkFacts DEF ClockRefs
<1> HIDE DEF y, c
<1>9. y \in live[n]
  <2>1. CASE Born(y) = Born(g)
    BY <1>1, <1>6, <1>7, <2>1 DEF IsClock
  <2>2. CASE Born(g) < Born(y)
    <3>1. IsClock(y, n, clock[g].chain)
      BY <1>6 DEF c
    <3> QED
      BY <2>2, <3>1 DEF DagInv, RingsContiguous, IsClock
  <2> QED
    BY <1>1, <1>5, <1>7, <2>1, <2>2
<1>10. y \in Run(n, g, h)
  <2>1. Born(y) <= Born(h)
    BY <1>1, <1>2, <1>6, <1>7
  <2>2. clock[y].chain = clock[h].chain
    BY <1>6 DEF IsClock, c
  <2> QED
    BY <1>5, <1>9, <2>1, <2>2 DEF Run
<1>11. ASSUME NEW z \in Run(n, g, h)
       PROVE  Born(z) <= Born(y) \/ Born(z) >= Born(x)
  <2>1. z \in live[n] /\ clock[z].chain = c
    BY DEF Run, c
  <2>2. IsClock(z, n, c) /\ Born(z) \in Nat
    BY <1>1, <2>1 DEF IsClock
  <2> QED
    BY <1>1, <1>2, <1>4, <2>2 DEF IsClock
<1> QED
  BY <1>6, <1>8, <1>10, <1>11

\* Walking the front back along its chain (extend_lower_bound_for_neighbor) leaves no gap.
LEMMA ExtendLowerLinked ==
    ASSUME DagInv, NEW n \in Nodes, NEW m \in Nodes, NEW ch \in EventChain,
           WellLinked(ch), ch.front \in live[n], NEW c1 \in ExtendLower(n, m, ch)
    PROVE  /\ c1 \in EventChain /\ WellLinked(c1) /\ c1.event = ch.event
           /\ c1.back = ch.back /\ c1.front \in live[n]
<1> DEFINE f == ch.front
<1>1. PICK g \in live[n] :
        /\ Born(g) <= Born(f) /\ clock[g].chain = clock[f].chain
        /\ c1 = [ch EXCEPT !.front = g, !.lower = @ \cup Run(n, g, f)]
  BY ZenonT(40) DEF ExtendLower
<1> DEFINE R == Run(n, g, f)
           L == Links(ch)
<1>2. /\ \A z \in live[n] : z \in DOMAIN clock /\ z \in Hash /\ Born(z) \in Nat
      /\ R \subseteq live[n] /\ \A z \in R : Born(g) <= Born(z) /\ Born(z) <= Born(f)
  BY HashParts DEF DagInv, Structure, TypeOK, OwnStore, Run
<1>3. /\ c1 \in EventChain /\ c1.event = ch.event /\ c1.front = g /\ c1.back = ch.back
      /\ c1.lower = ch.lower \cup R /\ c1.upper = ch.upper
  BY ZenonT(40), <1>1, <1>2 DEF EventChain
<1>4. Links(c1) = L \cup R
  BY <1>3 DEF Links
<1>5. g \in R /\ f \in R
  BY <1>1, <1>2 DEF Run
<1>6. /\ f \in L /\ ch.back \in L /\ ch.back \in ch.upper
      /\ \A x \in L : Born(f) <= Born(x) /\ Born(x) <= Born(ch.back)
      /\ L \subseteq DOMAIN event \cup DOMAIN clock
  BY DEF WellLinked, Links
<1>7. \A x \in L \ {f} : \E y \in L : /\ y \in Refs(x) /\ Born(y) < Born(x)
            /\ \A z \in L : Born(z) <= Born(y) \/ Born(z) >= Born(x)
  BY DEF WellLinked, Linked
<1>8. \A x \in R \ {g} : \E y \in R : /\ y \in Refs(x) /\ Born(y) < Born(x)
            /\ \A z \in R : Born(z) <= Born(y) \/ Born(z) >= Born(x)
  BY <1>1, RunFacts
<1>9. \A x \in L \cup R : Born(x) \in Nat
  BY <1>2, <1>6, LinkFacts
<1> HIDE DEF L, R, f
<1>10. \A x \in L \cup R : Born(g) <= Born(x) /\ Born(x) <= Born(ch.back)
  BY <1>1, <1>2, <1>5, <1>6, <1>9
<1>11. ASSUME NEW x \in L \cup R, x # g
       PROVE  \E y \in L \cup R : /\ y \in Refs(x) /\ Born(y) < Born(x)
                /\ \A z \in L \cup R : Born(z) <= Born(y) \/ Born(z) >= Born(x)
  <2>1. CASE x \in R
    <3>1. PICK y \in R : /\ y \in Refs(x) /\ Born(y) < Born(x)
                         /\ \A z \in R : Born(z) <= Born(y) \/ Born(z) >= Born(x)
      BY <1>8, <1>11, <2>1
    <3>2. \A z \in L : Born(z) >= Born(x)
      BY <1>2, <1>5, <1>6, <1>9, <2>1
    <3> QED
      BY <3>1, <3>2
  <2>2. CASE x \in L /\ x # f
    <3>1. PICK y \in L : /\ y \in Refs(x) /\ Born(y) < Born(x)
                         /\ \A z \in L : Born(z) <= Born(y) \/ Born(z) >= Born(x)
      BY <1>7, <2>2
    <3>2. \A z \in R : Born(z) <= Born(y)
      BY <1>2, <1>5, <1>6, <1>9, <3>1
    <3> QED
      BY <3>1, <3>2
  <2> QED
    BY <1>5, <1>11, <2>1, <2>2
<1>12. Linked(c1)
  BY <1>3, <1>4, <1>11 DEF Linked
<1>13. Links(c1) \subseteq DOMAIN event \cup DOMAIN clock
  BY <1>2, <1>4, <1>6
<1>14. WellLinked(c1)
  BY <1>3, <1>4, <1>5, <1>6, <1>10, <1>12, <1>13 DEF WellLinked
<1> QED
  BY <1>3, <1>14

\* Walking the back forward along its chain (extend_upper_bound_for_neighbor) leaves
\* no gap.
LEMMA ExtendUpperLinked ==
    ASSUME DagInv, NEW n \in Nodes, NEW m \in Nodes, NEW ch \in EventChain,
           WellLinked(ch), ch.back \in live[n], NEW c1 \in ExtendUpper(n, m, ch)
    PROVE  WellLinked(c1)
<1> DEFINE b == ch.back
<1>1. PICK g \in live[n] :
        /\ Born(b) <= Born(g) /\ clock[g].chain = clock[b].chain
        /\ c1 = [ch EXCEPT !.back = g, !.upper = @ \cup Run(n, b, g)]
  BY ZenonT(40) DEF ExtendUpper
<1> DEFINE R == Run(n, b, g)
           L == Links(ch)
<1>2. /\ \A z \in live[n] : z \in DOMAIN clock /\ z \in Hash /\ Born(z) \in Nat
      /\ R \subseteq live[n] /\ \A z \in R : Born(b) <= Born(z) /\ Born(z) <= Born(g)
  BY HashParts DEF DagInv, Structure, TypeOK, OwnStore, Run
<1>3. /\ c1.event = ch.event /\ c1.front = ch.front /\ c1.back = g
      /\ c1.upper = ch.upper \cup R /\ c1.lower = ch.lower
  BY ZenonT(40), <1>1 DEF EventChain
<1>4. Links(c1) = L \cup R
  BY <1>3 DEF Links
<1>5. g \in R /\ b \in R
  BY <1>1, <1>2 DEF Run
<1>6. /\ b \in L /\ ch.front \in L /\ ch.front \in ch.lower
      /\ \A x \in L : Born(ch.front) <= Born(x) /\ Born(x) <= Born(b)
      /\ L \subseteq DOMAIN event \cup DOMAIN clock
  BY DEF WellLinked, Links
<1>7. \A x \in L \ {ch.front} : \E y \in L : /\ y \in Refs(x) /\ Born(y) < Born(x)
            /\ \A z \in L : Born(z) <= Born(y) \/ Born(z) >= Born(x)
  BY DEF WellLinked, Linked
<1>8. \A x \in R \ {b} : \E y \in R : /\ y \in Refs(x) /\ Born(y) < Born(x)
            /\ \A z \in R : Born(z) <= Born(y) \/ Born(z) >= Born(x)
  BY <1>1, RunFacts
<1>9. \A x \in L \cup R : Born(x) \in Nat
  BY <1>2, <1>6, LinkFacts
<1> HIDE DEF L, R, b
<1>10. \A x \in L \cup R : Born(ch.front) <= Born(x) /\ Born(x) <= Born(g)
  BY <1>1, <1>2, <1>5, <1>6, <1>9
<1>11. ASSUME NEW x \in L \cup R, x # ch.front
       PROVE  \E y \in L \cup R : /\ y \in Refs(x) /\ Born(y) < Born(x)
                /\ \A z \in L \cup R : Born(z) <= Born(y) \/ Born(z) >= Born(x)
  <2>1. CASE x \in R /\ x # b
    <3>1. PICK y \in R : /\ y \in Refs(x) /\ Born(y) < Born(x)
                         /\ \A z \in R : Born(z) <= Born(y) \/ Born(z) >= Born(x)
      BY <1>8, <2>1
    <3>2. \A z \in L : Born(z) <= Born(y)
      BY <1>2, <1>5, <1>6, <1>9, <3>1
    <3> QED
      BY <3>1, <3>2
  <2>2. CASE x \in L
    <3>1. PICK y \in L : /\ y \in Refs(x) /\ Born(y) < Born(x)
                         /\ \A z \in L : Born(z) <= Born(y) \/ Born(z) >= Born(x)
      BY <1>7, <1>11, <2>2
    <3>2. \A z \in R : Born(z) >= Born(x)
      BY <1>2, <1>5, <1>6, <1>9, <2>2
    <3> QED
      BY <3>1, <3>2
  <2> QED
    BY <1>6, <1>11, <2>1, <2>2
<1>12. Linked(c1)
  BY <1>3, <1>4, <1>11 DEF Linked
<1>13. Links(c1) \subseteq DOMAIN event \cup DOMAIN clock
  BY <1>2, <1>4, <1>6
<1> QED
  BY <1>3, <1>4, <1>5, <1>6, <1>10, <1>12, <1>13 DEF WellLinked

LEMMA ExtendLinked ==
    ASSUME DagInv, NEW n \in Nodes, NEW m \in Nodes, NEW ch \in EventChain,
           WellLinked(ch), ch.front \in live[n], ch.back \in live[n], NEW ch2 \in Extend(n, m, ch)
    PROVE  WellLinked(ch2)
<1>1. PICK c1 \in ExtendLower(n, m, ch) : ch2 \in ExtendUpper(n, m, c1)
  BY DEF Extend
<1> QED
  BY <1>1, ExtendLowerLinked, ExtendUpperLinked

-----------------------------------------------------------------------------
\* What exists stays as it is, so enclosures persist.
LEMMA DagMoves ==
    DiscNext => [Next]_dagVars
BY ZenonT(40) DEF DiscNext, LocalStep, Next, DiscoverOwn, DiscoverRemote, OpenRemote, ReflectRequest, ForwardRequest, AcceptRequest,
       ForwardResponse, CompleteResponse, PurgeDiscovery, PurgeSeen

LEMMA EncloseStable ==
    ASSUME DagInv, [Next]_dagVars, NEW n, NEW ch, Encloses(n, ch)
    PROVE  Encloses(n, ch)'
<1>1. CASE Next
  <2>1. Structure
    BY DEF DagInv
  <2>2. DOMAIN clock \subseteq DOMAIN clock' /\ DOMAIN event \subseteq DOMAIN event'
    BY <1>1, <2>1, ClockStable
  <2> QED
    BY <2>2 DEF Encloses
<1>2. CASE UNCHANGED dagVars
  BY <1>2 DEF Encloses, dagVars
<1> QED
  BY <1>1, <1>2

\* What a link references is fixed when it is created, so paths stay gap-free.
LEMMA LinkedStable ==
    ASSUME DagInv, DagInv', [Next]_dagVars, NEW ch, WellLinked(ch)
    PROVE  WellLinked(ch)'
<1>1. /\ \A h \in DOMAIN clock : h \in DOMAIN clock' /\ clock'[h] = clock[h]
      /\ \A e \in DOMAIN event : e \in DOMAIN event' /\ event'[e] = event[e]
  <2>1. CASE Next
    BY <2>1, ClockStable DEF DagInv
  <2>2. CASE UNCHANGED dagVars
    BY <2>2 DEF dagVars
  <2> QED
    BY <2>1, <2>2
<1>2. ASSUME NEW x \in DOMAIN event \cup DOMAIN clock
      PROVE  Refs(x)' = Refs(x)
  <2>1. CASE x \in DOMAIN event
    BY <1>1, <2>1 DEF Refs, EventRefs
  <2>2. CASE x \in DOMAIN clock
    <3>1. Refs(x) = ClockRefs(clock[x]) /\ Refs(x)' = ClockRefs(clock'[x])
      <4>1. x \in DOMAIN clock'
        BY <1>1, <2>2
      <4>2. x \notin DOMAIN event /\ x \notin DOMAIN event'
        BY <2>2, <4>1 DEF DagInv, Structure, Numbered
      <4> QED
        BY <4>2 DEF Refs, ClockRefs
    <3> QED
      BY <1>1, <2>2, <3>1
  <2> QED
    BY <2>1, <2>2
<1>3. Links(ch)' = Links(ch) /\ Links(ch) \subseteq DOMAIN event \cup DOMAIN clock
  BY DEF WellLinked, Links
<1>4. Linked(ch)'
  BY <1>2, <1>3 DEF WellLinked, Linked
<1> QED
  BY <1>1, <1>3, <1>4 DEF WellLinked

LEMMA EventsStable ==
    ASSUME DagInv, [Next]_dagVars
    PROVE  DOMAIN event \subseteq DOMAIN event'
<1>1. Structure
  BY DEF DagInv
<1> QED
  BY <1>1, ClockStable DEF dagVars

\* A chain the code builds from an own event, or from a response, encloses its event.
LEMMA SettleFacts ==
    ASSUME DiscInv, NEW n \in Nodes, NEW e \in Hash, NEW built \in SUBSET EventChain,
           \A ch \in built : Encloses(n, ch), Settle(n, e, built)
    PROVE  /\ proved' \in [Nodes -> SUBSET EventChain]
           /\ failed' \in [Nodes -> SUBSET Hash]
           /\ \A m \in Nodes : \A ch \in proved'[m] : Encloses(m, ch)
<1>1. proved \in [Nodes -> SUBSET EventChain] /\ failed \in [Nodes -> SUBSET Hash]
  BY DEF DiscInv, DiscTypeOK
<1>2. \A m \in Nodes : \A ch \in proved[m] : Encloses(m, ch)
  BY DEF DiscInv, ProvedEnclose
<1>3. PICK good \in SUBSET built : proved' = [proved EXCEPT ![n] = @ \cup good]
  BY ZenonT(40) DEF Settle
<1>4. failed' \in [Nodes -> SUBSET Hash]
  BY <1>1 DEF Settle
<1> QED
  BY ZenonT(40), <1>1, <1>2, <1>3, <1>4

\* Floods name a known event, visit no node twice and respect the hop limit.
LEMMA FloodFacts ==
    ASSUME DiscInv, NEW n \in Nodes, NEW o \in Nodes, NEW e \in DOMAIN event,
           NEW path \in Seq(Nodes),
           \A i, j \in 1 .. Len(path) : path[i] = path[j] => i = j,
           \A i \in 1 .. Len(path) : path[i] # n,
           HopLimit > 0 => Len(path) < HopLimit,
           Flood(n, o, e, path)
    PROVE  /\ requests' \subseteq Request
           /\ \A m \in requests' :
                 /\ m.event \in DOMAIN event
                 /\ \A i, j \in 1 .. Len(m.path) : m.path[i] = m.path[j] => i = j
                 /\ HopLimit > 0 => Len(m.path) <= HopLimit
<1> DEFINE p == Append(path, n)
           Req(m) == [from |-> n, to |-> m, originator |-> o, event |-> e, path |-> p]
<1>1. PICK hops \in SUBSET nbrs[n] : requests' = requests \cup {Req(m) : m \in hops}
  BY ZenonT(40) DEF Flood
<1>2. p \in Seq(Nodes) /\ Len(p) = Len(path) + 1 /\ Len(path) \in Nat
  OBVIOUS
<1>3. \A i \in 1 .. Len(path) : p[i] = path[i]
  OBVIOUS
<1>4. p[Len(path) + 1] = n
  OBVIOUS
<1>5. \A i, j \in 1 .. Len(p) : p[i] = p[j] => i = j
  <2> HIDE DEF p
  <2> QED
    BY <1>2, <1>3, <1>4
<1>6. HopLimit > 0 => Len(p) <= HopLimit
  BY <1>2, DiscoveryAssumption
<1>7. e \in Hash /\ nbrs[n] \subseteq Nodes
  BY DEF DiscInv, DagInv, Structure, TypeOK
<1> HIDE DEF p
<1>8. \A m \in hops : Req(m) \in Request /\ Req(m).event = e /\ Req(m).path = p
  BY <1>2, <1>7 DEF Request
<1> HIDE DEF Req
<1>9. ASSUME NEW x \in requests'
      PROVE  x \in requests \/ (x \in Request /\ x.event = e /\ x.path = p)
  BY <1>1, <1>8
<1>10. \A m \in requests : /\ m \in Request /\ m.event \in DOMAIN event
                           /\ \A i, j \in 1 .. Len(m.path) : m.path[i] = m.path[j] => i = j
                           /\ HopLimit > 0 => Len(m.path) <= HopLimit
  BY DEF DiscInv, DiscTypeOK, RequestsKnown, FloodBounded
<1> QED
  BY SMTT(40), <1>5, <1>6, <1>9, <1>10

\* A retraced response carries a chain enclosed by its sender.
LEMMA RetraceFacts ==
    ASSUME DiscInv, NEW n \in Nodes, NEW o \in Nodes, NEW chains \in SUBSET EventChain,
           NEW path \in Seq(Nodes), \A ch \in chains : Encloses(n, ch) /\ WellLinked(ch),
           Retrace(n, o, chains, path)
    PROVE  /\ responses' \subseteq Response
           /\ \A m \in responses' : Encloses(m.from, m.chain) /\ WellLinked(m.chain)
<1> DEFINE good == {c \in chains : Len(path) > 0 /\ path[Len(path)] \in nbrs[n]}
           Rsp(ch) == [from |-> n, to |-> path[Len(path)], originator |-> o, chain |-> ch,
                       path |-> SubSeq(path, 1, Len(path) - 1)]
<1>1. responses' = responses \cup {Rsp(ch) : ch \in good}
  BY DEF Retrace
<1>2. ASSUME NEW ch \in good
      PROVE  Rsp(ch) \in Response /\ Rsp(ch).from = n /\ Rsp(ch).chain = ch
  <2>1. path[Len(path)] \in Nodes
    BY DEF DiscInv, DagInv, Structure, TypeOK
  <2>2. SubSeq(path, 1, Len(path) - 1) \in Seq(Nodes)
    OBVIOUS
  <2> QED
    BY <2>1, <2>2 DEF Response
<1> HIDE DEF Rsp
<1>3. ASSUME NEW x \in responses'
      PROVE  x \in responses \/ (x \in Response /\ x.from = n /\ x.chain \in chains)
  BY <1>1, <1>2
<1>4. /\ responses \subseteq Response
      /\ \A m \in responses : Encloses(m.from, m.chain) /\ WellLinked(m.chain)
  BY DEF DiscInv, DiscTypeOK, ResponsesEnclose, ResponsesLinked
<1> QED
  BY <1>3, <1>4, Zenon
=============================================================================
