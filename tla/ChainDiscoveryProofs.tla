------------------------ MODULE ChainDiscoveryProofs ------------------------
(***************************************************************************)
(* Proofs about ChainDiscovery for every network, every schedule of chains, *)
(* every retention and every router: completed discoveries enclose their   *)
(* event, the order derived from two of them is the publication order as   *)
(* long as wall clocks do not step back, and every complete response verifies *)
(* wherever it arrives.  Discovery with the routers of                     *)
(* core/routing/discovery_router.hpp implements discovery with a free choice *)
(* of hops, so that all this holds with every policy.                      *)
(***************************************************************************)
EXTENDS Routing, EventChainProofs

USE DEF discVars, vars

-----------------------------------------------------------------------------
(***************************************************************************)
(* Preservation.  Kept states what a step must establish, with the          *)
(* enclosures still read in the old state; stability carries them over.     *)
(***************************************************************************)
Kept ==
    /\ DiscTypeOK'
    /\ \A m \in requests' : m.event \in DOMAIN event
    /\ \A m \in responses' : Encloses(m.from, m.chain) /\ WellLinked(m.chain)
    /\ \A n \in Nodes : \A ch \in proved'[n] : Encloses(n, ch)
    /\ FloodBounded'

LEMMA KeptIsEnough ==
    ASSUME DiscInv, [Next]_dagVars, Kept
    PROVE  DiscInv'
<1>1. DagInv
  BY DEF DiscInv
<1>2. DagInv'
  BY <1>1, NextInv
<1>3. RequestsKnown'
  BY <1>1, EventsStable DEF Kept, RequestsKnown
<1>4. ResponsesEnclose'
  <2>1. \A m \in responses' : Encloses(m.from, m.chain)'
    BY <1>1, EncloseStable DEF Kept
  <2> QED
    BY <2>1 DEF ResponsesEnclose
<1>5. ProvedEnclose'
  <2>1. \A n \in Nodes : \A ch \in proved'[n] : Encloses(n, ch)'
    BY <1>1, EncloseStable DEF Kept
  <2> QED
    BY <2>1 DEF ProvedEnclose
<1>6. ResponsesLinked'
  <2>1. \A m \in responses' : WellLinked(m.chain)'
    BY <1>1, <1>2, LinkedStable DEF Kept
  <2> QED
    BY <2>1 DEF ResponsesLinked
<1> QED
  BY <1>2, <1>3, <1>4, <1>5, <1>6 DEF Kept, DiscInv

\* What a step leaves alone keeps what the invariant says of it.
LEMMA KeepRequests ==
    ASSUME DiscInv, requests' = requests
    PROVE  \A m \in requests' : m.event \in DOMAIN event
BY DEF DiscInv, RequestsKnown

LEMMA KeepResponses ==
    ASSUME DiscInv, responses' = responses
    PROVE  \A m \in responses' : Encloses(m.from, m.chain) /\ WellLinked(m.chain)
BY DEF DiscInv, ResponsesEnclose, ResponsesLinked

LEMMA KeepProved ==
    ASSUME DiscInv, proved' = proved
    PROVE  \A n \in Nodes : \A ch \in proved'[n] : Encloses(n, ch)
BY DEF DiscInv, ProvedEnclose

LEMMA KeepPaths ==
    ASSUME DiscInv, requests' = requests, seen' = seen
    PROVE  FloodBounded'
BY DEF DiscInv, FloodBounded

LEMMA KeptUnchanged ==
    ASSUME DiscInv, UNCHANGED discVars
    PROVE  Kept
BY Zenon 
   DEF DiscInv, Kept, DiscTypeOK, RequestsKnown, ResponsesEnclose, ResponsesLinked, ProvedEnclose,
       FloodBounded

LEMMA KeptForget ==
    ASSUME DiscInv, NEW n \in Nodes, Forget(n)
    PROVE  Kept
<1>1. DiscTypeOK /\ ProvedEnclose
  BY DEF DiscInv
<1>2. /\ seen' = [m \in Nodes |-> IF m = n THEN [x \in {} |-> 0] ELSE seen[m]]
      /\ \A m \in Nodes : proved'[m] \subseteq proved[m]
      /\ UNCHANGED <<requests, responses>>
  BY <1>1 DEF Forget, DiscTypeOK
<1>3. DiscTypeOK'
  BY <1>1, <1>2 DEF Forget, DiscTypeOK
<1>4. FloodBounded'
  BY <1>2 DEF DiscInv, FloodBounded
<1>5. \A m \in Nodes : \A ch \in proved'[m] : Encloses(m, ch)
  BY <1>1, <1>2, Zenon DEF ProvedEnclose
<1> QED
  BY <1>2, <1>3, <1>4, <1>5, KeepRequests, KeepResponses DEF Kept

LEMMA KeptDiscoverOwn ==
    ASSUME DiscInv, NEW n \in Nodes, NEW e \in DOMAIN event, DiscoverOwn(n, e)
    PROVE  Kept
<1>1. DagInv /\ e \in Hash
  BY DEF DiscInv, DagInv, Structure, TypeOK
<1>2. \A ch \in Seed(n, e) : ch \in EventChain /\ Encloses(n, ch)
  BY <1>1, SeedEncloses
<1>3. Settle(n, e, Seed(n, e)) /\ UNCHANGED <<requests, responses, seen, open>> /\ starts' = starts + 1
  BY DEF DiscoverOwn
<1>4. /\ proved' \in [Nodes -> SUBSET EventChain] /\ failed' \in [Nodes -> SUBSET Hash]
      /\ \A m \in Nodes : \A ch \in proved'[m] : Encloses(m, ch)
  BY <1>1, <1>2, <1>3, SettleFacts
<1>5. DiscTypeOK'
  BY <1>3, <1>4 DEF DiscInv, DiscTypeOK
<1> QED
  BY <1>3, <1>4, <1>5, KeepRequests, KeepResponses, KeepPaths DEF Kept

LEMMA KeptDiscoverRemote ==
    ASSUME DiscInv, NEW n \in Nodes, NEW e \in DOMAIN event, DiscoverRemote(n, e)
    PROVE  Kept
<1>1. e \in Hash
  BY DEF DiscInv, DagInv, Structure, TypeOK
<1>2. Flood(n, n, e, <<>>) /\ UNCHANGED <<responses, seen, failed, proved>>
      /\ open' = [open EXCEPT ![n] = @ \cup {e}] /\ starts' = starts + 1
  BY DEF DiscoverRemote, OpenRemote
<1>3. /\ requests' \subseteq Request
      /\ \A m \in requests' :
            /\ m.event \in DOMAIN event
            /\ \A i, j \in 1 .. Len(m.path) : m.path[i] = m.path[j] => i = j
            /\ HopLimit > 0 => Len(m.path) <= HopLimit
  <2> DEFINE none == <<>>
  <2>1. none \in Seq(Nodes) /\ Len(none) = 0
    OBVIOUS
  <2>2. Flood(n, n, e, none)
    BY <1>2
  <2> HIDE DEF none
  <2>3. /\ \A i, j \in 1 .. Len(none) : none[i] = none[j] => i = j
        /\ \A i \in 1 .. Len(none) : none[i] # n
        /\ HopLimit > 0 => Len(none) < HopLimit
    BY <2>1, DiscoveryAssumption
  <2> QED
    BY ZenonT(40), <2>1, <2>2, <2>3, FloodFacts
<1>4. DiscTypeOK'
  BY SMTT(30), <1>1, <1>2, <1>3 DEF DiscInv, DiscTypeOK
<1>5. FloodBounded'
  <2>1. ForwardCap > 0 => \A x \in Nodes : \A k \in DOMAIN seen[x] : seen[x][k] <= ForwardCap
    BY Zenon DEF DiscInv, FloodBounded
  <2> QED
    BY <1>2, <1>3, <2>1 DEF FloodBounded
<1> QED
  BY <1>2, <1>3, <1>4, <1>5, KeepResponses, KeepProved DEF Kept

LEMMA KeptReflectRequest ==
    ASSUME DiscInv, NEW n \in Nodes, NEW m \in requests, ReflectRequest(n, m)
    PROVE  Kept
<1> DEFINE chains == UNION {Extend(n, m.from, ch) : ch \in Seed(n, m.event)}
<1>1. DagInv /\ m \in Request /\ m.event \in DOMAIN event
  BY DEF DiscInv, DiscTypeOK, RequestsKnown
<1>2. m.from \in Nodes /\ m.originator \in Nodes /\ m.path \in Seq(Nodes)
  BY <1>1 DEF Request
<1>3. \A ch \in Seed(n, m.event) :
        /\ ch \in EventChain /\ Encloses(n, ch)
        /\ WellLinked(ch) /\ ch.front \in live[n] /\ ch.back \in live[n]
  BY <1>1, SeedEncloses, SeedLinked
<1>4. \A ch \in chains : ch \in EventChain /\ Encloses(n, ch) /\ WellLinked(ch)
  BY <1>1, <1>2, <1>3, ExtendEncloses, ExtendLinked
<1>5. Retrace(n, m.originator, chains, m.path)
      /\ UNCHANGED <<requests, seen, open, failed, proved, starts>>
  BY DEF ReflectRequest
<1> HIDE DEF chains
<1>6. responses' \subseteq Response /\ \A x \in responses' : Encloses(x.from, x.chain) /\ WellLinked(x.chain)
  BY <1>2, <1>4, <1>5, RetraceFacts
<1>7. DiscTypeOK'
  BY <1>5, <1>6, Zenon DEF DiscInv, DiscTypeOK
<1> QED
  BY <1>5, <1>6, <1>7, KeepRequests, KeepProved, KeepPaths, Zenon DEF Kept

LEMMA KeptForwardRequest ==
    ASSUME DiscInv, NEW n \in Nodes, NEW m \in requests, ForwardRequest(n, m)
    PROVE  Kept
<1> DEFINE k == <<m.originator, m.event>>
           f == Forwards(n, m.originator, m.event)
<1>1. m \in Request /\ m.event \in DOMAIN event
  BY DEF DiscInv, DiscTypeOK, RequestsKnown
<1>2. m.originator \in Nodes /\ m.event \in Hash /\ m.path \in Seq(Nodes)
  BY <1>1 DEF Request
<1>3. Flood(n, m.originator, m.event, m.path)
      /\ UNCHANGED <<responses, open, failed, proved, starts>>
  BY DEF ForwardRequest, AcceptRequest
<1>4. /\ requests' \subseteq Request
      /\ \A x \in requests' :
            /\ x.event \in DOMAIN event
            /\ \A i, j \in 1 .. Len(x.path) : x.path[i] = x.path[j] => i = j
            /\ HopLimit > 0 => Len(x.path) <= HopLimit
  <2>1. /\ \A i, j \in 1 .. Len(m.path) : m.path[i] = m.path[j] => i = j
        /\ \A i \in 1 .. Len(m.path) : m.path[i] # n
        /\ HopLimit > 0 => Len(m.path) < HopLimit
    BY SMTT(40) DEF DiscInv, FloodBounded, ForwardRequest, AcceptRequest
  <2> QED
    BY ZenonT(40), <1>1, <1>2, <1>3, <2>1, FloodFacts
<1>5. /\ seen' = [x \in Nodes |-> seen'[x]]
      /\ \A x \in Nodes : /\ DOMAIN seen'[x] \subseteq Nodes \X Hash
                          /\ seen'[x] \in [DOMAIN seen'[x] -> Nat]
      /\ ForwardCap > 0 => \A x \in Nodes : \A y \in DOMAIN seen'[x] : seen'[x][y] <= ForwardCap
  <2>1. /\ seen = [x \in Nodes |-> seen[x]]
        /\ \A x \in Nodes : /\ DOMAIN seen[x] \subseteq Nodes \X Hash
                            /\ seen[x] \in [DOMAIN seen[x] -> Nat]
        /\ ForwardCap > 0 => \A x \in Nodes : \A y \in DOMAIN seen[x] : seen[x][y] <= ForwardCap
    BY DEF DiscInv, DiscTypeOK, FloodBounded
  <2>2. CASE ForwardCap = 0
    BY <2>1, <2>2 DEF ForwardRequest, AcceptRequest
  <2>3. CASE ForwardCap # 0
    <3>1. ForwardCap \in Nat /\ ForwardCap > 0
      BY <2>3, DiscoveryAssumption
    <3>2. f \in Nat /\ f < ForwardCap
      BY <2>1, <3>1 DEF Forwards, ForwardRequest, AcceptRequest
    <3>3. seen' = [seen EXCEPT ![n] = With(@, k, f + 1)]
      BY <2>3 DEF ForwardRequest, AcceptRequest
    <3> HIDE DEF f
    <3>4. k \in Nodes \X Hash
      BY <1>2
    <3> HIDE DEF k
    <3>5. DOMAIN seen'[n] = DOMAIN seen[n] \cup {k}
      BY <2>1, <3>3 DEF With
    <3>6. \A y \in DOMAIN seen'[n] : seen'[n][y] = IF y = k THEN f + 1 ELSE seen[n][y]
      BY <2>1, <3>3 DEF With
    <3>7. seen'[n] \in [DOMAIN seen'[n] -> Nat]
      <4>1. seen'[n] = With(seen[n], k, f + 1)
        BY <2>1, <3>3
      <4> QED
        BY <2>1, <3>2, <4>1 DEF With
    <3>8. \A x \in Nodes \ {n} : seen'[x] = seen[x]
      BY <2>1, <3>3
    <3>9. seen' = [x \in Nodes |-> seen'[x]]
      BY <2>1, <3>3
    <3>10. \A x \in Nodes : /\ DOMAIN seen'[x] \subseteq Nodes \X Hash
                            /\ seen'[x] \in [DOMAIN seen'[x] -> Nat]
      BY <2>1, <3>4, <3>5, <3>7, <3>8
    <3>11. \A x \in Nodes : \A y \in DOMAIN seen'[x] : seen'[x][y] <= ForwardCap
      <4>1. \A y \in DOMAIN seen'[n] : seen'[n][y] <= ForwardCap
        BY <2>1, <3>1, <3>2, <3>5, <3>6
      <4> QED
        BY <2>1, <3>1, <3>8, <4>1
    <3> QED
      BY <3>9, <3>10, <3>11
  <2> QED
    BY <2>2, <2>3
<1>6. DiscTypeOK'
  BY <1>3, <1>4, <1>5 DEF DiscInv, DiscTypeOK
<1>7. FloodBounded'
  BY <1>4, <1>5 DEF FloodBounded
<1> QED
  BY <1>3, <1>4, <1>6, <1>7, KeepResponses, KeepProved DEF Kept

LEMMA KeptForwardResponse ==
    ASSUME DiscInv, NEW n \in Nodes, NEW m \in responses, ForwardResponse(n, m)
    PROVE  Kept
<1> DEFINE chains == UNION {Extend(n, m.from, ch) : ch \in Splice(n, m.chain)}
<1>1. DagInv /\ m \in Response /\ Encloses(m.from, m.chain) /\ WellLinked(m.chain)
  BY DEF DiscInv, DiscTypeOK, ResponsesEnclose, ResponsesLinked
<1>2. m.from \in Nodes /\ m.originator \in Nodes /\ m.path \in Seq(Nodes) /\ m.chain \in EventChain
  BY <1>1 DEF Response
<1>3. \A ch \in Splice(n, m.chain) :
        /\ ch \in EventChain /\ Encloses(n, ch)
        /\ WellLinked(ch) /\ ch.front \in live[n] /\ ch.back \in live[n]
  BY <1>1, <1>2, SpliceEncloses, SpliceLinked, Zenon
<1>4. \A ch \in chains : ch \in EventChain /\ Encloses(n, ch) /\ WellLinked(ch)
  BY <1>1, <1>2, <1>3, ExtendEncloses, ExtendLinked
<1>5. Retrace(n, m.originator, chains, m.path)
      /\ UNCHANGED <<requests, seen, open, failed, proved, starts>>
  BY Zenon DEF ForwardResponse
<1> HIDE DEF chains
<1>6. responses' \subseteq Response /\ \A x \in responses' : Encloses(x.from, x.chain) /\ WellLinked(x.chain)
  BY <1>2, <1>4, <1>5, RetraceFacts, Zenon
<1>7. DiscTypeOK'
  BY <1>5, <1>6, Zenon DEF DiscInv, DiscTypeOK
<1> QED
  BY <1>5, <1>6, <1>7, KeepRequests, KeepProved, KeepPaths DEF Kept

LEMMA KeptCompleteResponse ==
    ASSUME DiscInv, NEW n \in Nodes, NEW m \in responses, CompleteResponse(n, m)
    PROVE  Kept
<1> DEFINE e == m.chain.event
           built == Splice(n, m.chain)
<1>1. DagInv /\ m \in Response /\ Encloses(m.from, m.chain)
  BY DEF DiscInv, DiscTypeOK, ResponsesEnclose, ResponsesLinked
<1>2. m.from \in Nodes /\ m.chain \in EventChain /\ e \in Hash
  BY <1>1 DEF Response, EventChain
<1>3. \A ch \in built : ch \in EventChain /\ Encloses(n, ch)
  BY <1>1, <1>2, SpliceEncloses
<1>4. Settle(n, e, built) /\ UNCHANGED <<requests, responses, seen, starts>>
      /\ open' = [open EXCEPT ![n] = @ \ {e}]
  BY Zenon DEF CompleteResponse
<1> HIDE DEF e, built
<1>5. /\ proved' \in [Nodes -> SUBSET EventChain] /\ failed' \in [Nodes -> SUBSET Hash]
      /\ \A x \in Nodes : \A ch \in proved'[x] : Encloses(x, ch)
  BY <1>2, <1>3, <1>4, SettleFacts
<1>6. DiscTypeOK'
  BY ZenonT(40), <1>4, <1>5 DEF DiscInv, DiscTypeOK
<1> QED
  BY <1>4, <1>5, <1>6, KeepRequests, KeepResponses, KeepPaths DEF Kept

LEMMA KeptPurgeDiscovery ==
    ASSUME DiscInv, NEW n \in Nodes, NEW e, PurgeDiscovery(n, e)
    PROVE  Kept
<1>1. DiscTypeOK'
  BY DEF PurgeDiscovery, DiscInv, DiscTypeOK
<1>2. \A x \in Nodes : proved'[x] \subseteq proved[x]
  BY DEF PurgeDiscovery, DiscInv, DiscTypeOK
<1>3. \A x \in Nodes : \A ch \in proved'[x] : Encloses(x, ch)
  BY <1>2 DEF DiscInv, ProvedEnclose
<1>4. UNCHANGED <<requests, responses, seen>>
  BY DEF PurgeDiscovery
<1> QED
  BY <1>1, <1>3, <1>4, KeepRequests, KeepResponses, KeepPaths, Zenon DEF Kept

LEMMA KeptPurgeSeen ==
    ASSUME DiscInv, NEW n \in Nodes, NEW k, PurgeSeen(n, k)
    PROVE  Kept
<1> USE DEF PurgeSeen, DiscInv
<1>1. seen' = [m \in Nodes |-> IF m = n THEN [x \in DOMAIN seen[n] \ {k} |-> seen[n][x]] ELSE seen[m]]
  BY SMTT(40) DEF DiscTypeOK
<1>2. DiscTypeOK'
  BY SMTT(40), <1>1 DEF DiscTypeOK
<1>3. FloodBounded'
  BY <1>1 DEF FloodBounded
<1> QED
  BY <1>2, <1>3, KeepRequests, KeepResponses, KeepProved DEF Kept

LEMMA DiscInitInv == DiscInit => DiscInv
<1> SUFFICES ASSUME DiscInit PROVE DiscInv
  OBVIOUS
<1>1. DagInv
  BY InitInv DEF DiscInit
<1> QED
  BY SMTT(40), <1>1 DEF DiscInit, DiscInv, DiscTypeOK, RequestsKnown, ResponsesEnclose, ResponsesLinked, ProvedEnclose, FloodBounded

LEMMA DiscNextInv == DiscInv /\ [DiscNext]_vars => DiscInv'
<1> SUFFICES ASSUME DiscInv, [DiscNext]_vars PROVE DiscInv'
  OBVIOUS
<1>1. [Next]_dagVars
  BY DagMoves
<1>2. Kept
  <2>1. CASE DiscNext
    BY <2>1, KeptUnchanged, KeptForget, KeptDiscoverOwn, KeptDiscoverRemote, KeptReflectRequest,
       KeptForwardRequest, KeptForwardResponse, KeptCompleteResponse, KeptPurgeDiscovery,
       KeptPurgeSeen, Zenon DEF DiscNext, LocalStep
  <2>2. CASE UNCHANGED vars
    BY <2>2, KeptUnchanged
  <2> QED
    BY <2>1, <2>2, Zenon
<1> QED
  BY <1>1, <1>2, KeptIsEnough

-----------------------------------------------------------------------------
\* The inductive invariant of the DAG and the discoveries holds in every
\* reachable state of the composition.
THEOREM DiscInvariant == DiscSpec => []DiscInv
<1> QED
  BY DiscInitInv, DiscNextInv, PTL DEF DiscSpec

\* Datagrams, flood table and discovery entries are always well typed.
THEOREM DiscTypeCorrect == DiscSpec => []DiscTypeOK
<1>1. DiscInv => DiscTypeOK
  BY DEF DiscInv
<1> QED
  BY <1>1, DiscInvariant, PTL

\* complete_chain_discovery only ever completes a discovery with a chain whose two
\* ends the discovering node created before and after the event was published.
THEOREM ProvedAlwaysEnclose == DiscSpec => []ProvedEnclose
<1>1. DiscInv => ProvedEnclose
  BY DEF DiscInv
<1> QED
  BY <1>1, DiscInvariant, PTL

\* process_chain_request bounds the flood for any router.
THEOREM FloodAlwaysBounded == DiscSpec => []FloodBounded
<1>1. DiscInv => FloodBounded
  BY Zenon DEF DiscInv
<1> QED
  BY <1>1, DiscInvariant, PTL

\* Two intervals of births, the one ending before the other begins, order what they enclose.
LEMMA Between ==
    ASSUME NEW a \in Nat, NEW b \in Nat, NEW c \in Nat, NEW d \in Nat, a < b, d < c, ~(d <= b)
    PROVE  a < c
OBVIOUS

\* compare_event_chains: the order derived from two completed chains is the
\* publication order, as long as no wall clock steps back.
THEOREM OrderAlwaysSound == DiscSpec => []OrderSound
<1>1. DiscInv => OrderSound
  <2> SUFFICES ASSUME DiscInv, ~Backward, NEW n \in Nodes, NEW x \in proved[n],
                      NEW y \in proved[n], Before(x, y)
               PROVE  Born(x.event) < Born(y.event)
    BY DEF OrderSound
  <2>1. Encloses(n, x) /\ Encloses(n, y) /\ x \in EventChain /\ y \in EventChain
    BY DEF DiscInv, ProvedEnclose, DiscTypeOK
  <2>2. NodeMonotone /\ clock \in [DOMAIN clock -> ClockEvent]
    BY DEF DiscInv, DagInv, Structure, TypeOK
  <2>3. clock[x.back].ts \in Nat /\ clock[y.front].ts \in Nat
    BY <2>1, <2>2 DEF Encloses, ClockEvent
  <2>4. ~(Born(y.front) <= Born(x.back))
    BY SMTT(40), <2>1, <2>2, <2>3 DEF NodeMonotone, Encloses, Before
  <2>5. /\ Born(x.event) \in Nat /\ Born(x.back) \in Nat
        /\ Born(y.event) \in Nat /\ Born(y.front) \in Nat
    BY SMTT(40), <2>1, HashParts DEF EventChain
  <2>6. Born(x.event) < Born(x.back) /\ Born(y.front) < Born(y.event)
    BY <2>1, Zenon DEF Encloses
  <2> QED
    BY <2>4, <2>5, <2>6, Between, Zenon
<1> QED
  BY <1>1, DiscInvariant, PTL

\* A gap-free path of n that encloses its event passes n's verify_chain, as long as
\* no wall clock steps back.
LEMMA LinkedVerifies ==
    ASSUME DagInv, ~Backward, NEW n, NEW ch \in EventChain, Encloses(n, ch), WellLinked(ch)
    PROVE  VerifyChain(n, ch)
<1>1. /\ ch.front \in DOMAIN clock /\ ch.back \in DOMAIN clock
      /\ Creator(ch.front) = n /\ Creator(ch.back) = n
      /\ Born(ch.front) < Born(ch.event) /\ Born(ch.event) < Born(ch.back)
  BY DEF Encloses
<1>2. Born(ch.front) \in Nat /\ Born(ch.event) \in Nat /\ Born(ch.back) \in Nat
  BY HashParts DEF EventChain
<1>3. clock[ch.front].ts <= clock[ch.back].ts
  BY <1>1, <1>2 DEF DagInv, NodeMonotone
<1> QED
  BY <1>1, <1>3 DEF VerifyChain, WellLinked

\* verify_chain never rejects what honest nodes assemble: neither pruning nor ticks,
\* crashes or the order of datagrams leaves a gap in a seed, a splice or an extension.
THEOREM HonestChainsAlwaysVerify == DiscSpec => []HonestChainsVerify
<1>1. DiscInv => HonestChainsVerify
  <2> SUFFICES ASSUME DiscInv, ~Backward
               PROVE  /\ \A e \in DOMAIN event : \A ch \in Seed(Creator(e), e) :
                            VerifyChain(Creator(e), ch)
                      /\ \A m \in responses :
                            /\ VerifyChain(m.from, m.chain)
                            /\ \A ch \in Splice(m.to, m.chain) : VerifyChain(m.to, ch)
    BY DEF HonestChainsVerify
  <2>1. DagInv
    BY Zenon DEF DiscInv
  <2>2. ASSUME NEW e \in DOMAIN event, NEW ch \in Seed(Creator(e), e)
        PROVE  VerifyChain(Creator(e), ch)
    <3>1. Creator(e) \in Nodes
      BY <2>1, HashParts, Zenon DEF DagInv, Structure, TypeOK
    <3> QED
      BY <2>1, <3>1, SeedEncloses, SeedLinked, LinkedVerifies, Zenon
  <2>3. ASSUME NEW m \in responses
        PROVE  /\ VerifyChain(m.from, m.chain)
               /\ \A ch \in Splice(m.to, m.chain) : VerifyChain(m.to, ch)
    <3>1. m \in Response /\ Encloses(m.from, m.chain) /\ WellLinked(m.chain)
      BY DEF DiscInv, DiscTypeOK, ResponsesEnclose, ResponsesLinked
    <3>2. m.from \in Nodes /\ m.to \in Nodes /\ m.chain \in EventChain
      BY <3>1, Zenon DEF Response
    <3>3. ASSUME NEW ch \in Splice(m.to, m.chain)
          PROVE  VerifyChain(m.to, ch)
      BY <2>1, <3>1, <3>2, SpliceEncloses, SpliceLinked, LinkedVerifies
    <3> QED
      BY <2>1, <3>1, <3>2, <3>3, LinkedVerifies
  <2> QED
    BY <2>2, <2>3
<1> QED
  BY <1>1, DiscInvariant, PTL

-----------------------------------------------------------------------------
(* Routing. *)

\* A routed flood is one of the floods a free router allows.
LEMMA RoutedFloodIsFlood ==
    ASSUME NEW n, NEW o, NEW e, NEW w, NEW path, RoutedFlood(n, o, e, w, path)
    PROVE  Flood(n, o, e, path)
<1>1. PICK hops : requests' = requests \cup
            {[from |-> n, to |-> m, originator |-> o, event |-> e, path |-> Append(path, n)] :
                m \in {h \in hops \cap nbrs[n] : h # n /\ \A i \in 1 .. Len(path) : path[i] # h}}
  BY Zenon DEF RoutedFlood
<1> DEFINE sent == {h \in hops \cap nbrs[n] : h # n /\ \A i \in 1 .. Len(path) : path[i] # h}
<1>2. sent \in SUBSET {m \in nbrs[n] : \A i \in 1 .. Len(path) : path[i] # m}
  OBVIOUS
<1> QED
  BY <1>1, <1>2, Zenon DEF Flood

LEMMA RoutedKinds ==
    ASSUME RoutedNext
    PROVE  \/ \E n \in Nodes :
                 \/ LocalStep(n) /\ UNCHANGED routeVars
                 \/ \E e \in DOMAIN event, w \in Ranges : RoutedDiscover(n, e, w)
                 \/ \E m \in requests : RoutedForward(n, m)
           \/ Learn
BY ZenonT(40) DEF RoutedNext, LocalStep

\* Every step with routers is a step with the free choice, or leaves discovery alone.
LEMMA RoutedSteps == [RoutedNext]_routedVars => [DiscNext]_vars
<1> SUFFICES ASSUME [RoutedNext]_routedVars PROVE [DiscNext]_vars
  OBVIOUS
<1>1. ASSUME NEW n \in Nodes, LocalStep(n) PROVE DiscNext
  BY <1>1 DEF DiscNext
<1>2. ASSUME NEW n \in Nodes, NEW e \in DOMAIN event, NEW w \in Ranges, RoutedDiscover(n, e, w)
      PROVE  DiscNext
  <2>1. DiscoverRemote(n, e)
    BY <1>2, RoutedFloodIsFlood DEF RoutedDiscover, DiscoverRemote
  <2> QED BY <2>1, Zenon DEF DiscNext
<1>3. ASSUME NEW n \in Nodes, NEW m \in requests, RoutedForward(n, m) PROVE DiscNext
  <2>1. ForwardRequest(n, m)
    BY <1>3, RoutedFloodIsFlood DEF RoutedForward, ForwardRequest
  <2> QED BY <2>1, Zenon DEF DiscNext
<1>4. CASE Learn
  BY <1>4 DEF Learn
<1>5. CASE UNCHANGED routedVars
  BY <1>5 DEF routedVars
<1> QED BY <1>1, <1>2, <1>3, <1>4, <1>5, RoutedKinds

\* Whatever policy, tables and sample the node's constructor and its routers choose,
\* flood_chain_request stays within the free choice of ChainDiscovery.
THEOREM RoutingImplementsDiscovery == RoutedSpec => ImplementsDiscovery
<1>1. RoutedInit => DiscInit
  BY DEF RoutedInit
<1> QED BY <1>1, RoutedSteps, PTL DEF RoutedSpec, DiscSpec, ImplementsDiscovery

\* With every policy a completed discovery encloses its event (complete_chain_discovery).
THEOREM RoutedDiscoveriesEnclose == RoutedSpec => []ProvedEnclose
BY RoutingImplementsDiscovery, ProvedAlwaysEnclose, PTL DEF ImplementsDiscovery

-----------------------------------------------------------------------------
(* The flood goes along real references. *)

\* What the history router returns was really referenced in the range.
LEMMA HistoryLinked ==
    ASSUME DagInv, NEW n \in Nodes, NEW w, NEW m \in HistoryHops(n, w)
    PROVE  Referenced(n, m, w)
<1>1. PICK g \in live[n] : /\ InRange(w, clock[g].ts)
                           /\ \/ clock[g].cross[m] # NoHash
                              \/ \E p \in back : p[1] = g /\ Creator(p[2]) = m
  BY DEF HistoryHops
<1>2. g \in DOMAIN clock /\ Creator(g) = n /\ g \in Hash /\ m \in Nodes
  BY Zenon DEF DagInv, Structure, OwnStore, TypeOK, HistoryHops
<1>3. CASE clock[g].cross[m] # NoHash
  <2>1. clock[g].cross[m] \in DOMAIN clock /\ Creator(clock[g].cross[m]) = m
    BY <1>2, <1>3, Zenon DEF DagInv, Causal, ClocksCausal, IsClock
  <2>2. clock[g].cross[m] \in ClockRefs(clock[g])
    BY <1>2, <1>3, Zenon DEF ClockRefs
  <2> QED BY <1>1, <1>2, <2>1, <2>2, Zenon DEF Referenced
<1>4. ASSUME NEW p \in back, p[1] = g, Creator(p[2]) = m PROVE Referenced(n, m, w)
  <2>1. p[2] \in DOMAIN clock /\ clock[p[2]].cross[n] = g
    BY <1>2, <1>4, Zenon DEF DagInv, BackEdgesTruthful
  <2>2. g # NoHash
    BY <1>2, NoHashAssumption
  <2>3. g \in ClockRefs(clock[p[2]])
    BY <2>1, <2>2 DEF ClockRefs
  <2> QED BY <1>1, <1>2, <1>4, <2>1, <2>3, Zenon DEF Referenced
<1> QED BY <1>1, <1>3, <1>4

\* With flood every hop chosen comes from the history.
LEMMA FloodFromHistory ==
    ASSUME NEW n, NEW dest, NEW w, policy[n].routing = "flood", NEW hops \in NextHops(n, dest, w)
    PROVE  hops \subseteq HistoryHops(n, w)
<1>1. hops \in Sampled(Fanout(n), TableHops(n, dest, w))
  BY DEF NextHops
<1>2. TableHops(n, dest, w) \subseteq HistoryHops(n, w)
  BY DEF TableHops
<1>3. hops \subseteq TableHops(n, dest, w)
  BY SMTT(30), <1>1 DEF Sampled
<1> QED BY <1>2, <1>3

\* References stay.
LEMMA ReferencedStable ==
    ASSUME DagInv, [Next]_dagVars, NEW n, NEW m, NEW w, Referenced(n, m, w)
    PROVE  Referenced(n, m, w)'
<1>1. \A h \in DOMAIN clock : h \in DOMAIN clock' /\ clock'[h] = clock[h]
  BY ClockStable DEF DagInv, dagVars
<1>2. PICK x, y \in DOMAIN clock : /\ Creator(x) = n /\ Creator(y) = m
                                   /\ InRange(w, clock[x].ts)
                                   /\ y \in ClockRefs(clock[x]) \/ x \in ClockRefs(clock[y])
  BY Zenon DEF Referenced
<1>3. x \in DOMAIN clock' /\ y \in DOMAIN clock' /\ clock'[x] = clock[x] /\ clock'[y] = clock[y]
  BY <1>1, Zenon
<1> QED BY <1>2, <1>3, Zenon DEF Referenced

\* What a routed flood with the range w adds to the requests in flight.
LEMMA RoutedFloodSends ==
    ASSUME DagInv, NEW n \in Nodes, NEW o, NEW e, NEW w, NEW path, RoutedFlood(n, o, e, w, path)
    PROVE  \A m \in requests' \ requests :
              /\ m.from = n /\ m.originator = o /\ m.event = e
              /\ policy[n].routing = "flood" => Referenced(n, m.to, w)
<1>1. PICK hops \in NextHops(n, Creator(e), w) : requests' = requests \cup
            {[from |-> n, to |-> m, originator |-> o, event |-> e, path |-> Append(path, n)] :
                m \in {h \in hops \cap nbrs[n] : h # n /\ \A i \in 1 .. Len(path) : path[i] # h}}
  BY DEF RoutedFlood
<1>2. \A m \in requests' \ requests : \E h \in hops :
          m = [from |-> n, to |-> h, originator |-> o, event |-> e, path |-> Append(path, n)]
  BY <1>1, Zenon
<1>3. policy[n].routing = "flood" => \A m \in hops : Referenced(n, m, w)
  BY FloodFromHistory, HistoryLinked, Zenon
<1>4. \A m \in requests' \ requests :
          m.from = n /\ m.originator = o /\ m.event = e /\ m.to \in hops
  BY <1>2
<1> QED BY <1>3, <1>4, Zenon

LEMMA RoutedInvStep == RoutedInv /\ [RoutedNext]_routedVars => RoutedInv'
<1> SUFFICES ASSUME RoutedInv, [RoutedNext]_routedVars PROVE RoutedInv'
  OBVIOUS
<1>1. DiscInv /\ DagInv
  BY DEF RoutedInv, DiscInv
<1>2. [DiscNext]_vars
  BY RoutedSteps
<1>3. DiscInv'
  BY <1>1, <1>2, DiscNextInv
<1>4. [Next]_dagVars
  BY <1>2, DagMoves DEF vars
<1>5. \A n, m, w : Referenced(n, m, w) => Referenced(n, m, w)'
  BY <1>1, <1>4, ReferencedStable, Zenon
<1>6. ASSUME UNCHANGED <<requests, policy, window>> PROVE RoutedInv'
  BY <1>3, <1>5, <1>6 DEF RoutedInv, RequestsAsked, HopsWereLinked
<1>7. ASSUME NEW n \in Nodes, LocalStep(n), UNCHANGED routeVars PROVE RoutedInv'
  <2>1. requests' = requests
    <3>1. CASE UNCHANGED discVars \/ Forget(n)
      BY <3>1, Zenon DEF discVars, Forget
    <3>2. CASE \E e \in DOMAIN event : DiscoverOwn(n, e) \/ PurgeDiscovery(n, e)
      BY <3>2, Zenon DEF DiscoverOwn, PurgeDiscovery
    <3>3. CASE \E m \in requests : ReflectRequest(n, m)
      BY <3>3, Zenon DEF ReflectRequest
    <3>4. CASE \E m \in responses : ForwardResponse(n, m) \/ CompleteResponse(n, m)
      BY <3>4, Zenon DEF ForwardResponse, CompleteResponse
    <3>5. CASE \E k \in DOMAIN seen[n] : PurgeSeen(n, k)
      BY <3>5 DEF PurgeSeen
    <3> QED
      BY <1>7, <3>1, <3>2, <3>3, <3>4, <3>5, Zenon DEF LocalStep
  <2> QED BY <1>6, <1>7, <2>1 DEF routeVars
<1>8. ASSUME NEW n \in Nodes, NEW o, NEW e, NEW w, NEW path, RoutedFlood(n, o, e, w, path),
             <<o, e>> \in DOMAIN window', window'[<<o, e>>] = w,
             \A k \in DOMAIN window : k \in DOMAIN window' /\ window'[k] = window[k],
             policy' = policy
      PROVE  RoutedInv'
  <2>1. \A m \in requests' \ requests :
            /\ m.from = n /\ m.originator = o /\ m.event = e
            /\ policy[n].routing = "flood" => Referenced(n, m.to, w)
    BY <1>1, <1>8, RoutedFloodSends
  <2>2. RequestsAsked'
    BY <1>8, <2>1, Zenon DEF RoutedInv, RequestsAsked
  <2>3. ASSUME NEW m \in requests', policy'[m.from].routing = "flood"
        PROVE  Referenced(m.from, m.to, window'[<<m.originator, m.event>>])
    <3>1. CASE m \in requests
      BY <1>8, <2>3, <3>1, Zenon DEF RoutedInv, RequestsAsked, HopsWereLinked
    <3>2. CASE m \notin requests
      BY <1>8, <2>1, <2>3, <3>2, Zenon
    <3> QED BY <3>1, <3>2, Zenon
  <2>4. HopsWereLinked'
    BY <1>5, <2>3, Zenon DEF HopsWereLinked
  <2> QED BY <1>3, <2>2, <2>4, ZenonT(30) DEF RoutedInv
<1>9. ASSUME NEW n \in Nodes, NEW e \in DOMAIN event, NEW w \in Ranges, RoutedDiscover(n, e, w)
      PROVE  RoutedInv'
  <2>1. /\ RoutedFlood(n, n, e, w, <<>>) /\ policy' = policy
        /\ window' = With(window, <<n, e>>, w)
        /\ <<n, e>> \in DOMAIN window => w = window[<<n, e>>]
    BY <1>9, Zenon DEF RoutedDiscover
  <2>2. /\ <<n, e>> \in DOMAIN window' /\ window'[<<n, e>>] = w
        /\ \A k \in DOMAIN window : k \in DOMAIN window' /\ window'[k] = window[k]
    BY <2>1, Zenon DEF With
  <2> QED BY <1>8, <2>1, <2>2, Zenon
<1>10. ASSUME NEW n \in Nodes, NEW m \in requests, RoutedForward(n, m) PROVE RoutedInv'
  <2> DEFINE k == <<m.originator, m.event>>
  <2>1. /\ RoutedFlood(n, m.originator, m.event, window[k], m.path)
        /\ policy' = policy /\ window' = window
    BY <1>10 DEF RoutedForward, routeVars
  <2>2. k \in DOMAIN window
    BY DEF RoutedInv, RequestsAsked
  <2> QED BY <1>8, <2>1, <2>2, Zenon
<1>11. CASE Learn
  BY <1>6, <1>11 DEF Learn, vars, discVars
<1>12. CASE UNCHANGED routedVars
  BY <1>6, <1>12 DEF routedVars, routeVars, vars, discVars
<1> QED BY <1>7, <1>9, <1>10, <1>11, <1>12, RoutedKinds

\* RoutingTableRouter and its fallback: a request of the flood goes along a real reference
\* from the range asked for, for any tables, fan-outs, ranges and losses.
THEOREM HopsAlwaysLinked == RoutedSpec => []HopsWereLinked
<1>1. RoutedInit => RoutedInv
  <2> SUFFICES ASSUME RoutedInit PROVE RoutedInv
    OBVIOUS
  <2>1. DiscInv /\ requests = {}
    BY DiscInitInv DEF RoutedInit, DiscInit
  <2> QED BY <2>1 DEF RoutedInv, RequestsAsked, HopsWereLinked
<1>2. RoutedInv => HopsWereLinked
  BY DEF RoutedInv
<1> QED BY <1>1, <1>2, RoutedInvStep, PTL DEF RoutedSpec
=============================================================================
