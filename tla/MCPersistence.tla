--------------------------- MODULE MCPersistence ---------------------------
(***************************************************************************)
(* The node over the LMDB store, with records in the wire format.          *)
(***************************************************************************)
EXTENDS Wire
LOCAL INSTANCE SequencesExt

CONSTANT MaxBirths

MCKeep == [c \in Chains |-> IF c = 0 THEN 1 ELSE 0]
MCPeerTips == {<<9>>}
MCPubKey == <<1>>

Own == {<<b>> : b \in 1 .. MaxBirths}
AtMostOne(n, S) == {<<>>} \cup {<<Ref(n, h)>> : h \in S}
Ascending == {SetToSortSeq(S, <) : S \in SUBSET (1 .. MaxBirths)}
PeerRefs == {Ref(p, h) : p \in Peers, h \in PeerTips}
PeerRefSeqs == {<<>>} \cup {<<r>> : r \in PeerRefs}

MCEventRecs ==
    {[creator |-> Me, hash |-> h, data |-> <<>>, salt |-> 0, refs |-> r \o q, sig |-> <<0>>] :
        h \in Own, r \in AtMostOne(Me, Own), q \in AtMostOne(Me, Own)}
MCClockRecs ==
    {[creator |-> Me, hash |-> h, chain |-> c, timestamp |-> h[1], salt |-> 0,
      refs |-> r \o q \o [i \in DOMAIN e |-> Ref(Me, <<e[i]>>)], sig |-> <<0>>, back |-> b] :
        h \in Own, c \in Chains, r \in AtMostOne(Me, Own), q \in PeerRefSeqs,
        e \in Ascending, b \in PeerRefSeqs}
MCNbrRecs == {<<>>} \cup UNION {[1 .. n -> PeerTips \cup {NoHash}] : n \in 1 .. Cardinality(Chains)}
MCValidities == {[lo |-> 0, hi |-> 5]}
TimedRoutes == UNION {[1 .. n -> [validity : Validities, next_hops : {<<p>> : p \in Peers}]] :
                         n \in 1 .. MaxTimed}
MCTables == {Nothing} \cup UNION {[S -> TimedRoutes] : S \in SUBSET Peers \ {{}}}
Profile(uses, made, unsynced, faulty) ==
    [uses |-> uses, births |-> made, advertised |-> {1}, unsynced |-> unsynced,
     faulty |-> faulty]
MCProfiles ==
    {Profile({"publish", "tick", "gc"}, MaxBirths, 2, TRUE),
     Profile({"publish", "tick", "peer", "notify"}, 2, 0, TRUE),
     Profile({"publish", "tick", "peer"}, 2, 1, TRUE),
     Profile({"tick", "peer", "notify", "restore"}, 1, 0, FALSE),
     Profile({"publish", "tick", "restore"}, 2, 1, TRUE),
     Profile({"publish", "timed"}, 2, 1, TRUE)}

\* What Writer and Reader make of the records that are stored, computed once.
Stored == [event |-> EventRecs, clock |-> ClockRecs, neighbor |-> NbrRecs, timed |-> TimedRoutes]
Bytes == [t \in DOMAIN Stored |-> [r \in Stored[t] |-> EncodeAs(t, r)]]
Records == [t \in DOMAIN Stored |->
               [b \in {Bytes[t][r] : r \in Stored[t]} |-> DecodeAs(t, b)]]
MCEncode(t, r) == IF t \in DOMAIN Bytes THEN Bytes[t][r] ELSE EncodeAs(t, r)
MCDecode(t, b) == IF t \in DOMAIN Records THEN Records[t][b] ELSE DecodeAs(t, b)
=============================================================================
