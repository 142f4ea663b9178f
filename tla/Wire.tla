-------------------------------- MODULE Wire --------------------------------
(***************************************************************************)
(* What a node sends about its stored records: the datagrams of            *)
(* core/wire/packets.cpp and the portable proofs of core/proof/proof.cpp,  *)
(* through the codec.                                                      *)
(***************************************************************************)
EXTENDS Persistence, Codec
LOCAL INSTANCE SequencesExt

CONSTANT PubKey  \* the public key whose fingerprint is Me

\* A LocalClockEvent without what only its store knows.
Plain(c) == [f \in DOMAIN c \ {"back"} |-> c[f]]

StoredEvents == InOrder([s \in DOMAIN disk.events |-> EventAt(disk, s)])
StoredClocks == InOrder([s \in DOMAIN disk.clock_events |-> Plain(ClockAt(disk, s))])

\* The stored part of an event's bounds.
StoredChain(e) ==
    [event |-> e,
     lower |-> SelectSeq(StoredClocks, LAMBDA c : c.hash \in Refs(e)),
     upper |-> SelectSeq(StoredClocks, LAMBDA c : e.hash \in Refs(c))]

Notifications ==
    {[type |-> PacketType.notification, sender |-> Me, chain |-> c.chain, last |-> c.hash,
      yours |-> y] : c \in ToSet(StoredClocks), y \in PeerTips \cup {NoHash}}

Requests ==
    {[type |-> PacketType.request, sender |-> Me, originator |-> Me,
      wanted |-> Ref(e.creator, e.hash), range |-> [lo |-> 0, hi |-> e.hash[1]],
      hop_limit |-> 2, path |-> p] : e \in ToSet(StoredEvents), p \in {<<>>, <<Me>>}}

Responses ==
    {[type |-> PacketType.response, sender |-> Me, originator |-> p,
      result |-> StoredChain(e), path |-> <<p>>] : e \in ToSet(StoredEvents), p \in Peers}

Datagrams == [notification |-> Notifications, request |-> Requests, response |-> Responses]

Bounded == {c \in {StoredChain(e) : e \in ToSet(StoredEvents)} : c.lower # <<>> /\ c.upper # <<>>}

ProofHead(kind, c) == [magic |-> Magic, version |-> ProofVersion, kind |-> kind,
                       node |-> Me, pubkey |-> PubKey, first |-> c]
Proofs ==
    [bounds_proof |-> {ProofHead(0, c) : c \in Bounded},
     order_proof |-> {ProofHead(1, a) @@ [second |-> b, order |-> o] :
                        a \in Bounded, b \in Bounded, o \in {-1, 0, 1}}]

\* The reader gives back m, having used every byte, and refuses every shorter buffer.
Survives(kind, m, Reads(_)) ==
    LET b == EncodeAs(kind, m)
    IN  /\ Reads(b) = Got(m, Len(b) + 1)
        /\ \A n \in 0 .. Len(b) - 1 : ~Reads(SubSeq(b, 1, n)).ok

\* When a node announces a clock event, every datagram and every proof it can make of its
\* stored records is read back by the other side as exactly the record that was sent, a
\* truncated one is refused, and the header names the sender.  Writer and Reader list the
\* fields separately, and an order travels as a signed byte.
WireFaithful ==
    (job.kind = "tick" /\ job.todo[1].name = "append_clock_event" /\ ret = "ok")
        => /\ \A k \in DOMAIN Datagrams : \A m \in Datagrams[k] :
                 Survives(k, m, DecodeDatagram) /\ SenderOf(EncodeAs(k, m)).val = Me
           /\ \A k \in DOMAIN Proofs : \A m \in Proofs[k] : Survives(k, m, Deserialize)
=============================================================================
