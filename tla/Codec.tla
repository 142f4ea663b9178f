------------------------------- MODULE Codec -------------------------------
(***************************************************************************)
(* The byte formats of core/wire/codec.hpp, core/wire/packets.cpp,         *)
(* core/proof/proof.cpp and Node::snapshot.  A buffer is a sequence of     *)
(* units: a fixed-width field (u8, u32, u64, node id) is one unit, a blob  *)
(* its length and its bytes, a vector its length and its elements.  What   *)
(* the writing side emits and what the reading side consumes are           *)
(* transcribed apart, each in the order of its own code; nothing else      *)
(* makes them agree.                                                       *)
(***************************************************************************)
EXTENDS Integers, Sequences, TLC
LOCAL INSTANCE SequencesExt

\* The type of a field; the fields not listed are fixed-width.
FieldType ==
    [hash |-> "blob", data |-> "blob", sig |-> "blob", last |-> "blob", yours |-> "blob",
     pubkey |-> "blob", refs |-> "refs", back |-> "refs", wanted |-> "ref",
     event |-> "event", lower |-> "clock_events", upper |-> "clock_events",
     range |-> "range", path |-> "ids", result |-> "chain", first |-> "chain",
     second |-> "chain", order |-> "int8", events |-> "events", clocks |-> "clocks",
     tail |-> "events", neighbors |-> "neighbors", tips |-> "neighbor",
     routes |-> "routes", validity |-> "range", next_hops |-> "ids"]
TypeOfField(f) == IF f \in DOMAIN FieldType THEN FieldType[f] ELSE "num"

\* The element type of a vector.
Element ==
    [refs |-> "ref", ids |-> "num", clock_events |-> "clock_event", events |-> "event",
     clocks |-> "clock", neighbor |-> "blob", neighbors |-> "neighbor_entry",
     routes |-> "route_entry", timed |-> "timed_route"]

\* The vectors whose announced length is held against the bytes that are left, with the
\* least size of an element.
LeastSize == [refs |-> 2, ids |-> 1, clock_events |-> 6]

-----------------------------------------------------------------------------
(* The writing side. *)

WriterFields ==
    [ref         |-> <<"creator", "hash">>,
     event       |-> <<"creator", "hash", "data", "salt", "refs", "sig">>,
     clock_event |-> <<"creator", "hash", "chain", "timestamp", "salt", "refs", "sig">>,
     chain       |-> <<"event", "lower", "upper">>,
     range       |-> <<"lo", "hi">>]

PacketFields ==
    [notification |-> <<"type", "sender", "chain", "last", "yours">>,
     request      |-> <<"type", "sender", "originator", "wanted", "range", "hop_limit", "path">>,
     response     |-> <<"type", "sender", "originator", "result", "path">>]

ProofFields ==
    [bounds_proof |-> <<"magic", "version", "kind", "node", "pubkey", "first">>,
     order_proof  |-> <<"magic", "version", "kind", "node", "pubkey", "first", "second", "order">>]

\* The snapshot, and the clock event with its learned references as store and snapshot
\* lay it out.
SnapshotFields ==
    [clock          |-> WriterFields.clock_event \o <<"back">>,
     snapshot       |-> <<"version", "events", "clocks", "tail", "neighbors", "routes">>,
     neighbor_entry |-> <<"id", "tips">>,
     route_entry    |-> <<"id", "hop">>]

\* One timed route of a destination's record.
TimedRouteWritten == [timed_route |-> <<"validity", "next_hops">>]

Written == WriterFields @@ PacketFields @@ ProofFields @@ SnapshotFields @@ TimedRouteWritten

RECURSIVE Write(_, _)
Write(t, v) ==
    CASE t = "num"  -> <<v>>
      [] t = "int8" -> <<v % 256>>
      [] t = "blob" -> <<Len(v)>> \o v
      [] t \in DOMAIN Element ->
             <<Len(v)>> \o FlattenSeq([i \in DOMAIN v |-> Write(Element[t], v[i])])
      [] OTHER -> FlattenSeq([i \in DOMAIN Written[t] |->
                                 Write(TypeOfField(Written[t][i]), v[Written[t][i]])])

-----------------------------------------------------------------------------
(* The reading side. *)

ReaderFields ==
    [ref         |-> <<"creator", "hash">>,
     event       |-> <<"creator", "hash", "data", "salt", "refs", "sig">>,
     clock_event |-> <<"creator", "hash", "chain", "timestamp", "salt", "refs", "sig">>,
     chain       |-> <<"event", "lower", "upper">>,
     range       |-> <<"lo", "hi">>]

\* Faulty variant: a notification's two hashes are read in the other order.
DatagramFieldsSwapped ==
    [notification |-> <<"type", "sender", "chain", "yours", "last">>,
     request      |-> <<"type", "sender", "originator", "wanted", "range", "hop_limit", "path">>,
     response     |-> <<"type", "sender", "originator", "result", "path">>]

DatagramFields ==
    [notification |-> <<"type", "sender", "chain", "last", "yours">>,
     request      |-> <<"type", "sender", "originator", "wanted", "range", "hop_limit", "path">>,
     response     |-> <<"type", "sender", "originator", "result", "path">>]

DeserializeFields ==
    [bounds_proof |-> <<"magic", "version", "kind", "node", "pubkey", "first">>,
     order_proof  |-> <<"magic", "version", "kind", "node", "pubkey", "first", "second", "order">>]

RestoreFields ==
    [clock          |-> ReaderFields.clock_event \o <<"back">>,
     snapshot       |-> <<"version", "events", "clocks", "tail", "neighbors", "routes">>,
     neighbor_entry |-> <<"id", "tips">>,
     route_entry    |-> <<"id", "hop">>]

TimedRouteLoaded == [timed_route |-> <<"validity", "next_hops">>]

Consumed == ReaderFields @@ DatagramFields @@ DeserializeFields @@ RestoreFields @@ TimedRouteLoaded

\* Reader throws.
Truncated == [ok |-> FALSE, val |-> <<>>, pos |-> 0]
Got(v, p) == [ok |-> TRUE, val |-> v, pos |-> p]

\* The bytes from position p on.
Left(buf, p) == Len(buf) - p + 1

RECURSIVE Read(_, _, _), ReadEach(_, _, _)
Read(t, buf, p) ==
    LET n == Read("num", buf, p)
    IN  CASE t = "num"  -> IF Left(buf, p) >= 1 THEN Got(buf[p], p + 1) ELSE Truncated
          [] t = "int8" -> IF n.ok THEN Got(IF n.val >= 128 THEN n.val - 256 ELSE n.val, n.pos)
                           ELSE Truncated
          [] t = "blob" -> IF n.ok /\ n.val <= Left(buf, n.pos)
                           THEN Got(SubSeq(buf, n.pos, n.pos + n.val - 1), n.pos + n.val)
                           ELSE Truncated
          [] t \in DOMAIN Element ->
                 IF \/ ~n.ok
                    \/ t \in DOMAIN LeastSize /\ n.val > Left(buf, n.pos) \div LeastSize[t]
                 THEN Truncated
                 ELSE ReadEach([i \in 1 .. n.val |-> Element[t]], buf, n.pos)
          [] OTHER ->
                 LET fields == Consumed[t]
                     r == ReadEach([i \in DOMAIN fields |-> TypeOfField(fields[i])], buf, p)
                 IN  IF ~r.ok THEN Truncated
                     ELSE Got([f \in {fields[i] : i \in DOMAIN fields} |->
                                 r.val[CHOOSE i \in DOMAIN fields : fields[i] = f]], r.pos)

\* Values of the given types, one after the other.
ReadEach(types, buf, p) ==
    IF types = <<>> THEN Got(<<>>, p)
    ELSE LET r == Read(Head(types), buf, p)
             s == ReadEach(Tail(types), buf, r.pos)
         IN  IF r.ok /\ s.ok THEN Got(<<r.val>> \o s.val, s.pos) ELSE Truncated

-----------------------------------------------------------------------------
(* The entry points. *)

EncodeAs(t, v) == Write(t, v)
DecodeAs(t, buf) == Read(t, buf, 1).val
ReadableAs(t, buf) == Read(t, buf, 1).ok

\* wire::decode: the type byte selects the layout of the rest.
PacketType == [notification |-> 0, request |-> 1, response |-> 2]
DecodeDatagram(buf) ==
    LET kinds == {k \in DOMAIN PacketType : buf # <<>> /\ buf[1] = PacketType[k]}
    IN  IF kinds = {} THEN Truncated ELSE Read(CHOOSE k \in kinds : TRUE, buf, 1)

\* proof::deserialize: magic and version first, then the kind.
Magic == 7
ProofVersion == 1
Deserialize(buf) ==
    IF Len(buf) < 3 \/ buf[1] # Magic \/ buf[2] # ProofVersion THEN Truncated
    ELSE Read(IF buf[3] = 1 THEN "order_proof" ELSE "bounds_proof", buf, 1)

\* wire::sender_of, which the transport uses on the bare header.
SenderOf(buf) == IF Len(buf) < 2 THEN Truncated ELSE Got(buf[2], 3)
=============================================================================
