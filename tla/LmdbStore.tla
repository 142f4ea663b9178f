----------------------------- MODULE LmdbStore -----------------------------
(***************************************************************************)
(* The LMDB implementation of the Store port                               *)
(* (adapters/os/lmdb_store.cpp): sub-databases on disk, sequence counters  *)
(* and per-chain trackers in RAM that are advanced only after a commit,    *)
(* one write transaction per call, growth of the map on MDB_MAP_FULL,      *)
(* failing transactions, lazy durability, crashes, and reopening.          *)
(*                                                                         *)
(* LMDB itself is taken as documented: a transaction takes effect          *)
(* completely at its commit or not at all, and after a crash the           *)
(* environment is in the state of some commit since the last sync.  A      *)
(* transaction is single-threaded, so its result is computed when it       *)
(* commits.  The map is measured in records.                               *)
(***************************************************************************)
EXTENDS InMemoryStore

CONSTANTS
    EventRecs, ClockRecs,  \* the events and clock events that may be stored
    NbrRecs, Tables,       \* neighbour records and timed routing tables
    Ids, Chains, Keeps,    \* node identities, chain numbers, retentions
    Encode(_, _),          \* the bytes of a record of a kind, as wire::Writer makes them
    Decode(_, _),          \* what wire::Reader makes of them
    MapSize, MaxMapSize,   \* the configured map and its ceiling, 0 for none
    Slack,                 \* what a transaction may need beyond its records
    MaxFaults,             \* bound on I/O errors
    NoCall                 \* no transaction is open

Call == [name : {"append_event"}, rec : EventRecs]
          \cup [name : {"append_clock_event", "update_clock_event"}, rec : ClockRecs]
          \cup [name : {"prune_chain"}, chain : Chains, keep : Keeps]
          \cup [name : {"put_neighbor"}, id : Ids, rec : NbrRecs]
          \cup [name : {"put_route"}, id : Ids, rec : Ids]
          \cup [name : {"put_timed_routes"}, rec : Tables]
          \cup [name : {"clear"}]

\* wire::Reader inverts wire::Writer on every record that may be stored.
ASSUME CodecAssumption ==
    /\ \A r \in EventRecs : Decode("event", Encode("event", r)) = r
    /\ \A r \in ClockRecs : Decode("clock", Encode("clock", r)) = r
    /\ \A r \in NbrRecs : Decode("neighbor", Encode("neighbor", r)) = r
    /\ \A t \in Tables : [n \in DOMAIN t |-> Decode("timed", Encode("timed", t[n]))] = t
ASSUME ChainAssumption == /\ \A r \in ClockRecs : r.chain \in Chains
                          /\ Keeps \subseteq Nat
ASSUME CallAssumption == NoCall \notin Call
ASSUME MapAssumption == /\ MapSize \in Nat \ {0} /\ MaxMapSize \in Nat
                        /\ Slack \in Nat /\ MaxFaults \in Nat

VARIABLES
    lazy,    \* sync_policy_ == SyncPolicy::lazy
    up,      \* the environment is open
    disk,    \* the sub-databases as of the last commit
    kept,    \* what they may be after a crash
    ram,     \* next_event_seq_, next_clock_seq_, chain_tip_seq_, chain_seqs_
    map,     \* map_size_
    leaked,  \* a write transaction was left open
    call,    \* the call being served
    ret,     \* how the last call ended
    faults   \* I/O errors so far

lmdbVars == <<lazy, up, disk, kept, ram, map, leaked, call, ret, faults>>

-----------------------------------------------------------------------------
(* What opening derives from the disk. *)

\* One past the highest key.
NextSeq(f) == IF DOMAIN f = {} THEN 0
              ELSE 1 + CHOOSE m \in DOMAIN f : \A s \in DOMAIN f : s <= m

ClockAt(d, s) == Decode("clock", d.clock_events[s])
RingOf(d, c) == {s \in DOMAIN d.clock_events : ClockAt(d, s).chain = c}
ChainsOf(d) == {ClockAt(d, s).chain : s \in DOMAIN d.clock_events}

LoadNeighbors(d) == [n \in DOMAIN d.neighbors |-> Decode("neighbor", d.neighbors[n])]
LoadTimedRoutes(d) == [n \in DOMAIN d.timed_routes |-> Decode("timed", d.timed_routes[n])]

\* The next sequence numbers and, per chain, the newest and all live ones.
Seed(d) ==
    [next_event |-> NextSeq(d.events),
     next_clock |-> NextSeq(d.clock_events),
     tip |-> [c \in ChainsOf(d) |-> CHOOSE m \in RingOf(d, c) : \A s \in RingOf(d, c) : s <= m],
     ring |-> [c \in ChainsOf(d) |-> RingOf(d, c)]]

EmptyDisk == [events |-> Nothing, event_index |-> Nothing, clock_events |-> Nothing,
              clock_index |-> Nothing, referencing |-> {}, neighbors |-> Nothing,
              routes |-> Nothing, timed_routes |-> Nothing]
EmptyRam == [next_event |-> 0, next_clock |-> 0, tip |-> Nothing, ring |-> Nothing]

-----------------------------------------------------------------------------
(* Batch: a transaction's view of the disk, its sequence numbers and the     *)
(* chain appends to apply once it has committed.                             *)

NewBatch == [db |-> disk, event_seq |-> ram.next_event, clock_seq |-> ram.next_clock,
             appends |-> Nothing]

BatchAppendEvent(b, e) ==
    [db |-> [b.db EXCEPT !.events = Put(@, b.event_seq, Encode("event", e)),
                         !.event_index = Put(@, e.hash, b.event_seq)],
     event_seq |-> b.event_seq + 1, clock_seq |-> b.clock_seq, appends |-> b.appends]

BatchAppendClockEvent(b, c) ==
    [db |-> [b.db EXCEPT !.clock_events = Put(@, b.clock_seq, Encode("clock", c)),
                         !.clock_index = Put(@, c.hash, b.clock_seq),
                         !.referencing = @ \cup (Refs(c) \X {b.clock_seq})],
     event_seq |-> b.event_seq, clock_seq |-> b.clock_seq + 1,
     appends |-> Put(b.appends, c.chain, b.clock_seq)]

BatchUpdateClockEvent(b, c) ==
    [b EXCEPT !.db = [b.db EXCEPT !.clock_events =
                          Put(@, b.db.clock_index[c.hash], Encode("clock", c))]]

\* Faulty variant: the reverse edges of the deleted entries stay.
DeletedKeepingEdges(d, old) ==
    LET gone == old \cap DOMAIN d.clock_events
    IN  [d EXCEPT !.clock_index = Without(@, {ClockAt(d, s).hash : s \in gone}),
                  !.clock_events = Without(@, gone)]

\* Deleting the oldest entries of a ring with their index entries.
Deleted(d, old) ==
    LET gone == old \cap DOMAIN d.clock_events
    IN  [d EXCEPT
           !.referencing = {p \in @ : ~(p[2] \in gone /\ p[1] \in Refs(ClockAt(d, p[2])))},
           !.clock_index = Without(@, {ClockAt(d, s).hash : s \in gone}),
           !.clock_events = Without(@, gone)]

\* The batch a call has staged when it is about to commit.
Staged(o) ==
    LET b == NewBatch
    IN  CASE o.name = "append_event"       -> BatchAppendEvent(b, o.rec)
          [] o.name = "append_clock_event" -> BatchAppendClockEvent(b, o.rec)
          [] o.name = "update_clock_event" -> BatchUpdateClockEvent(b, o.rec)
          [] o.name = "prune_chain"        ->
                 [b EXCEPT !.db = Deleted(disk, Oldest(ram.ring[o.chain], o.keep))]
          [] o.name = "put_neighbor"       ->
                 [b EXCEPT !.db = [disk EXCEPT !.neighbors = Put(@, o.id, Encode("neighbor", o.rec))]]
          [] o.name = "put_route"          -> [b EXCEPT !.db = [disk EXCEPT !.routes = Put(@, o.id, o.rec)]]
          [] o.name = "put_timed_routes"   ->
                 [b EXCEPT !.db = [disk EXCEPT !.timed_routes =
                                      [n \in DOMAIN o.rec |-> Encode("timed", o.rec[n])]]]
          [] o.name = "clear"              -> [b EXCEPT !.db = EmptyDisk]

\* Faulty variant: prune_chain does not trim its ring.
AdvancedUntrimmed(o, b) ==
    CASE o.name = "clear"       -> EmptyRam
      [] o.name = "prune_chain" -> ram
      [] OTHER ->
             [next_event |-> b.event_seq,
              next_clock |-> b.clock_seq,
              tip |-> [c \in DOMAIN ram.tip \cup DOMAIN b.appends |->
                          IF c \in DOMAIN b.appends THEN b.appends[c] ELSE ram.tip[c]],
              ring |-> [c \in DOMAIN ram.ring \cup DOMAIN b.appends |->
                          (IF c \in DOMAIN ram.ring THEN ram.ring[c] ELSE {})
                            \cup (IF c \in DOMAIN b.appends THEN {b.appends[c]} ELSE {})]]

\* The RAM state once it has committed.
Advanced(o, b) ==
    CASE o.name = "clear"       -> EmptyRam
      [] o.name = "prune_chain" ->
             [ram EXCEPT !.ring = Put(@, o.chain,
                            ram.ring[o.chain] \ Oldest(ram.ring[o.chain], o.keep))]
      [] OTHER ->
             [next_event |-> b.event_seq,
              next_clock |-> b.clock_seq,
              tip |-> [c \in DOMAIN ram.tip \cup DOMAIN b.appends |->
                          IF c \in DOMAIN b.appends THEN b.appends[c] ELSE ram.tip[c]],
              ring |-> [c \in DOMAIN ram.ring \cup DOMAIN b.appends |->
                          (IF c \in DOMAIN ram.ring THEN ram.ring[c] ELSE {})
                            \cup (IF c \in DOMAIN b.appends THEN {b.appends[c]} ELSE {})]]

-----------------------------------------------------------------------------
(* The space a transaction needs. *)

Size(d) == Cardinality(DOMAIN d.events) + Cardinality(DOMAIN d.clock_events)

\* LMDB never maps less than the environment already uses.
Room == IF map > Size(disk) THEN map ELSE Size(disk)

\* Calls that retry through durable(); the others have a transaction of their own.
Durable(o) == o.name \in {"append_event", "append_clock_event", "update_clock_event",
                          "put_neighbor", "put_route"}

AtCeiling == MaxMapSize # 0 /\ map >= MaxMapSize

\* prune_chain returns before it opens a transaction.
NothingToPrune(o) == /\ o.name = "prune_chain"
                     /\ \/ o.chain \notin DOMAIN ram.ring
                        \/ o.keep = 0
                        \/ /\ o.chain \in DOMAIN ram.ring
                           /\ Cardinality(ram.ring[o.chain]) <= o.keep

\* An update of a clock event that is not stored throws.
Unknown(o) == o.name = "update_clock_event" /\ o.rec.hash \notin DOMAIN disk.clock_index

\* What the Node never asks for: a second object with the same hash, or an update of
\* anything but the learned back references.
Legal(o) ==
    CASE o.name = "append_event" -> o.rec.hash \notin DOMAIN disk.event_index
      [] o.name = "append_clock_event" -> o.rec.hash \notin DOMAIN disk.clock_index
      [] o.name = "update_clock_event" /\ ~Unknown(o) ->
             LET old == ClockAt(disk, disk.clock_index[o.rec.hash])
             IN  old.chain = o.rec.chain /\ old.refs = o.rec.refs
      [] OTHER -> TRUE

-----------------------------------------------------------------------------
(* The store. *)

\* A new file that is not open yet.
LmdbInit ==
    /\ lazy \in BOOLEAN
    /\ up = FALSE
    /\ disk = EmptyDisk
    /\ kept = {EmptyDisk}
    /\ ram = EmptyRam
    /\ map = MapSize
    /\ leaked = FALSE
    /\ call = NoCall
    /\ ret = "none"
    /\ faults = 0

\* Opening reads the counters and builds the per-chain trackers.
Open ==
    /\ ~up
    /\ up' = TRUE
    /\ ram' = Seed(disk)
    /\ map' = MapSize
    /\ UNCHANGED <<lazy, disk, kept, leaked, call, ret, faults>>

\* A call begins; if a transaction was leaked it waits for it forever.
Invoke(o) ==
    /\ up
    /\ call = NoCall
    /\ call' = o
    /\ ret' = "none"
    /\ UNCHANGED <<lazy, up, disk, kept, ram, map, leaked, faults>>

\* Faulty variant: no commit waits for the disk, whatever the policy.
CommitUnsynced ==
    /\ call # NoCall
    /\ ~NothingToPrune(call) /\ ~Unknown(call) /\ ~leaked
    /\ LET b == Staged(call)
       IN  /\ Size(b.db) <= Room
           /\ disk' = b.db
           /\ kept' = kept \cup {b.db}
           /\ ram' = Advanced(call, b)
    /\ call' = NoCall
    /\ ret' = "ok"
    /\ UNCHANGED <<lazy, up, map, leaked, faults>>

\* The call's transaction commits, and only then RAM follows.
Commit ==
    /\ call # NoCall
    /\ ~NothingToPrune(call) /\ ~Unknown(call) /\ ~leaked
    /\ LET b == Staged(call)
       IN  /\ Size(b.db) <= Room
           /\ disk' = b.db
           /\ kept' = IF lazy THEN kept \cup {b.db} ELSE {b.db}
           /\ ram' = Advanced(call, b)
    /\ call' = NoCall
    /\ ret' = "ok"
    /\ UNCHANGED <<lazy, up, map, leaked, faults>>

ReturnEarly ==
    /\ call # NoCall
    /\ NothingToPrune(call)
    /\ call' = NoCall
    /\ ret' = "ok"
    /\ UNCHANGED <<lazy, up, disk, kept, ram, map, leaked, faults>>

\* MDB_MAP_FULL may come as soon as the map could be too small.
MapFull ==
    /\ call # NoCall
    /\ ~NothingToPrune(call) /\ ~Unknown(call) /\ ~leaked
    /\ Size(Staged(call).db) + Slack > Room

\* Faulty variant: durable() tries again in the same map.
RetryInSameMap ==
    /\ MapFull
    /\ Durable(call)
    /\ ~AtCeiling
    /\ UNCHANGED lmdbVars

\* grow_map: twice the size, up to the ceiling.
Grown == IF MaxMapSize # 0 /\ 2 * map > MaxMapSize THEN MaxMapSize ELSE 2 * map

\* durable() aborts the transaction, grows the map and tries again.
GrowMap ==
    /\ MapFull
    /\ Durable(call)
    /\ ~AtCeiling
    /\ map' = Grown
    /\ UNCHANGED <<lazy, up, disk, kept, ram, leaked, call, ret, faults>>

\* put_timed_routes leaves its transaction open when one of its puts throws.
Throws(o) ==
    /\ call' = NoCall
    /\ ret' = "threw"
    /\ leaked' \in (IF o.name = "put_timed_routes" THEN BOOLEAN ELSE {leaked})
    /\ UNCHANGED <<lazy, up, disk, kept, ram>>

\* The map is full and the call cannot or must not grow it, or the record is unknown.
Rejected ==
    /\ call # NoCall
    /\ ~leaked
    /\ \/ MapFull /\ (Durable(call) => AtCeiling)
       \/ Unknown(call)
    /\ Throws(call)
    /\ UNCHANGED <<map, faults>>

\* Any step of the transaction fails, or growing the map does; map_size_ is then already
\* the larger one.
IoError ==
    /\ call # NoCall
    /\ ~NothingToPrune(call) /\ ~leaked
    /\ faults < MaxFaults
    /\ faults' = faults + 1
    /\ Throws(call)
    /\ \/ UNCHANGED map
       \/ MapFull /\ Durable(call) /\ ~AtCeiling /\ map' = Grown

Sync ==
    /\ up
    /\ call = NoCall
    /\ kept' = {disk}
    /\ UNCHANGED <<lazy, up, disk, ram, map, leaked, call, ret, faults>>

\* The flush fails, and sync throws.
SyncFails ==
    /\ up
    /\ call = NoCall
    /\ faults < MaxFaults
    /\ faults' = faults + 1
    /\ UNCHANGED <<lazy, up, disk, kept, ram, map, leaked, call, ret>>

\* The process ends; the environment is then d, and after a later crash one of k.
Down(d, k) ==
    /\ up' = FALSE
    /\ disk' = d
    /\ kept' = k
    /\ ram' = EmptyRam
    /\ map' = MapSize
    /\ leaked' = FALSE
    /\ call' = NoCall
    /\ ret' = "none"
    /\ UNCHANGED lazy

\* The machine crashes at any moment, a call in progress included.
PowerFailure == up /\ (\E d \in kept : Down(d, {d})) /\ UNCHANGED faults

\* Only the process ends: what it committed is with the operating system.
Killed == up /\ Down(disk, kept) /\ UNCHANGED faults

\* When the commit of prune_chain fails, LMDB has freed the transaction that the
\* handler then aborts: the process may not survive it.
PruneDies ==
    /\ call # NoCall
    /\ call.name = "prune_chain" /\ ~NothingToPrune(call) /\ ~leaked
    /\ faults < MaxFaults
    /\ faults' = faults + 1
    /\ Down(disk, kept)

StoreStep == Open \/ Commit \/ ReturnEarly \/ GrowMap \/ Rejected \/ IoError \/ Sync
                \/ SyncFails \/ PowerFailure \/ Killed \/ PruneDies

\* Any client that makes legal calls.
LmdbNext == (\E o \in Call : Legal(o) /\ Invoke(o)) \/ StoreStep

LmdbSpec == LmdbInit /\ [][LmdbNext]_lmdbVars

-----------------------------------------------------------------------------
(* Correctness. *)

EventAt(d, s) == Decode("event", d.events[s])

\* The indexes name exactly the stored records, the reverse index names exactly what
\* the live clock events reference, and events are numbered without gaps.
Consistent(d) ==
    /\ DOMAIN d.events = 0 .. NextSeq(d.events) - 1
    /\ \A s \in DOMAIN d.events : /\ EventAt(d, s).hash \in DOMAIN d.event_index
                                  /\ d.event_index[EventAt(d, s).hash] = s
    /\ \A h \in DOMAIN d.event_index : /\ d.event_index[h] \in DOMAIN d.events
                                       /\ EventAt(d, d.event_index[h]).hash = h
    /\ \A s \in DOMAIN d.clock_events : /\ ClockAt(d, s).hash \in DOMAIN d.clock_index
                                        /\ d.clock_index[ClockAt(d, s).hash] = s
    /\ \A h \in DOMAIN d.clock_index : /\ d.clock_index[h] \in DOMAIN d.clock_events
                                       /\ ClockAt(d, d.clock_index[h]).hash = h
    /\ \A s \in DOMAIN d.clock_events : Refs(ClockAt(d, s)) \X {s} \subseteq d.referencing
    /\ \A p \in d.referencing : /\ p[2] \in DOMAIN d.clock_events
                                /\ p[1] \in Refs(ClockAt(d, p[2]))

\* Whatever a crash brings back, no read meets a sequence number without a record, a hash
\* that leads to another record or a reverse edge of a pruned clock event: each call is one
\* transaction over the logs and all their indexes.
ReadsResolve == \A d \in kept : Consistent(d)

\* The counters and trackers in RAM are at every moment what reopening the environment
\* would derive, although they are advanced after the commit and a failed call may come
\* between: no sequence number is given out twice, and none is left out of a ring.
RamRecoverable == up => ram = Seed(disk)

\* The store as the in-memory store would hold it.
Image(d, r) ==
    [events |-> [s \in DOMAIN d.events |-> EventAt(d, s)],
     event_seq |-> d.event_index,
     clocks |-> [s \in DOMAIN d.clock_events |-> ClockAt(d, s)],
     clock_seq |-> d.clock_index,
     next_clock |-> r.next_clock,
     referencing |-> d.referencing,
     tip |-> r.tip,
     ring |-> r.ring,
     neighbors |-> LoadNeighbors(d),
     routes |-> d.routes,
     timed |-> LoadTimedRoutes(d)]

Abs == INSTANCE Store WITH
           Calls <- Call,
           mem <- Image(disk, IF up THEN ram ELSE Seed(disk)),
           past <- {Image(d, Seed(d)) : d \in kept}

\* Every behaviour of the LMDB store is one the port promises, with the in-memory store
\* as the meaning of a call: the indexes, counters and rings agree field by field.
ImplementsPort == Abs!StoreSpec
=============================================================================
