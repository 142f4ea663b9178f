---------------------------- MODULE Persistence ----------------------------
(***************************************************************************)
(* A Node over the LMDB store: every handler of core/node.cpp that writes, *)
(* as the sequence of store calls it makes with the changes to its own RAM *)
(* in between, and construction, backup and restore.  The daemon is        *)
(* single-threaded, so one handler is in progress at a time; an exception  *)
(* out of a store call abandons it where it stands, and the process or the *)
(* machine may fail at any step.                                           *)
(***************************************************************************)
EXTENDS LmdbStore
LOCAL INSTANCE SequencesExt

CONSTANTS
    Me, Peers,        \* this node and the nodes it may be linked to
    Keep,             \* retention per chain, 0 to keep everything
    PeerTips,         \* the hashes a peer may advertise
    Profiles,         \* bounds of a behaviour: the handlers that run, how many hashes they
                      \* make, the chains peers advertise, whether I/O fails, and how many
                      \* states a crash may bring back when a handler begins
    Validities,       \* the time ranges a route may be valid in
    MaxTimed,         \* bound on the timed routes to a destination
    SnapshotVersion,
    Readable(_, _)    \* wire::Reader does not throw

ASSUME NodeAssumption == /\ Me \notin Peers /\ DOMAIN Keep = Chains /\ MaxTimed \in Nat
                         /\ \A p \in Profiles : p.births \in Nat /\ p.unsynced \in Nat

VARIABLES
    profile,    \* the bounds of this behaviour
    job,        \* the handler in progress and its calls, the current one first
    nbrs,       \* neighbors_
    routes,     \* destination_to_next_hop_
    timed,      \* timed_routes_
    tails,      \* unreferenced_per_chain_
    births,     \* how many hashes were ever made
    announced,  \* per chain the last clock event neighbours were told of
    file,       \* the backup file, <<>> if there is none
    settled,    \* the operating system has written it out
    saved,      \* what the node held when it was made, and whether that was torn
    unstored,   \* entries of the working set that changed and could then not be stored
    torn,       \* a restore failed midway and the node went on
    flushing    \* the sync timer is armed

nodeVars == <<profile, job, nbrs, routes, timed, tails, births, announced, file, settled, saved,
              unstored, torn, flushing>>
vars == <<lmdbVars, nodeVars>>

Idle == [kind |-> "idle", todo |-> <<>>]
NoHash == <<>>

-----------------------------------------------------------------------------
(* The records a node makes. *)

Ref(n, h) == [creator |-> n, hash |-> h]
ChainSeq == SetToSortSeq(Chains, <)

\* store_.latest_clock_event(chain), as a reference.
TipRef(c) == IF c \in DOMAIN ram.tip THEN <<Ref(Me, ClockAt(disk, ram.tip[c]).hash)>> ELSE <<>>

\* insert_event: an anchor on the tip of every chain.
NewEvent == [creator |-> Me, hash |-> <<births + 1>>, data |-> <<>>, salt |-> 0,
             refs |-> FlattenSeq([i \in DOMAIN ChainSeq |-> TipRef(ChainSeq[i])]),
             sig |-> <<0>>]

\* The tip neighbour n advertised on chain c.
PeerTipRef(n, c) == IF c < Len(nbrs[n]) /\ nbrs[n][c + 1] # NoHash
                    THEN <<Ref(n, nbrs[n][c + 1])>> ELSE <<>>

\* insert_clock_event: the predecessor, the neighbours' tips and the unreferenced events.
NewClockEvent(c) ==
    LET ns == SetToSeq(DOMAIN nbrs)
    IN  [creator |-> Me, hash |-> <<births + 1>>, chain |-> c, timestamp |-> births + 1,
         salt |-> 0,
         refs |-> TipRef(c) \o FlattenSeq([i \in DOMAIN ns |-> PeerTipRef(ns[i], c)])
                    \o [i \in DOMAIN tails[c] |-> Ref(Me, tails[c][i].hash)],
         sig |-> <<0>>, back |-> <<>>]

PruneCalls(cs) == [i \in DOMAIN SelectSeq(cs, LAMBDA c : Keep[c] > 0) |->
                      LET c == SelectSeq(cs, LAMBDA x : Keep[x] > 0)[i]
                      IN  [name |-> "prune_chain", chain |-> c, keep |-> Keep[c]]]

-----------------------------------------------------------------------------
(* hydrate_working_state, from a disk. *)

PinnedBy(d, h, c) == \E s \in DOMAIN d.clock_events :
                        <<h, s>> \in d.referencing /\ ClockAt(d, s).chain = c

\* The events after the last one that chain c has referenced.
TailOf(d, c) ==
    LET n == NextSeq(d.events)
        AllOpen(k) == \A j \in k .. n - 1 : ~PinnedBy(d, EventAt(d, j).hash, c)
        from == CHOOSE k \in 0 .. n : AllOpen(k) /\ (k = 0 \/ ~AllOpen(k - 1))
    IN  [i \in 1 .. n - from |-> EventAt(d, from + i - 1)]

Hydrate ==
    /\ nbrs' = LoadNeighbors(disk')
    /\ routes' = disk'.routes
    /\ timed' = LoadTimedRoutes(disk')
    /\ tails' = [c \in Chains |-> TailOf(disk', c)]
    /\ unstored' = {}

-----------------------------------------------------------------------------
(* Handlers. *)

\* A handler makes the first of its calls.
Begin(kind, todo) ==
    /\ job = Idle
    /\ kind \in profile.uses
    /\ lazy => Cardinality(kept) <= profile.unsynced
    /\ todo # <<>>
    /\ Invoke(todo[1])
    /\ job' = [kind |-> kind, todo |-> todo]
    /\ UNCHANGED <<profile, file, settled, saved, unstored, torn, flushing>>

Publish ==
    /\ births < profile.births
    /\ births' = births + 1
    /\ Begin("publish", <<[name |-> "append_event", rec |-> NewEvent]>>)
    /\ UNCHANGED <<nbrs, routes, timed, tails, announced>>

\* Faulty variants: the notification goes out, or the tail is cleared, before the append.
AnnounceFirst(c) ==
    /\ births < profile.births
    /\ births' = births + 1
    /\ Begin("tick", <<[name |-> "append_clock_event", rec |-> NewClockEvent(c)]>>
                        \o PruneCalls(<<c>>))
    /\ announced' = [announced EXCEPT ![c] = <<births + 1>>]
    /\ UNCHANGED <<nbrs, routes, timed, tails>>

ClearFirst(c) ==
    /\ births < profile.births
    /\ births' = births + 1
    /\ Begin("tick", <<[name |-> "append_clock_event", rec |-> NewClockEvent(c)]>>
                        \o PruneCalls(<<c>>))
    /\ tails' = [tails EXCEPT ![c] = <<>>]
    /\ UNCHANGED <<nbrs, routes, timed, announced>>

CreateClockEvent(c) ==
    /\ births < profile.births
    /\ births' = births + 1
    /\ Begin("tick", <<[name |-> "append_clock_event", rec |-> NewClockEvent(c)]>>
                        \o PruneCalls(<<c>>))
    /\ UNCHANGED <<nbrs, routes, timed, tails, announced>>

Gc ==
    /\ Begin("gc", PruneCalls(ChainSeq))
    /\ UNCHANGED <<nbrs, routes, timed, tails, births, announced>>

\* add_neighbor and then learn_route; each changes RAM before it calls the store.
AddPeer(p) ==
    LET route == [name |-> "put_route", id |-> p, rec |-> p]
    IN  /\ nbrs' = Emplace(nbrs, p, <<>>)
        /\ IF p \in DOMAIN nbrs
           THEN Begin("peer", <<route>>) /\ routes' = Put(routes, p, p)
           ELSE /\ Begin("peer", <<[name |-> "put_neighbor", id |-> p, rec |-> <<>>], route>>)
                /\ UNCHANGED routes
        /\ UNCHANGED <<timed, tails, births, announced>>

\* The whole table is stored again for every route that is added.
LearnRouteAt(d, hop, validity) ==
    LET known == IF d \in DOMAIN timed THEN timed[d] ELSE <<>>
    IN  /\ Len(known) < MaxTimed
        /\ timed' = Put(timed, d, Append(known, [validity |-> validity, next_hops |-> <<hop>>]))
        /\ Begin("timed", <<[name |-> "put_timed_routes", rec |-> timed']>>)
        /\ UNCHANGED <<nbrs, routes, tails, births, announced>>

\* Faulty variants: the vector of tips is not resized, or a new tip is not stored.
NotifiedUnresized(p, c, h, y) ==
    LET tips == Put(nbrs[p], c + 1, h)
    IN  /\ p \in DOMAIN nbrs
        /\ nbrs' = [nbrs EXCEPT ![p] = tips]
        /\ Begin("notify", IF tips = nbrs[p] THEN <<>>
                           ELSE <<[name |-> "put_route", id |-> p, rec |-> p]>>)
        /\ UNCHANGED <<routes, timed, tails, births, announced>>

NotifiedUnstored(p, c, h, y) ==
    LET edge  == Ref(p, h)
        local == ClockAt(disk, disk.clock_index[y])
        link  == IF y \notin DOMAIN disk.clock_index \/ edge \in ToSet(local.back) THEN <<>>
                 ELSE <<[name |-> "update_clock_event",
                         rec |-> [local EXCEPT !.back = Append(@, edge)]]>>
    IN  /\ p \in DOMAIN nbrs
        /\ nbrs' = [nbrs EXCEPT ![p] =
                       [i \in 1 .. (IF Len(@) <= c THEN c + 1 ELSE Len(@)) |->
                          IF i = c + 1 THEN h ELSE IF i <= Len(@) THEN @[i] ELSE NoHash]]
        /\ Begin("notify", link)
        /\ UNCHANGED <<routes, timed, tails, births, announced>>

\* process_clock_event_notification: neighbour p's tip of chain c is h, and it names y
\* as this node's.
Notified(p, c, h, y) ==
    LET old   == nbrs[p]
        tips  == [i \in 1 .. (IF Len(old) <= c THEN c + 1 ELSE Len(old)) |->
                     IF i = c + 1 THEN h ELSE IF i <= Len(old) THEN old[i] ELSE NoHash]
        store == IF c < Len(old) /\ old[c + 1] = h THEN <<>>
                 ELSE <<[name |-> "put_neighbor", id |-> p, rec |-> tips]>>
        edge  == Ref(p, h)
        local == ClockAt(disk, disk.clock_index[y])
        link  == IF y \notin DOMAIN disk.clock_index \/ edge \in ToSet(local.back) THEN <<>>
                 ELSE <<[name |-> "update_clock_event",
                         rec |-> [local EXCEPT !.back = Append(@, edge)]]>>
    IN  /\ p \in DOMAIN nbrs
        /\ nbrs' = [nbrs EXCEPT ![p] = tips]
        /\ Begin("notify", store \o link)
        /\ UNCHANGED <<routes, timed, tails, births, announced>>

\* The entries of the working set a call stores.
Stores(o) ==
    CASE o.name = "put_neighbor"     -> {<<"neighbor", o.id>>}
      [] o.name = "put_route"        -> {<<"route", o.id>>}
      [] o.name = "put_timed_routes" -> {"timed"} \X Ids
      [] OTHER -> {}

\* The call returned: the handler changes RAM and makes its next call, if it has one.
Proceed ==
    /\ job # Idle
    /\ call = NoCall
    /\ ret = "ok"
    /\ LET o    == job.todo[1]
           rest == Tail(job.todo)
       IN  /\ announced' = IF /\ job.kind = "tick" /\ o.name = "append_clock_event"
                              /\ DOMAIN nbrs # {}
                           THEN [announced EXCEPT ![o.rec.chain] = o.rec.hash]
                           ELSE announced
           /\ IF rest = <<>>
              THEN /\ job' = Idle
                   /\ UNCHANGED lmdbVars
              ELSE /\ job' = [job EXCEPT !.todo = rest]
                   /\ Invoke(rest[1])
           /\ IF job.kind = "restore" /\ rest = <<>>
              THEN Hydrate /\ torn' = (torn /\ (lazy \/ saved.torn))
              ELSE /\ tails' = CASE job.kind = "publish" ->
                                        [c \in Chains |-> Append(tails[c], o.rec)]
                                 [] job.kind = "tick" /\ o.name = "append_clock_event" ->
                                        [tails EXCEPT ![o.rec.chain] = <<>>]
                                 [] OTHER -> tails
                   /\ routes' = IF job.kind = "peer" /\ rest # <<>>
                                THEN Put(routes, rest[1].id, rest[1].rec) ELSE routes
                   /\ unstored' = unstored \ Stores(o)
                   /\ UNCHANGED <<nbrs, timed, torn>>
    /\ UNCHANGED <<profile, births, file, settled, saved, flushing>>

\* A restore that gets past its first call has emptied the store.
Emptied == job.kind = "restore" /\ job.todo[1].name # "clear"

\* The call threw, and the exception leaves the handler.
Abandon ==
    /\ job # Idle
    /\ call = NoCall
    /\ ret = "threw"
    /\ job' = Idle
    /\ unstored' = unstored \cup (IF Emptied THEN {"neighbor", "route", "timed"} \X Ids
                                  ELSE Stores(job.todo[1]))
    /\ torn' = (torn \/ Emptied)
    /\ UNCHANGED <<lmdbVars, profile, nbrs, routes, timed, tails, births, announced, file,
                   settled, saved, flushing>>

-----------------------------------------------------------------------------
(* Backup and restore. *)

InOrder(f) == LET keys == SetToSortSeq(DOMAIN f, <) IN [i \in DOMAIN keys |-> f[keys[i]]]

\* The parts of a store that a snapshot carries.
Content(d, ns, rs) ==
    [events |-> InOrder([s \in DOMAIN d.events |-> EventAt(d, s)]),
     clocks |-> InOrder([s \in DOMAIN d.clock_events |-> ClockAt(d, s)]),
     neighbors |-> ns, routes |-> rs]

Entries(f, id, val) == LET ks == SetToSeq(DOMAIN f)
                       IN  [i \in DOMAIN ks |-> [x \in {id, val} |->
                               IF x = id THEN ks[i] ELSE f[ks[i]]]]

Snapshot ==
    LET c == Content(disk, nbrs, routes)
    IN  Encode("snapshot",
          [version |-> SnapshotVersion, events |-> c.events, clocks |-> c.clocks,
           tail |-> tails[0],
           neighbors |-> Entries(nbrs, "id", "tips"), routes |-> Entries(routes, "id", "hop")])

\* FileStore::save writes beside the file and renames; nothing waits for the disk.
Save(blob) ==
    /\ file' = blob
    /\ settled' = FALSE

Backup ==
    /\ up
    /\ job = Idle
    /\ "restore" \in profile.uses /\ file = <<>>
    /\ Save(Snapshot)
    /\ saved' = [held |-> Content(disk, nbrs, routes), torn |-> torn]
    /\ UNCHANGED <<lmdbVars, profile, job, nbrs, routes, timed, tails, births, announced, unstored,
                   torn, flushing>>

WriteBack ==
    /\ ~settled
    /\ settled' = TRUE
    /\ UNCHANGED <<lmdbVars, profile, job, nbrs, routes, timed, tails, births, announced, file, saved,
                   unstored, torn, flushing>>

\* Faulty variant: the neighbours and routes are left behind.
LoadCallsOfLogs(s) ==
    <<[name |-> "clear"]>>
      \o [i \in DOMAIN s.events |-> [name |-> "append_event", rec |-> s.events[i]]]
      \o [i \in DOMAIN s.clocks |-> [name |-> "append_clock_event", rec |-> s.clocks[i]]]

\* Node::load: clear, then everything of the snapshot, call by call.
LoadCalls(s) ==
    <<[name |-> "clear"]>>
      \o [i \in DOMAIN s.events |-> [name |-> "append_event", rec |-> s.events[i]]]
      \o [i \in DOMAIN s.clocks |-> [name |-> "append_clock_event", rec |-> s.clocks[i]]]
      \o [i \in DOMAIN s.neighbors |-> [name |-> "put_neighbor", id |-> s.neighbors[i].id,
                                        rec |-> s.neighbors[i].tips]]
      \o [i \in DOMAIN s.routes |-> [name |-> "put_route", id |-> s.routes[i].id,
                                     rec |-> s.routes[i].hop]]

\* The whole snapshot is decoded before the store is touched; a file that cannot be
\* decoded is refused.
Restore ==
    /\ file # <<>>
    /\ Readable("snapshot", file)
    /\ LET s == Decode("snapshot", file)
       IN  /\ s.version = SnapshotVersion
           /\ Begin("restore", LoadCalls(s))
    /\ announced' = [c \in Chains |-> NoHash]
    /\ UNCHANGED <<nbrs, routes, timed, tails, births>>

-----------------------------------------------------------------------------
(* Process and machine. *)

\* The store is opened, the Node constructed over it, and the sync timer of a lazy store armed.
Start ==
    /\ Open
    /\ Hydrate
    /\ flushing' = lazy
    /\ UNCHANGED <<profile, job, births, announced, file, settled, saved, torn>>

LoseRam ==
    /\ job' = Idle
    /\ nbrs' = Nothing /\ routes' = Nothing /\ timed' = Nothing
    /\ tails' = [c \in Chains |-> <<>>]
    /\ UNCHANGED <<profile, births, announced, saved, torn>>
    /\ unstored' = {} /\ flushing' = FALSE

\* A backup that was not written out may come back short.
MachineFails ==
    /\ PowerFailure
    /\ LoseRam
    /\ file' \in (IF settled \/ file = <<>> THEN {file}
                  ELSE {file, SubSeq(file, 1, Len(file) - 1), <<>>})
    /\ settled' = TRUE

ProcessEnds == (Killed \/ PruneDies) /\ LoseRam /\ UNCHANGED <<file, settled>>

\* The command save flushes the store, whatever the policy.
SaveCommand == job = Idle /\ Sync /\ UNCHANGED nodeVars

\* The sync timer: it is armed again after the flush...
StoreSync == flushing /\ job = Idle /\ Sync /\ UNCHANGED nodeVars

\* ... which an exception of the flush prevents; the reactor drops the exception.
StoreSyncFails ==
    /\ profile.faulty
    /\ flushing /\ job = Idle
    /\ SyncFails
    /\ flushing' = FALSE
    /\ UNCHANGED <<profile, job, nbrs, routes, timed, tails, births, announced, file, settled, saved,
                   unstored, torn>>

\* The store serves the call it was given.
Serve == (Commit \/ ReturnEarly \/ GrowMap \/ Rejected) /\ UNCHANGED nodeVars
Fail == profile.faulty /\ IoError /\ UNCHANGED nodeVars

NodeInit ==
    /\ LmdbInit
    /\ profile \in Profiles
    /\ lazy => profile.unsynced > 0
    /\ job = Idle
    /\ nbrs = Nothing /\ routes = Nothing /\ timed = Nothing
    /\ tails = [c \in Chains |-> <<>>]
    /\ births = 0
    /\ announced = [c \in Chains |-> NoHash]
    /\ file = <<>> /\ settled = TRUE
    /\ saved = [held |-> Content(EmptyDisk, Nothing, Nothing), torn |-> FALSE]
    /\ unstored = {} /\ torn = FALSE /\ flushing = FALSE

Handler ==
    \/ Publish \/ (\E c \in Chains : CreateClockEvent(c)) \/ Gc
    \/ \E p \in Peers : AddPeer(p)
    \/ \E p \in Peers, v \in Validities : LearnRouteAt(p, p, v)
    \/ \E p \in Peers, c \in profile.advertised, h \in PeerTips,
          y \in DOMAIN disk.clock_index \cup {NoHash} : Notified(p, c, h, y)
    \/ Backup \/ Restore

NodeNext == Start \/ Handler \/ Serve \/ Fail \/ Proceed \/ Abandon \/ SaveCommand \/ StoreSync
               \/ StoreSyncFails \/ WriteBack \/ MachineFails \/ ProcessEnds

\* A call is served and a handler runs to its end, and a due timer fires whenever the reactor
\* comes round to it.
NodeSpec ==
    /\ NodeInit /\ [][NodeNext]_vars
    /\ WF_vars(Serve) /\ WF_vars(Proceed \/ Abandon)
    /\ SF_vars(StoreSync)

-----------------------------------------------------------------------------
(* Correctness. *)

\* Every variable has its type, and the handlers make only calls that are legal.
TypeOK ==
    /\ lazy \in BOOLEAN /\ up \in BOOLEAN /\ leaked \in BOOLEAN
    /\ call \in Call \cup {NoCall} /\ (call # NoCall => Legal(call))
    /\ ret \in {"none", "ok", "threw"}
    /\ map \in Nat \ {0}
    /\ faults \in 0 .. MaxFaults
    /\ births \in 0 .. profile.births
    /\ DOMAIN nbrs \subseteq Peers /\ \A n \in DOMAIN nbrs : nbrs[n] \in NbrRecs
    /\ \A c \in Chains : \A i \in DOMAIN tails[c] : tails[c][i] \in EventRecs
    /\ announced \in [Chains -> {<<b>> : b \in 1 .. births} \cup {NoHash}]
    /\ disk \in kept

\* f and g agree on p.
Agree(f, g, p) == p \in DOMAIN f \cup DOMAIN g => p \in DOMAIN f /\ p \in DOMAIN g /\ f[p] = g[p]

\* Between two handlers every neighbour and route in RAM is the stored one, unless the call
\* that was to store this very entry threw: add_neighbor, learn_route, learn_route_at and the
\* notification handler change RAM first and store afterwards.  Such an entry is off until a
\* later call stores it or the store is read again; an exception costs no other entry
\* (only one in the middle of a restore leaves all of them off).
WorkingSetCurrent ==
    up /\ job = Idle
        => \A p \in Ids :
              /\ <<"neighbor", p>> \notin unstored => Agree(nbrs, LoadNeighbors(disk), p)
              /\ <<"route", p>> \notin unstored => Agree(routes, disk.routes, p)
              /\ <<"timed", p>> \notin unstored => Agree(timed, LoadTimedRoutes(disk), p)

\* A stored event is pinned by every chain that keeps everything, or waits in its tail for
\* the next tick, whatever crashed or failed on the way there, except after a restore that
\* failed midway: neither a tick that throws after or before its append nor the tail
\* rebuilt at start may drop an event for good.
NothingForgotten ==
    up /\ job = Idle /\ ~torn
        => \A s \in DOMAIN disk.events, c \in Chains :
              Keep[c] = 0 => \/ PinnedBy(disk, EventAt(disk, s).hash, c)
                             \/ EventAt(disk, s) \in ToSet(tails[c])

\* With SyncPolicy::safe a clock event that was announced to a neighbour is never lost:
\* the chain goes on from it, so no neighbour sees two successors of one clock event (until
\* an operator restores a backup).
SafeNeverForks ==
    ~lazy => \A c \in Chains : announced[c] # NoHash =>
                \E s \in DOMAIN disk.clock_events :
                   ClockAt(disk, s).chain = c /\ ClockAt(disk, s).hash[1] >= announced[c][1]

\* What the first calls of a restore of s have brought back.
PartOf(c, s) ==
    /\ IsPrefix(c.events, s.events) /\ IsPrefix(c.clocks, s.clocks)
    /\ c.clocks # <<>> => c.events = s.events
    /\ \A p \in DOMAIN c.neighbors : Agree(c.neighbors, s.neighbors, p)
    /\ \A p \in DOMAIN c.routes : Agree(c.routes, s.routes, p)

\* A restore that succeeds brings back exactly the events, clock events with their learned
\* references, neighbours and routes the node held when the backup was made.  One that an
\* exception or a kill ends halfway leaves a beginning of the backup in the store and nothing
\* of what was there before; a backup cut short by a crash is refused and never restored in
\* part.
RestoreFaithful ==
    [][job.kind = "restore" /\ job' = Idle
          => /\ up' /\ ret = "ok" => Content(disk', nbrs', routes') = saved.held
             /\ Emptied /\ disk' = disk
                  => PartOf(Content(disk', LoadNeighbors(disk'), disk'.routes), saved.held)]_vars

\* "Bounds the crash-loss window to one interval" (lotid.cpp, schedule_store_sync): while the
\* daemon runs, what it has committed is flushed in the end.
LossWindowBounded == (up /\ kept # {disk}) ~> (kept = {disk} \/ ~up)

\* A call that waits for no leaked transaction returns or throws: growing the map ends at
\* the ceiling or when the record fits.
WritesReturn == (call # NoCall /\ ~leaked) ~> (call = NoCall)
=============================================================================
