------------------------------- MODULE Lotid -------------------------------
(***************************************************************************)
(* The daemon's control side (app/lotid/lotid.cpp, adapters/os/control.hpp *)
(* and the reactor): clients connect, send one request and wait; queries   *)
(* are remembered by descriptor until a callback of the Node answers them. *)
(*                                                                         *)
(* The Node is represented by its discoveries (their bookkeeping is        *)
(* module Discoveries): one per kind and key, settling at once for the     *)
(* node's own events, and otherwise when a datagram arrives or the purge   *)
(* timer aborts it.  Its callbacks are called once per registration; all   *)
(* but the first find nothing to answer, so one call is modelled.          *)
(*                                                                         *)
(* Two things end the process.  A reply to a client that has hung up       *)
(* raises SIGPIPE, which nothing handles.  And a reply removes its own     *)
(* table entry (close_client purges the tables) while the caller is        *)
(* iterating over them: what the stale iterator does is undefined.         *)
(***************************************************************************)
EXTENDS Reactor

\* What a table holds, and that no two of its keys hold the same.
Values(f) == { f[x] : x \in DOMAIN f }
Distinct(f) == \A a, b \in DOMAIN f : f[a] = f[b] => a = b

CONSTANTS
    Clients, Requests,  \* the runs of the command line at one time, and what they may ask
    Fds,                \* the descriptors accept may return
    Own,                \* the keys whose discovery settles at once
    Menus               \* what may happen in one behaviour: its clients, their requests,
                        \* and whether lines come on stdin and timers fail

\* A key is the sequence of the events a request names.
ASSUME RequestsAssumption == \A r \in Requests : r = [kind |-> r.kind, key |-> r.key]

StdinFd == 0
UdpFd == 1
ControlFd == 2

ASSUME FdsAssumption == Fds \subseteq Nat \ {StdinFd, UdpFd, ControlFd}

VARIABLES
    menu,    \* the element of Menus this behaviour is about
    life,    \* "up", "stopped" or "dead"
    phase,   \* a client's connection: "out", "queued", "unread", "read" or "over"
    sent,    \* the clients that have written their request
    gone,    \* the clients that have closed their end
    want,    \* what a client asked
    got,     \* the replies read: the client, and the request its reply answers
    conn,    \* client_buf_ and readers_: the client behind each open descriptor
    multi,   \* the entries of pending_bounds_, pending_chain_ and pending_proof_
    orders,  \* pending_order_
    proofs,  \* the entries of order_proofs_
    disc     \* the Node's discoveries

lotidVars == <<menu, life, phase, sent, gone, want, got, conn, multi, orders, proofs, disc>>
vars == <<lotidVars, reactorVars>>

Nothing == [kind |-> "nothing"]
Empty == [x \in {} |-> 0]
Put(f, k, v) == [x \in DOMAIN f \cup {k} |-> IF x = k THEN v ELSE f[x]]

\* The entries of a multimap or a vector are numbered in the order of insertion.
Numbered(S) == {[p EXCEPT !.at = Cardinality({q \in S : q.at <= p.at})] : p \in S}

\* What a handler works on.
D == [life |-> life, got |-> got, conn |-> conn, multi |-> multi, orders |-> orders,
      proofs |-> proofs, disc |-> disc]
Dead(d) == [d EXCEPT !.life = "dead"]

-----------------------------------------------------------------------------
(* Replies. *)

\* Faulty variant: the tables keep the entries of a closed descriptor.
CloseOnly(d, F) == [d EXCEPT !.conn = [x \in DOMAIN @ \ F |-> @[x]]]

\* close_client for the descriptors F: purge_pending_for_fd, remove_reader, close.
Close(d, F) ==
    [d EXCEPT !.conn = [x \in DOMAIN @ \ F |-> @[x]],
              !.multi = Numbered({m \in @ : m.fd \notin F}),
              !.orders = [k \in {k \in DOMAIN @ : @[k] \notin F} |-> @[k]],
              !.proofs = Numbered({p \in @ : p.fd \notin F})]

\* The reply on descriptor fd to the request of that kind and key.
Reply(fd, kind, key, at) == [fd |-> fd, request |-> [kind |-> kind, key |-> key], at |-> at]

\* write_all: the clients at the other ends read the replies rs.
Written(d, rs) ==
    [d EXCEPT !.got = @ \cup {[client |-> d.conn[r.fd], request |-> r.request] : r \in rs}]

\* Faulty variant: as if SIGPIPE were ignored.
RespondPastPipe(d, rs) ==
    LET open == {r \in rs : r.fd \in DOMAIN d.conn}
    IN  Close(Written(d, open), {r.fd : r \in open})

\* respond for each of the replies rs in turn: one on a descriptor that is not open is
\* dropped, one to a client that has hung up is the last.
Respond(d, rs) ==
    LET open == {r \in rs : r.fd \in DOMAIN d.conn}
        hung == {r \in open : d.conn[r.fd] \in gone}
        done == {r \in open \ hung : \A h \in hung : r.at < h.at}
        next == Close(Written(d, done), {r.fd : r \in done})
    IN  IF d.life # "up" THEN d ELSE IF hung = {} THEN next ELSE Dead(next)

RespondOne(d, fd, kind, key) == Respond(d, {Reply(fd, kind, key, 1)})

\* Faulty variant: the tables are not told apart.
AnswerAnyTable(d, table, key) ==
    {Respond(d, {Reply(m.fd, table, key, m.at) : m \in {m \in d.multi : m.key = key}})}

\* answer and abort_pending: every entry of the key in turn; after each the iterator is stale.
\* The freed node still leads on, and all are answered, or using it ends the process.
Answer(d, table, key) ==
    LET here == {m \in d.multi : m.table = table /\ m.key = key}
        Sent(S) == Respond(d, {Reply(m.fd, table, key, m.at) : m \in S})
    IN  {[Sent(here) EXCEPT !.multi = Numbered({m \in @ : ~(m.table = table /\ m.key = key)})]}
          \cup {Dead(Sent({m \in here : m.at <= n.at})) : n \in here}

\* finish_single_proof and abort_single_proof iterate the same way.
AnswerSingleProofs(d, key) == Answer(d, "prove", key)

\* on_order_completed, on_order_aborted: the entry is erased a second time.
AnswerOrder(d, key) ==
    IF key \notin DOMAIN d.orders THEN {d}
    ELSE LET next == RespondOne(d, d.orders[key], "order", key)
         IN  {next, Dead(next)}

\* The chains an order proof p has once the discovery of e has ended.
Has(p, e, outcome) ==
    p.has \cup {x \in {1, 2} : outcome = "completed" /\ <<p.key[x]>> = e}

\* p has both chains, or never will.
Due(p, e, outcome) ==
    IF outcome = "completed" THEN Has(p, e, outcome) = {1, 2}
    ELSE e \in {<<p.key[1]>>, <<p.key[2]>>}

\* The order proofs that the loop over order_proofs_ looks at.  A reply has erased its entry,
\* so that erasing "it" takes the one that follows.
Visited(ps, e, outcome) ==
    LET due == {p.at : p \in {p \in ps : Due(p, e, outcome)}}
        looked[i \in Nat] == i > 0 /\ ~(looked[i - 1] /\ i - 1 \in due)
    IN  {p \in ps : looked[p.at]}

\* finish_order_proof and abort_order_proof.  After a reply to the last entry the loop erases
\* end(): the vector loses what is now its last entry, if the process survives it.
AnswerProofs(d, e, outcome) ==
    LET seen == Visited(d.proofs, e, outcome)
        due == {p \in seen : Due(p, e, outcome)}
        next == Respond(d, {Reply(p.fd, "prove_order", p.key, p.at) : p \in due})
        rest == {[p EXCEPT !.has = Has(p, e, outcome)] : p \in seen \ due}
        Left(ps) == [next EXCEPT !.proofs = Numbered(ps)]
    IN  IF d.life # "up" THEN {d}
        ELSE IF \A p \in due : p.at # Cardinality(d.proofs) THEN {Left(rest)}
        ELSE {Left({p \in rest : \E q \in rest : p.at < q.at}), Dead(Left(rest))}

\* The callbacks of a discovery that settles.
Told(d, kind, key, outcome) ==
    CASE kind = "bounds" -> Answer(d, "bounds", key)
      [] kind = "order"  -> AnswerOrder(d, key)
      [] kind = "chain"  ->
             UNION {UNION {AnswerProofs(d2, key, outcome) : d2 \in AnswerSingleProofs(d1, key)} :
                       d1 \in Answer(d, "chain", key)}

-----------------------------------------------------------------------------
(* Requests. *)

Outcomes == {"completed", "aborted"}
Settled(d, kind, key, outcome) ==
    Told([d EXCEPT !.disc = Put(@, <<kind, key>>, outcome)], kind, key, outcome)

\* discover_event_chain, discover_event_bounds, discover_event_order.
Discover(d, kind, key) ==
    IF d.life # "up" THEN {d}
    ELSE IF <<kind, key>> \notin DOMAIN d.disc
    THEN IF key \in Own THEN UNION {Settled(d, kind, key, o) : o \in Outcomes}
         ELSE {[d EXCEPT !.disc = Put(@, <<kind, key>>, "running")]}
    ELSE IF d.disc[<<kind, key>>] = "running" THEN {d}
    ELSE Told(d, kind, key, d.disc[<<kind, key>>])

\* Faulty variant: one descriptor per key, as pending_order_ has it.
RegisteredOnce(d, r, fd) ==
    CASE r.kind = "order" -> [d EXCEPT !.orders = Put(@, r.key, fd)]
      [] r.kind = "prove_order" ->
             [d EXCEPT !.proofs = @ \cup {[fd |-> fd, key |-> r.key, has |-> {},
                                           at |-> Cardinality(@) + 1]}]
      [] OTHER -> [d EXCEPT !.multi = {m \in @ : m.key # r.key} \cup
                                        {[table |-> r.kind, key |-> r.key, fd |-> fd, at |-> 1]}]

\* dispatch_query and dispatch_prove remember the descriptor...
Registered(d, r, fd) ==
    CASE r.kind = "order" -> [d EXCEPT !.orders = Put(@, r.key, fd)]
      [] r.kind = "prove_order" ->
             [d EXCEPT !.proofs = @ \cup {[fd |-> fd, key |-> r.key, has |-> {},
                                           at |-> Cardinality(@) + 1]}]
      [] OTHER -> [d EXCEPT !.multi = @ \cup {[table |-> r.kind, key |-> r.key, fd |-> fd,
                                               at |-> Cardinality(@) + 1]}]

\* Faulty variant: a proof starts a discovery of its own kind.
StartedAsNamed(d, r) == Discover(d, r.kind, r.key)

\* ... and start what they need.
Started(d, r) ==
    CASE r.kind = "prove" -> Discover(d, "chain", r.key)
      [] r.kind = "prove_order" ->
             UNION {Discover(d1, "chain", <<r.key[2]>>) : d1 \in Discover(d, "chain", <<r.key[1]>>)}
      [] OTHER -> Discover(d, r.kind, r.key)

Deferred(r) == r.kind \in {"bounds", "chain", "order", "prove", "prove_order"}

\* dispatch_guarded: a request is answered at once, or later, or fails with an exception
\* on the way, which is answered too.
Dispatch(d, r, fd) ==
    IF ~Deferred(r) THEN {RespondOne(d, fd, r.kind, r.key)}
    ELSE LET known == Registered(d, r, fd)
         IN  Started(known, r)
               \cup {RespondOne(x, fd, r.kind, r.key) : x \in Started(known, r) \cup {d, known}}

\* The memory and the connections of a process go with it.
Ended(d) ==
    [d EXCEPT !.conn = Empty, !.multi = {}, !.orders = Empty, !.proofs = {}, !.disc = Empty]

\* The outcome d of a handler that has read the requests of the clients in readers.
Becomes(d, readers) ==
    LET o == IF d.life = "up" THEN d ELSE Ended(d)
    IN  /\ life' = o.life /\ got' = o.got /\ conn' = o.conn /\ multi' = o.multi
        /\ orders' = o.orders /\ proofs' = o.proofs /\ disc' = o.disc
        /\ phase' = [c \in Clients |->
                        IF c \in Values(conn) \ Values(o.conn)
                              \/ (o.life # "up" /\ phase[c] = "queued") THEN "over"
                        ELSE IF c \in readers THEN "read" ELSE phase[c]]

-----------------------------------------------------------------------------
(* The steps of the clients: control_request. *)

Connect(c, r) ==
    /\ life = "up"
    /\ c \in menu.clients /\ r \in menu.requests
    /\ phase[c] = "out"
    /\ phase' = [phase EXCEPT ![c] = "queued"]
    /\ want' = [want EXCEPT ![c] = r]
    /\ UNCHANGED <<menu, life, sent, gone, got, conn, multi, orders, proofs, disc, reactorVars>>

\* The request is written right after connecting, whether the daemon has accepted or not.
Send(c) ==
    /\ phase[c] \in {"queued", "unread"}
    /\ c \notin sent \cup gone
    /\ sent' = sent \cup {c}
    /\ UNCHANGED <<menu, life, phase, gone, want, got, conn, multi, orders, proofs, disc, reactorVars>>

\* control_request returns, with a reply or without.
Return(c) ==
    /\ phase[c] = "over"
    /\ phase' = [phase EXCEPT ![c] = "out"]
    /\ sent' = sent \ {c} /\ gone' = gone \ {c}
    /\ want' = [want EXCEPT ![c] = Nothing] /\ got' = {g \in got : g.client # c}
    /\ UNCHANGED <<menu, life, conn, multi, orders, proofs, disc, reactorVars>>

\* The user gives up.
HangUp(c) ==
    /\ phase[c] \in {"queued", "unread", "read"}
    /\ c \notin gone
    /\ gone' = gone \cup {c}
    /\ UNCHANGED <<menu, life, phase, sent, want, got, conn, multi, orders, proofs, disc, reactorVars>>

-----------------------------------------------------------------------------
(* The steps of the daemon. *)

HasRequest(c) == phase[c] = "unread" /\ c \in sent
Readable(fd) == HasRequest(conn[fd]) \/ conn[fd] \in gone

Running == {k \in DOMAIN disc : disc[k] = "running"}

\* A datagram, of which only those that may settle something matter, and a line on stdin
\* may come at any time.
Poll ==
    /\ life = "up"
    /\ \E extra \in SUBSET ({UdpFd : k \in Running} \cup (IF menu.stdin THEN {StdinFd} ELSE {})) :
          Wait({fd \in DOMAIN conn : Readable(fd)}
                 \cup (IF \E c \in Clients : phase[c] = "queued" THEN {ControlFd} ELSE {})
                 \cup extra)
    /\ UNCHANGED lotidVars

\* on_control_accept: accept returns the lowest free descriptor; without one nothing is
\* accepted.
Accept ==
    /\ life = "up"
    /\ Take(ControlFd, FALSE)
    /\ LET free == Fds \ DOMAIN conn
       IN  \/ /\ free = {}
              /\ UNCHANGED <<phase, conn>>
           \/ \E n \in free, c \in Clients :
                 /\ \A m \in free : n <= m
                 /\ phase[c] = "queued"
                 /\ phase' = [phase EXCEPT ![c] = "unread"]
                 /\ conn' = Put(conn, n, c)
    /\ UNCHANGED <<menu, life, sent, gone, want, got, multi, orders, proofs, disc>>

\* on_control_readable with data; the event of a descriptor without a reader has no handler,
\* and a read without data waits for the client (ReadsNeverBlock: neither happens).
ReadRequest(fd) ==
    /\ life = "up"
    /\ fd \in DOMAIN conn /\ HasRequest(conn[fd])
    /\ LET r == want[conn[fd]]
       IN  /\ Take(fd, r.kind = "quit")
           /\ \E d \in Dispatch(D, r, fd) : Becomes(d, {conn[fd]})
    /\ UNCHANGED <<menu, sent, gone, want>>

\* on_control_readable at the end of the stream.
ReadEnd(fd) ==
    /\ life = "up"
    /\ fd \in DOMAIN conn /\ ~HasRequest(conn[fd]) /\ conn[fd] \in gone
    /\ Take(fd, FALSE)
    /\ Becomes(Close(D, {fd}), {})
    /\ UNCHANGED <<menu, sent, gone, want>>

\* A datagram settles a discovery or does not concern one.
Datagram ==
    /\ life = "up"
    /\ Take(UdpFd, FALSE)
    /\ \/ UNCHANGED <<life, phase, got, conn, multi, orders, proofs, disc>>
       \/ \E k \in Running, o \in Outcomes :
             \E d \in Settled(D, k[1], k[2], o) : Becomes(d, {})
    /\ UNCHANGED <<menu, sent, gone, want>>

\* on_stdin_readable: a query nobody waits for, or the end of the input.
Stdin ==
    /\ life = "up"
    /\ \E eof \in BOOLEAN :
          /\ Take(StdinFd, eof)
          /\ \/ eof /\ UNCHANGED <<life, phase, got, conn, multi, orders, proofs, disc>>
             \/ ~eof /\ \E r \in Requests : /\ r.kind \in {"bounds", "chain", "order"}
                                            /\ r \in menu.requests
                                            /\ \E d \in Started(D, r) : Becomes(d, {})
    /\ UNCHANGED <<menu, sent, gone, want>>

\* Faulty variants: a running discovery is dropped without a word, or never.
PurgeSilently(k) ==
    /\ life = "up"
    /\ k \in DOMAIN disc
    /\ Fire("purge")
    /\ Becomes([D EXCEPT !.disc = [x \in DOMAIN @ \ {k} |-> @[x]]], {})
    /\ UNCHANGED <<menu, sent, gone, want>>

PurgeSettled(k) == k \notin Running /\ PurgeSilently(k)

\* The purge timer drops an expired discovery, after aborting it if it is running.
Purge(k) ==
    /\ life = "up"
    /\ k \in DOMAIN disc
    /\ Fire("purge")
    /\ \E d \in (IF k \in Running THEN Told(D, k[1], k[2], "aborted") ELSE {D}) :
          Becomes([d EXCEPT !.disc = [x \in DOMAIN @ \ {k} |-> @[x]]], {})
    /\ UNCHANGED <<menu, sent, gone, want>>

\* The clock and sync timers; their store calls may throw.
OtherTimer(t) ==
    /\ life = "up"
    /\ t # "purge" /\ menu.failing
    /\ FireAndFail(t)
    /\ UNCHANGED lotidVars

\* run() returns once the batch is done; every connection is closed with the process.
Exit ==
    /\ life = "up"
    /\ ~running /\ ready = {}
    /\ Becomes([D EXCEPT !.life = "stopped"], {})
    /\ UNCHANGED <<menu, sent, gone, want, reactorVars>>

Init ==
    /\ ReactorInit
    /\ menu \in Menus
    /\ life = "up"
    /\ phase = [c \in Clients |-> "out"]
    /\ sent = {} /\ gone = {}
    /\ want = [c \in Clients |-> Nothing]
    /\ got = {}
    /\ conn = Empty /\ multi = {} /\ orders = Empty /\ proofs = {} /\ disc = Empty

Handle == \/ Accept \/ Datagram \/ Stdin
          \/ \E fd \in Fds : ReadRequest(fd) \/ ReadEnd(fd)

Next ==
    \/ \E c \in Clients : Send(c) \/ Return(c) \/ HangUp(c) \/ \E r \in Requests : Connect(c, r)
    \/ Poll \/ Handle \/ Exit
    \/ \E k \in DOMAIN disc : Purge(k)
    \/ \E t \in Timers : OtherTimer(t)

Discoverable ==
    {<<r.kind, r.key>> : r \in {r \in Requests : r.kind \in {"bounds", "chain", "order"}}}
      \cup {<<"chain", r.key>> : r \in {r \in Requests : r.kind = "prove"}}
      \cup {<<"chain", <<r.key[i]>>>> : r \in {r \in Requests : r.kind = "prove_order"}, i \in {1, 2}}

\* The loop runs on; what has expired is purged when it comes round to the timers; a client
\* that has connected writes its request.
Spec ==
    /\ Init /\ [][Next]_vars
    /\ WF_vars(Poll \/ Handle \/ Exit)
    /\ SF_vars(\E k \in Running : Purge(k))
    /\ WF_vars(\E c \in Clients : Send(c))

-----------------------------------------------------------------------------
(* Properties. *)

Waiting(c) == life = "up" /\ phase[c] = "read"

\* Types of the daemon's state.
TypeOK ==
    /\ life \in {"up", "stopped", "dead"} /\ running \in BOOLEAN
    /\ phase \in [Clients -> {"out", "queued", "unread", "read", "over"}]
    /\ sent \subseteq Clients /\ gone \subseteq Clients
    /\ want \in [Clients -> Requests \cup {Nothing}]
    /\ got \subseteq [client : Clients, request : Requests]
    /\ DOMAIN conn \subseteq Fds /\ Distinct(conn) /\ Values(conn) \subseteq Clients
    /\ DOMAIN disc \subseteq Discoverable /\ Values(disc) \subseteq Outcomes \cup {"running"}
    /\ ready \subseteq Fds \cup {ControlFd, UdpFd, StdinFd}

\* purge_pending_for_fd: "a reused fd must never receive a stale discovery's reply".  Every
\* reply a client reads answers the request that very client made.
NoMisroute == \A g \in got : g.request = want[g.client]

\* The request behind a table entry.
Entries ==
    {[fd |-> m.fd, request |-> [kind |-> m.table, key |-> m.key]] : m \in multi}
      \cup {[fd |-> orders[k], request |-> [kind |-> "order", key |-> k]] : k \in DOMAIN orders}
      \cup {[fd |-> p.fd, request |-> [kind |-> "prove_order", key |-> p.key]] : p \in proofs}

\* An entry of the tables belongs to an open connection, and to the request made on it.
PendingLive ==
    life = "up" => \A e \in Entries : e.fd \in DOMAIN conn /\ want[conn[e.fd]] = e.request

\* The Node is at work for every entry: no client waits for a discovery that has settled,
\* and an order proof only for the chains it does not have.
PendingRunning ==
    life = "up" =>
        /\ \A m \in multi :
              <<IF m.table = "prove" THEN "chain" ELSE m.table, m.key>> \in Running
        /\ \A k \in DOMAIN orders : <<"order", k>> \in Running
        /\ \A p \in proofs : /\ p.has # {1, 2}
                             /\ \A i \in {1, 2} \ p.has : <<"chain", <<p.key[i]>>>> \in Running

\* The reactor handles events that were collected before the batch began, and
\* on_control_readable makes a blocking read.  When its turn comes every descriptor of the
\* batch is still open and still has something to read, so that no run of the command line
\* can stop the loop.  This rests on how control_request behaves: it writes one line, nothing
\* after it, and closes both directions at once, so that a descriptor which became readable
\* and which another handler could close belongs to a client that has hung up, and the reply
\* to that one ends the process.
ReadsNeverBlock ==
    life = "up" => \A fd \in ready \cap Fds : fd \in DOMAIN conn /\ Readable(fd)

Held(c) == \E e \in Entries : e.fd \in DOMAIN conn /\ conn[e.fd] = c

Single(c) == want[c].kind \in {"bounds", "chain", "prove"}

\* "The control connection is held until the discovery completes or aborts, then the reply
\* is sent" (lotid.cpp, file comment), for the queries about one event: as long as the
\* connection is open its entry is in a table, so that the callback will find it.
SingleQueriesHeld == \A c \in Clients : Waiting(c) /\ Single(c) => Held(c)

\* The same for every query.
QueriesHeld == \A c \in Clients : Waiting(c) => Held(c)

\* A client that asked about one event does not wait for ever: it is answered, unless it
\* hangs up or the daemon ends.  Where no datagram comes this rests on the purge timer, which
\* must be armed again by every handler of it, whatever other timers were lost to an exception.
SingleQueriesAnswered == \A c \in Clients : (Waiting(c) /\ Single(c)) ~> ~Waiting(c)
=============================================================================
