--------------------------- MODULE LotidHandlers ---------------------------
(***************************************************************************)
(* Proofs about Lotid for any number of clients, descriptors, requests and  *)
(* events: replies reach the client that asked, no table entry outlives its *)
(* connection or its discovery, and no read of the loop can block.          *)
(*                                                                         *)
(* A handler turns the state D into one of several outcomes by a chain of   *)
(* replies, registrations and callbacks.  Good says of each record on the   *)
(* way that it is what these steps may have made of D.                      *)
(***************************************************************************)
EXTENDS Lotid, TLAPS

\* Everything a handler works on, and the entries of its tables.
IsD(d) == d = [life |-> d.life, got |-> d.got, conn |-> d.conn, multi |-> d.multi,
               orders |-> d.orders, proofs |-> d.proofs, disc |-> d.disc]
IsFun(f) == f = [x \in DOMAIN f |-> f[x]]
IsM(m) == m = [table |-> m.table, key |-> m.key, fd |-> m.fd, at |-> m.at]
IsP(p) == p = [fd |-> p.fd, key |-> p.key, has |-> p.has, at |-> p.at]

SameM(q, m) == q.table = m.table /\ q.key = m.key /\ q.fd = m.fd
SameP(q, p) == q.fd = p.fd /\ q.key = p.key /\ q.has = p.has

\* The requests on the descriptors Z are being handled, or were before.
ReadFd(fd, Z) == fd \in Z \/ phase[conn[fd]] = "read"

\* fd is open in d, and its client made the request.
Open(d, Z, fd, request) ==
    fd \in DOMAIN d.conn /\ ReadFd(fd, Z) /\ want[conn[fd]] = request

MultiOK(d, Z) ==
    \A m \in d.multi : /\ IsM(m) /\ m.table \in {"bounds", "chain", "prove"}
                       /\ Open(d, Z, m.fd, [kind |-> m.table, key |-> m.key])
OrdersOK(d, Z) ==
    /\ IsFun(d.orders)
    /\ \A k \in DOMAIN d.orders : Open(d, Z, d.orders[k], [kind |-> "order", key |-> k])
ProofsOK(d, Z) ==
    \A p \in d.proofs : /\ IsP(p)
                        /\ Open(d, Z, p.fd, [kind |-> "prove_order", key |-> p.key])
                        /\ \A q \in d.proofs : q.fd = p.fd => q = p

\* What was closed on the way: connections that had been read and not hung up.
ConnOK(d, Z) ==
    /\ DOMAIN d.conn \subseteq DOMAIN conn
    /\ d.conn = [x \in DOMAIN d.conn |-> conn[x]]
    /\ \A fd \in DOMAIN conn \ DOMAIN d.conn :
          fd \in Z \/ (phase[conn[fd]] = "read" /\ conn[fd] \notin gone)

\* Each reply on the way answers the request of its client, whose connection is closed.
GotOK(d) ==
    \A g \in d.got : \/ g \in got
                     \/ \E fd \in DOMAIN conn \ DOMAIN d.conn :
                           g = [client |-> conn[fd], request |-> want[conn[fd]]]

IsDisc(f) ==
    /\ IsFun(f)
    /\ DOMAIN f \subseteq Discoverable
    /\ \A k \in DOMAIN f : f[k] \in Outcomes \cup {"running"}
DiscOK(d) == IsDisc(d.disc)

\* The discovery an entry of the multimaps waits for.
AwaitsM(m) == <<IF m.table = "prove" THEN "chain" ELSE m.table, m.key>>

\* Entries of descriptors outside W wait only for discoveries in A.
Needs(d, A, W) ==
    d.life = "up" =>
        /\ \A m \in d.multi : m.fd \notin W => AwaitsM(m) \in A
        /\ \A k \in DOMAIN d.orders : d.orders[k] \notin W => <<"order", k>> \in A
        /\ \A p \in d.proofs : p.fd \notin W =>
              /\ p.has # {1, 2}
              /\ \A i \in {1, 2} \ p.has : <<"chain", <<p.key[i]>>>> \in A

\* Queries about one event whose descriptor is open and outside W have their entry.
Holds(d, Z, W) ==
    d.life = "up" => \A fd \in DOMAIN d.conn \ W :
        ReadFd(fd, Z) /\ want[conn[fd]].kind \in {"bounds", "chain", "prove"} =>
            \E m \in d.multi : m.fd = fd

Good(d, Z, A, W) ==
    /\ IsD(d) /\ d.life \in {"up", "stopped", "dead"}
    /\ ConnOK(d, Z) /\ GotOK(d) /\ DiscOK(d)
    /\ MultiOK(d, Z) /\ OrdersOK(d, Z) /\ ProofsOK(d, Z)
    /\ Needs(d, A, W)
    /\ Holds(d, Z, W)

\* The state of a client's connection, seen from its reply, its descriptor and itself.
GotOver == \A g \in got : phase[g.client] = "over"
ConnPhase == \A fd \in DOMAIN conn : phase[conn[fd]] \in {"unread", "read"}
Connected ==
    life = "up" => \A c \in Clients :
        phase[c] \in {"unread", "read"} => \E fd \in DOMAIN conn : conn[fd] = c
Wanted ==
    \A c \in Clients : phase[c] \in {"queued", "unread", "read"} => want[c] \in Requests

\* The inductive invariant.
LotidInv ==
    /\ TypeOK /\ NoMisroute /\ ReadsNeverBlock
    /\ GotOver /\ ConnPhase /\ Connected /\ Wanted
    /\ Good(D, {}, Running, {})

\* x is d without the descriptors F, and without entries of theirs; an entry may go by
\* itself only from the orders and the proofs, or when the process ends.
Less(x, d, F) ==
    /\ IsD(x) /\ x.life \in {"up", "stopped", "dead"}
    /\ x.life = "up" => d.life = "up"
    /\ x.disc = d.disc
    /\ x.conn = [y \in DOMAIN d.conn \ F |-> d.conn[y]]
    /\ \A q \in x.multi : IsM(q) /\ q.fd \notin F /\ \E m \in d.multi : SameM(q, m)
    /\ x.life = "up" => \A m \in d.multi : m.fd \notin F => \E q \in x.multi : q.fd = m.fd
    /\ x.orders = [k \in DOMAIN x.orders |-> d.orders[k]]
    /\ DOMAIN x.orders \subseteq DOMAIN d.orders
    /\ \A k \in DOMAIN x.orders : d.orders[k] \notin F
    /\ \A q \in x.proofs : IsP(q) /\ q.fd \notin F /\ \E p \in d.proofs : SameP(q, p)
    /\ \A p, q \in x.proofs : q.fd = p.fd => q = p

-----------------------------------------------------------------------------
(* The smallest steps. *)

LEMMA NumberedM ==
    ASSUME NEW S, \A m \in S : IsM(m)
    PROVE  /\ \A q \in Numbered(S) : IsM(q) /\ \E m \in S : SameM(q, m)
           /\ \A m \in S : \E q \in Numbered(S) : SameM(q, m)
<1> DEFINE F(m) == [m EXCEPT !.at = Cardinality({q \in S : q.at <= m.at})]
<1>1. Numbered(S) = {F(m) : m \in S}
  BY DEF Numbered
<1>2. ASSUME NEW m \in S
      PROVE  IsM(F(m)) /\ SameM(F(m), m)
  <2> DEFINE n == Cardinality({q \in S : q.at <= m.at})
  <2>1. F(m) = [m EXCEPT !.at = n] /\ m = [table |-> m.table, key |-> m.key, fd |-> m.fd, at |-> m.at]
    BY DEF IsM
  <2> HIDE DEF n
  <2> QED
    BY <2>1 DEF IsM, SameM
<1> HIDE DEF F
<1> QED
  BY <1>1, <1>2

LEMMA NumberedP ==
    ASSUME NEW S, \A p, q \in S : IsP(p) /\ (q.fd = p.fd => q = p)
    PROVE  /\ \A q \in Numbered(S) : IsP(q) /\ \E p \in S : SameP(q, p)
           /\ \A p, q \in Numbered(S) : q.fd = p.fd => q = p
<1> DEFINE F(p) == [p EXCEPT !.at = Cardinality({q \in S : q.at <= p.at})]
<1>1. Numbered(S) = {F(p) : p \in S}
  BY DEF Numbered
<1>2. ASSUME NEW p \in S
      PROVE  IsP(F(p)) /\ SameP(F(p), p)
  <2> DEFINE n == Cardinality({q \in S : q.at <= p.at})
  <2>1. F(p) = [p EXCEPT !.at = n] /\ p = [fd |-> p.fd, key |-> p.key, has |-> p.has, at |-> p.at]
    BY DEF IsP
  <2> HIDE DEF n
  <2> QED
    BY <2>1 DEF IsP, SameP
<1> HIDE DEF F
<1> QED
  BY <1>1, <1>2 DEF SameP

With(d, c, m, o, p) == [d EXCEPT !.conn = c, !.multi = m, !.orders = o, !.proofs = p]

LEMMA Fields ==
    ASSUME NEW d, IsD(d), NEW c, NEW m, NEW o, NEW p
    PROVE  With(d, c, m, o, p)
           = [life |-> d.life, got |-> d.got, conn |-> c, multi |-> m, orders |-> o,
              proofs |-> p, disc |-> d.disc]
<1> DEFINE d1 == [d EXCEPT !.conn = c]
           d2 == [d1 EXCEPT !.multi = m]
           d3 == [d2 EXCEPT !.orders = o]
<1>1. With(d, c, m, o, p) = [d3 EXCEPT !.proofs = p]
  BY Zenon DEF With
<1>2. d1 = [life |-> d.life, got |-> d.got, conn |-> c, multi |-> d.multi,
            orders |-> d.orders, proofs |-> d.proofs, disc |-> d.disc]
  BY DEF IsD
<1>3. d2 = [d1 EXCEPT !.multi = m]
  OBVIOUS
<1> HIDE DEF d1
<1>4. d2 = [life |-> d.life, got |-> d.got, conn |-> c, multi |-> m,
            orders |-> d.orders, proofs |-> d.proofs, disc |-> d.disc]
  BY <1>2, <1>3
<1>5. d3 = [d2 EXCEPT !.orders = o]
  OBVIOUS
<1> HIDE DEF d2
<1>6. d3 = [life |-> d.life, got |-> d.got, conn |-> c, multi |-> m,
            orders |-> o, proofs |-> d.proofs, disc |-> d.disc]
  BY <1>4, <1>5
<1> HIDE DEF d3
<1> QED
  BY <1>1, <1>6

\* The entries of S that are not for the descriptors F.
Off(S, F) == {m \in S : m.fd \notin F}

LEMMA CloseFields ==
    ASSUME NEW d, IsD(d), NEW F
    PROVE  /\ IsD(Close(d, F))
           /\ Close(d, F).life = d.life /\ Close(d, F).got = d.got /\ Close(d, F).disc = d.disc
           /\ Close(d, F).conn = [x \in DOMAIN d.conn \ F |-> d.conn[x]]
           /\ Close(d, F).multi = Numbered(Off(d.multi, F))
           /\ Close(d, F).orders = [k \in {k \in DOMAIN d.orders : d.orders[k] \notin F} |-> d.orders[k]]
           /\ Close(d, F).proofs = Numbered(Off(d.proofs, F))
<1> DEFINE c == [x \in DOMAIN d.conn \ F |-> d.conn[x]]
           m == Numbered(Off(d.multi, F))
           o == [k \in {k \in DOMAIN d.orders : d.orders[k] \notin F} |-> d.orders[k]]
           p == Numbered(Off(d.proofs, F))
<1>1. Close(d, F) = With(d, c, m, o, p)
  BY DEF Close, Off, With
<1> HIDE DEF c, m, o, p
<1>2. Close(d, F) = [life |-> d.life, got |-> d.got, conn |-> c, multi |-> m, orders |-> o,
                     proofs |-> p, disc |-> d.disc]
  BY <1>1, Fields
<1>3. /\ IsD(Close(d, F))
      /\ Close(d, F).life = d.life /\ Close(d, F).got = d.got /\ Close(d, F).disc = d.disc
      /\ Close(d, F).conn = c /\ Close(d, F).multi = m
      /\ Close(d, F).orders = o /\ Close(d, F).proofs = p
  BY <1>2 DEF IsD
<1> QED
  BY <1>3 DEF c, m, o, p

\* What a good record is made of, and what depends on which of its fields.
LEMMA Parts ==
    ASSUME NEW d, NEW Z, NEW A, NEW W, Good(d, Z, A, W)
    PROVE  /\ IsD(d) /\ d.life \in {"up", "stopped", "dead"}
           /\ ConnOK(d, Z) /\ GotOK(d) /\ DiscOK(d)
           /\ MultiOK(d, Z) /\ OrdersOK(d, Z) /\ ProofsOK(d, Z)
           /\ Needs(d, A, W) /\ Holds(d, Z, W)
  BY DEF Good

LEMMA KeepConn ==
    ASSUME NEW d, NEW Z, ConnOK(d, Z), GotOK(d), NEW x, x.conn = d.conn, x.got = d.got
    PROVE  ConnOK(x, Z) /\ GotOK(x)
  BY DEF ConnOK, GotOK

LEMMA KeepMulti ==
    ASSUME NEW d, NEW Z, MultiOK(d, Z), NEW x, x.conn = d.conn, x.multi = d.multi
    PROVE  MultiOK(x, Z)
  BY Zenon DEF MultiOK, Open

LEMMA KeepOrders ==
    ASSUME NEW d, NEW Z, OrdersOK(d, Z), NEW x, x.conn = d.conn, x.orders = d.orders
    PROVE  OrdersOK(x, Z)
  BY DEF OrdersOK, Open

LEMMA KeepProofs ==
    ASSUME NEW d, NEW Z, ProofsOK(d, Z), NEW x, x.conn = d.conn, x.proofs = d.proofs
    PROVE  ProofsOK(x, Z)
  BY Zenon DEF ProofsOK, Open

LEMMA LessGood ==
    ASSUME NEW d, NEW Z, NEW A, NEW W, Good(d, Z, A, W),
           NEW x, NEW F, Less(x, d, F), GotOK(x),
           \A fd \in F \cap DOMAIN d.conn : fd \in Z \/ (phase[conn[fd]] = "read" /\ conn[fd] \notin gone)
    PROVE  Good(x, Z, A, W)
<1>1. ConnOK(x, Z)
  BY DEF Good, Less, ConnOK
<1>2. DiscOK(x)
  BY DEF Good, Less, DiscOK
<1>3. DOMAIN x.conn = DOMAIN d.conn \ F
  BY DEF Less
<1>4. MultiOK(x, Z)
  <2> SUFFICES ASSUME NEW q \in x.multi
               PROVE  /\ IsM(q) /\ q.table \in {"bounds", "chain", "prove"}
                      /\ Open(x, Z, q.fd, [kind |-> q.table, key |-> q.key])
    BY Zenon DEF MultiOK
  <2>1. PICK m \in d.multi : SameM(q, m)
    BY DEF Less
  <2>2. q.fd \notin F /\ IsM(q)
    BY DEF Less
  <2>3. m.table \in {"bounds", "chain", "prove"} /\ Open(d, Z, m.fd, [kind |-> m.table, key |-> m.key])
    BY DEF Good, MultiOK
  <2> QED
    BY <2>1, <2>2, <2>3, <1>3 DEF Open, SameM
<1>5. OrdersOK(x, Z)
  <2>1. IsFun(x.orders)
    BY DEF Less, IsFun
  <2>2. ASSUME NEW k \in DOMAIN x.orders
        PROVE  Open(x, Z, x.orders[k], [kind |-> "order", key |-> k])
    <3>1. k \in DOMAIN d.orders /\ x.orders[k] = d.orders[k] /\ d.orders[k] \notin F
      BY DEF Less
    <3>2. Open(d, Z, d.orders[k], [kind |-> "order", key |-> k])
      BY <3>1 DEF Good, OrdersOK
    <3> QED
      BY <3>1, <3>2, <1>3 DEF Open
  <2> QED
    BY <2>1, <2>2 DEF OrdersOK
<1>6. ProofsOK(x, Z)
  <2> SUFFICES ASSUME NEW q \in x.proofs
               PROVE  IsP(q) /\ Open(x, Z, q.fd, [kind |-> "prove_order", key |-> q.key])
    BY Zenon DEF ProofsOK, Less
  <2>1. PICK p \in d.proofs : SameP(q, p)
    BY DEF Less
  <2>2. q.fd \notin F /\ IsP(q)
    BY DEF Less
  <2>3. Open(d, Z, p.fd, [kind |-> "prove_order", key |-> p.key])
    BY DEF Good, ProofsOK
  <2> QED
    BY <2>1, <2>2, <2>3, <1>3 DEF Open, SameP
<1>7. Needs(x, A, W)
  <2> SUFFICES ASSUME x.life = "up"
               PROVE  /\ \A m \in x.multi : m.fd \notin W => AwaitsM(m) \in A
                      /\ \A k \in DOMAIN x.orders : x.orders[k] \notin W => <<"order", k>> \in A
                      /\ \A p \in x.proofs : p.fd \notin W =>
                            /\ p.has # {1, 2}
                            /\ \A i \in {1, 2} \ p.has : <<"chain", <<p.key[i]>>>> \in A
    BY DEF Needs
  <2>1. d.life = "up" /\ Needs(d, A, W)
    BY DEF Good, Less
  <2>2. ASSUME NEW m \in x.multi, m.fd \notin W
        PROVE  AwaitsM(m) \in A
    <3>1. PICK n \in d.multi : SameM(m, n)
      BY DEF Less
    <3> QED
      BY <2>1, <2>2, <3>1 DEF Needs, SameM, AwaitsM
  <2>3. ASSUME NEW k \in DOMAIN x.orders, x.orders[k] \notin W
        PROVE  <<"order", k>> \in A
    <3>1. k \in DOMAIN d.orders /\ x.orders[k] = d.orders[k]
      BY DEF Less
    <3> QED
      BY <2>1, <2>3, <3>1 DEF Needs
  <2>4. ASSUME NEW p \in x.proofs, p.fd \notin W
        PROVE  p.has # {1, 2} /\ \A i \in {1, 2} \ p.has : <<"chain", <<p.key[i]>>>> \in A
    <3>1. PICK q \in d.proofs : SameP(p, q)
      BY DEF Less
    <3> QED
      BY <2>1, <2>4, <3>1 DEF Needs, SameP
  <2> QED
    BY <2>2, <2>3, <2>4
<1>8. Holds(x, Z, W)
  <2> SUFFICES ASSUME x.life = "up", NEW fd \in DOMAIN x.conn \ W, ReadFd(fd, Z),
                      want[conn[fd]].kind \in {"bounds", "chain", "prove"}
               PROVE  \E q \in x.multi : q.fd = fd
    BY DEF Holds
  <2>1. PICK m \in d.multi : m.fd = fd
    BY <1>3 DEF Good, Less, Holds
  <2> QED
    BY <2>1, <1>3 DEF Less
<1> QED
  BY <1>1, <1>2, <1>4, <1>5, <1>6, <1>7, <1>8 DEF Good, Less

\* Closing F makes d less by F.
LEMMA CloseLess ==
    ASSUME NEW d, IsD(d), d.life \in {"up", "stopped", "dead"}, NEW Z, MultiOK(d, Z), ProofsOK(d, Z), NEW F
    PROVE  Less(Close(d, F), d, F)
<1> DEFINE x == Close(d, F)
           M == Off(d.multi, F)
           P == Off(d.proofs, F)
<1>1. /\ IsD(x) /\ x.life = d.life /\ x.disc = d.disc
      /\ x.conn = [y \in DOMAIN d.conn \ F |-> d.conn[y]]
      /\ x.multi = Numbered(M) /\ x.proofs = Numbered(P)
      /\ x.orders = [k \in {k \in DOMAIN d.orders : d.orders[k] \notin F} |-> d.orders[k]]
  BY CloseFields
<1>2. /\ \A q \in Numbered(M) : IsM(q) /\ \E m \in M : SameM(q, m)
      /\ \A m \in M : \E q \in Numbered(M) : SameM(q, m)
  <2>1. \A m \in M : IsM(m)
    BY Zenon DEF MultiOK, Off
  <2> HIDE DEF M
  <2> QED
    BY <2>1, NumberedM
<1>3. /\ \A q \in Numbered(P) : IsP(q) /\ \E p \in P : SameP(q, p)
      /\ \A p, q \in Numbered(P) : q.fd = p.fd => q = p
  <2>1. \A p, q \in P : IsP(p) /\ (q.fd = p.fd => q = p)
    BY Zenon DEF ProofsOK, Off
  <2> HIDE DEF P
  <2> QED
    BY <2>1, NumberedP
<1> HIDE DEF x
<1>4. \A q \in x.multi : IsM(q) /\ q.fd \notin F /\ \E m \in d.multi : SameM(q, m)
  BY <1>1, <1>2 DEF SameM, Off
<1>5. \A m \in d.multi : m.fd \notin F => \E q \in x.multi : q.fd = m.fd
  BY <1>1, <1>2 DEF SameM, Off
<1>6. \A q \in x.proofs : IsP(q) /\ q.fd \notin F /\ \E p \in d.proofs : SameP(q, p)
  BY <1>1, <1>3 DEF SameP, Off
<1>7. \A p, q \in x.proofs : q.fd = p.fd => q = p
  BY <1>1, <1>3
<1>8. /\ x.orders = [k \in DOMAIN x.orders |-> d.orders[k]]
      /\ DOMAIN x.orders \subseteq DOMAIN d.orders
      /\ \A k \in DOMAIN x.orders : d.orders[k] \notin F
  BY <1>1
<1>9. Less(x, d, F)
  BY <1>1, <1>4, <1>5, <1>6, <1>7, <1>8, Zenon DEF Less
<1> QED
  BY <1>9 DEF x

LEMMA SelfLess ==
    ASSUME NEW d, NEW Z, NEW A, NEW W, Good(d, Z, A, W)
    PROVE  Less(d, d, {})
<1>1. IsD(d) /\ d.life \in {"up", "stopped", "dead"}
  BY DEF Good
<1>2. d.conn = [y \in DOMAIN d.conn \ {} |-> d.conn[y]]
  BY DEF Good, ConnOK
<1>3. /\ \A q \in d.multi : IsM(q) /\ \E m \in d.multi : SameM(q, m)
      /\ \A m \in d.multi : \E q \in d.multi : q.fd = m.fd
  BY Zenon DEF Good, MultiOK, SameM
<1>4. d.orders = [k \in DOMAIN d.orders |-> d.orders[k]]
  BY DEF Good, OrdersOK, IsFun
<1>5. /\ \A q \in d.proofs : IsP(q) /\ \E p \in d.proofs : SameP(q, p)
      /\ \A p, q \in d.proofs : q.fd = p.fd => q = p
  BY Zenon DEF Good, ProofsOK, SameP
<1> QED
  BY <1>1, <1>2, <1>3, <1>4, <1>5 DEF Less

LEMMA DeadFields ==
    ASSUME NEW d, IsD(d)
    PROVE  Dead(d) = [life |-> "dead", got |-> d.got, conn |-> d.conn, multi |-> d.multi,
                      orders |-> d.orders, proofs |-> d.proofs, disc |-> d.disc]
  BY DEF IsD, Dead

LEMMA DeadLess ==
    ASSUME NEW d, NEW F, NEW x, Less(x, d, F)
    PROVE  Less(Dead(x), d, F) /\ Dead(x).got = x.got /\ Dead(x).conn = x.conn
<1> DEFINE y == Dead(x)
<1>1. y = [life |-> "dead", got |-> x.got, conn |-> x.conn, multi |-> x.multi,
           orders |-> x.orders, proofs |-> x.proofs, disc |-> x.disc]
  BY DeadFields, Zenon DEF Less
<1> HIDE DEF y
<1>2. /\ IsD(y) /\ y.life = "dead" /\ y.got = x.got /\ y.conn = x.conn /\ y.multi = x.multi
      /\ y.orders = x.orders /\ y.proofs = x.proofs /\ y.disc = x.disc
  BY <1>1 DEF IsD
<1>3. Less(y, d, F)
  BY <1>2 DEF Less
<1> QED
  BY <1>2, <1>3 DEF y

LEMMA DeadGood ==
    ASSUME NEW d, NEW Z, NEW A, NEW W, Good(d, Z, A, W)
    PROVE  \A B, V : Good(Dead(d), Z, B, V)
<1> TAKE B, V
<1> DEFINE y == Dead(d)
<1>1. y = [life |-> "dead", got |-> d.got, conn |-> d.conn, multi |-> d.multi,
           orders |-> d.orders, proofs |-> d.proofs, disc |-> d.disc]
  BY DeadFields DEF Good
<1> HIDE DEF y
<1>2. /\ IsD(y) /\ y.life = "dead" /\ y.got = d.got /\ y.conn = d.conn /\ y.multi = d.multi
      /\ y.orders = d.orders /\ y.proofs = d.proofs /\ y.disc = d.disc
  BY <1>1 DEF IsD
<1>3. ConnOK(y, Z) /\ GotOK(y) /\ DiscOK(y)
  BY <1>2, Parts, KeepConn DEF DiscOK
<1>4. MultiOK(y, Z) /\ OrdersOK(y, Z) /\ ProofsOK(y, Z)
  BY <1>2, Parts, KeepMulti, KeepOrders, KeepProofs, Zenon
<1>5. Needs(y, B, V) /\ Holds(y, Z, V)
  BY <1>2 DEF Needs, Holds
<1>6. Good(y, Z, B, V)
  BY <1>2, <1>3, <1>4, <1>5 DEF Good
<1> QED
  BY <1>6 DEF y

\* A record that differs from d in got only.
LEMMA WrittenLess ==
    ASSUME NEW d, IsD(d), NEW rs
    PROVE  /\ Written(d, rs).got = d.got \cup {[client |-> d.conn[r.fd], request |-> r.request] : r \in rs}
           /\ IsD(Written(d, rs))
           /\ \A x, F : Less(x, Written(d, rs), F) => Less(x, d, F)
           /\ \A Z : /\ MultiOK(d, Z) => MultiOK(Written(d, rs), Z)
                     /\ ProofsOK(d, Z) => ProofsOK(Written(d, rs), Z)
           /\ Written(d, rs).life = d.life
<1> DEFINE w == Written(d, rs)
           g == d.got \cup {[client |-> d.conn[r.fd], request |-> r.request] : r \in rs}
<1>1. w = [d EXCEPT !.got = g]
  BY DEF Written
<1> HIDE DEF w, g
<1>2. w = [life |-> d.life, got |-> g, conn |-> d.conn, multi |-> d.multi, orders |-> d.orders,
           proofs |-> d.proofs, disc |-> d.disc]
  BY <1>1 DEF IsD
<1>3. /\ IsD(w) /\ w.life = d.life /\ w.got = g /\ w.conn = d.conn /\ w.multi = d.multi
      /\ w.orders = d.orders /\ w.proofs = d.proofs /\ w.disc = d.disc
  BY <1>2 DEF IsD
<1>4. \A x, F : Less(x, w, F) => Less(x, d, F)
  BY <1>3 DEF Less
<1>5. \A Z : (MultiOK(d, Z) => MultiOK(w, Z)) /\ (ProofsOK(d, Z) => ProofsOK(w, Z))
  BY <1>3 DEF MultiOK, ProofsOK, Open
<1> QED
  BY <1>3, <1>4, <1>5 DEF w, g

\* The replies rs answer the requests of their clients.
Fit(d, Z, rs) ==
    \A r \in rs : r.fd \in DOMAIN d.conn => ReadFd(r.fd, Z) /\ r.request = want[conn[r.fd]]

\* What respond makes of a good record is good, and while the process lives every
\* descriptor that was answered is closed.
LEMMA RespondGood ==
    ASSUME NEW d, NEW Z, NEW A, NEW W, Good(d, Z, A, W), NEW rs, Fit(d, Z, rs)
    PROVE  /\ Good(Respond(d, rs), Z, A, W)
           /\ \E F \in SUBSET {r.fd : r \in rs} : Less(Respond(d, rs), d, F)
           /\ Respond(d, rs).life = "up" => \A r \in rs : r.fd \notin DOMAIN Respond(d, rs).conn
<1> DEFINE open == {r \in rs : r.fd \in DOMAIN d.conn}
           hung == {r \in open : d.conn[r.fd] \in gone}
           done == {r \in open \ hung : \A h \in hung : r.at < h.at}
           F == {r.fd : r \in done}
           w == Written(d, done)
           x == Close(w, F)
<1>1. Respond(d, rs) = IF d.life # "up" THEN d ELSE IF hung = {} THEN x ELSE Dead(x)
  BY DEF Respond
<1>2. CASE d.life # "up"
  <2>1. Respond(d, rs) = d
    BY <1>1, <1>2
  <2> QED
    BY <2>1, <1>2, SelfLess
<1>3. CASE d.life = "up"
  <2>1. \A r \in done : r.fd \in DOMAIN d.conn /\ d.conn[r.fd] \notin gone /\ r \in rs
    OBVIOUS
  <2>2. hung = {} => done = open
    BY Zenon
  <2> HIDE DEF hung, done
  <2>3. /\ IsD(w) /\ MultiOK(w, Z) /\ ProofsOK(w, Z) /\ w.life = "up"
        /\ w.got = d.got \cup {[client |-> d.conn[r.fd], request |-> r.request] : r \in done}
        /\ \A y, G : Less(y, w, G) => Less(y, d, G)
    BY <1>3, WrittenLess DEF Good
  <2> HIDE DEF w
  <2>4. Less(x, w, F) /\ x.got = w.got
    BY <2>3, CloseLess, CloseFields, Zenon
  <2>5. Less(x, d, F)
    BY <2>3, <2>4, Zenon
  <2> HIDE DEF x
  <2>6. DOMAIN x.conn = DOMAIN d.conn \ F
    BY <2>5 DEF Less
  <2>7. \A fd \in DOMAIN d.conn : fd \in DOMAIN conn /\ d.conn[fd] = conn[fd]
    BY DEF Good, ConnOK
  <2>8. GotOK(x)
    <3> SUFFICES ASSUME NEW g \in x.got, g \notin got
                 PROVE  \E fd \in DOMAIN conn \ DOMAIN x.conn :
                            g = [client |-> conn[fd], request |-> want[conn[fd]]]
      BY DEF GotOK
    <3>1. CASE g \in d.got
      BY <3>1, <2>6 DEF Good, GotOK
    <3>2. CASE g \notin d.got
      <4>1. PICK r \in done : g = [client |-> d.conn[r.fd], request |-> r.request]
        BY <2>3, <2>4, <3>2
      <4>2. r.fd \in DOMAIN d.conn /\ r \in rs
        BY <2>1
      <4>3. g = [client |-> conn[r.fd], request |-> want[conn[r.fd]]] /\ r.fd \in DOMAIN conn
        BY <4>1, <4>2, <2>7 DEF Fit
      <4> QED
        BY <4>3, <2>6
    <3> QED
      BY <3>1, <3>2
  <2>9. \A fd \in F : fd \in Z \/ (phase[conn[fd]] = "read" /\ conn[fd] \notin gone)
    BY <2>1, <2>7 DEF Fit, ReadFd
  <2>10. F \in SUBSET {r.fd : r \in rs}
    BY <2>1
  <2>11. hung = {} => \A r \in rs : r.fd \notin DOMAIN x.conn
    BY <2>2, <2>6
  <2> HIDE DEF F
  <2>12. Good(x, Z, A, W)
    BY <2>5, <2>8, <2>9, LessGood
  <2>13. Good(Dead(x), Z, A, W) /\ Less(Dead(x), d, F) /\ Dead(x).life = "dead"
    <3>1. Good(Dead(x), Z, A, W) /\ Less(Dead(x), d, F)
      BY <2>5, <2>12, DeadGood, DeadLess
    <3>2. Dead(x).life = "dead"
      BY <2>12, DeadFields DEF Good
    <3> QED
      BY <3>1, <3>2
  <2>14. CASE hung = {}
    <3>1. Respond(d, rs) = x
      BY <1>1, <1>3, <2>14
    <3> QED
      BY <3>1, <2>5, <2>10, <2>11, <2>12, <2>14
  <2>15. CASE hung # {}
    <3>1. Respond(d, rs) = Dead(x)
      BY <1>1, <1>3, <2>15
    <3> QED
      BY <3>1, <2>10, <2>13
  <2> QED
    BY <2>14, <2>15
<1> QED
  BY <1>2, <1>3

-----------------------------------------------------------------------------
(* The callbacks. *)

LEMMA WithMulti ==
    ASSUME NEW d, IsD(d), NEW v, NEW x, x = [d EXCEPT !.multi = v]
    PROVE  /\ IsD(x) /\ x.life = d.life /\ x.got = d.got /\ x.conn = d.conn /\ x.multi = v
           /\ x.orders = d.orders /\ x.proofs = d.proofs /\ x.disc = d.disc
<1>1. x = [life |-> d.life, got |-> d.got, conn |-> d.conn, multi |-> v, orders |-> d.orders,
           proofs |-> d.proofs, disc |-> d.disc]
  BY DEF IsD
<1> QED
  BY <1>1 DEF IsD

LEMMA WithOrders ==
    ASSUME NEW d, IsD(d), NEW v, NEW x, x = [d EXCEPT !.orders = v]
    PROVE  /\ IsD(x) /\ x.life = d.life /\ x.got = d.got /\ x.conn = d.conn /\ x.multi = d.multi
           /\ x.orders = v /\ x.proofs = d.proofs /\ x.disc = d.disc
<1>1. x = [life |-> d.life, got |-> d.got, conn |-> d.conn, multi |-> d.multi, orders |-> v,
           proofs |-> d.proofs, disc |-> d.disc]
  BY DEF IsD
<1> QED
  BY <1>1 DEF IsD

LEMMA WithProofs ==
    ASSUME NEW d, IsD(d), NEW v, NEW x, x = [d EXCEPT !.proofs = v]
    PROVE  /\ IsD(x) /\ x.life = d.life /\ x.got = d.got /\ x.conn = d.conn /\ x.multi = d.multi
           /\ x.orders = d.orders /\ x.proofs = v /\ x.disc = d.disc
<1>1. x = [life |-> d.life, got |-> d.got, conn |-> d.conn, multi |-> d.multi, orders |-> d.orders,
           proofs |-> v, disc |-> d.disc]
  BY DEF IsD
<1> QED
  BY <1>1 DEF IsD

LEMMA WithDisc ==
    ASSUME NEW d, IsD(d), NEW v, NEW x, x = [d EXCEPT !.disc = v]
    PROVE  /\ IsD(x) /\ x.life = d.life /\ x.got = d.got /\ x.conn = d.conn /\ x.multi = d.multi
           /\ x.orders = d.orders /\ x.proofs = d.proofs /\ x.disc = v
<1>1. x = [life |-> d.life, got |-> d.got, conn |-> d.conn, multi |-> d.multi, orders |-> d.orders,
           proofs |-> d.proofs, disc |-> v]
  BY DEF IsD
<1> QED
  BY <1>1 DEF IsD

\* No entry waits in the table t under the key.
NoneM(d, t, key) == d.life = "up" => \A m \in d.multi : ~(m.table = t /\ m.key = key)

\* x has no entry that d did not have.
Fewer(x, d) ==
    /\ x.disc = d.disc
    /\ x.life = "up" => d.life = "up"
    /\ \A t, key : NoneM(d, t, key) => NoneM(x, t, key)

LEMMA LessDisc ==
    ASSUME NEW x, NEW d, NEW F, Less(x, d, F)
    PROVE  x.disc = d.disc
  BY DEF Less

LEMMA LessFewer ==
    ASSUME NEW d, NEW x, NEW F, Less(x, d, F)
    PROVE  Fewer(x, d)
  BY DEF Less, Fewer, NoneM, SameM

LEMMA FewerTransitive ==
    ASSUME NEW d, NEW x, NEW y, Fewer(x, d), Fewer(y, x)
    PROVE  Fewer(y, d)
  BY DEF Fewer

LEMMA DeadFewer ==
    ASSUME NEW d, NEW x, Fewer(x, d), IsD(x)
    PROVE  Fewer(Dead(x), d) /\ Dead(x).life = "dead"
  BY DeadFields DEF Fewer, NoneM

\* answer and abort_pending leave nothing under their key.
LEMMA AnswerGood ==
    ASSUME NEW d, NEW Z, NEW A, NEW W, Good(d, Z, A, W), NEW t, NEW key, NEW x \in Answer(d, t, key)
    PROVE  Good(x, Z, A, W) /\ Fewer(x, d) /\ NoneM(x, t, key)
<1> DEFINE here == {m \in d.multi : m.table = t /\ m.key = key}
           Re(S) == {Reply(m.fd, t, key, m.at) : m \in S}
           Sent(S) == Respond(d, Re(S))
           Other(s) == {m \in s.multi : ~(m.table = t /\ m.key = key)}
<1>1. \/ x = [Sent(here) EXCEPT !.multi = Numbered(Other(Sent(here)))]
      \/ \E n \in here : x = Dead(Sent({m \in here : m.at <= n.at}))
  BY DEF Answer
<1>2. ASSUME NEW S \in SUBSET here
      PROVE  /\ Good(Sent(S), Z, A, W) /\ Fewer(Sent(S), d)
             /\ \A q \in Sent(S).multi : \E m \in d.multi : SameM(q, m)
             /\ Sent(S).life = "up" => \A m \in S : m.fd \notin DOMAIN Sent(S).conn
  <2>1. \A r \in Re(S) : \E m \in S : r.fd = m.fd /\ r.request = [kind |-> t, key |-> key]
    BY DEF Reply
  <2>2. \A m \in S : \E r \in Re(S) : r.fd = m.fd
    <3> SUFFICES ASSUME NEW m \in S
                 PROVE  \E r \in Re(S) : r.fd = m.fd
      OBVIOUS
    <3>1. Reply(m.fd, t, key, m.at) \in Re(S)
      OBVIOUS
    <3>2. Reply(m.fd, t, key, m.at).fd = m.fd
      BY Zenon DEF Reply
    <3> QED
      BY <3>1, <3>2
  <2>3. \A m \in S : Open(d, Z, m.fd, [kind |-> t, key |-> key])
    BY DEF Good, MultiOK
  <2>4. Fit(d, Z, Re(S))
    BY <2>1, <2>3, Zenon DEF Fit, Open
  <2> HIDE DEF Re
  <2>5. /\ Good(Sent(S), Z, A, W)
        /\ \E F : Less(Sent(S), d, F)
        /\ Sent(S).life = "up" => \A r \in Re(S) : r.fd \notin DOMAIN Sent(S).conn
    BY <2>4, RespondGood, Zenon
  <2> HIDE DEF Sent
  <2>6. \A q \in Sent(S).multi : \E m \in d.multi : SameM(q, m)
    BY <2>5 DEF Less
  <2> QED
    BY <2>2, <2>5, <2>6, LessFewer, Zenon
<1> HIDE DEF Sent
<1>3. ASSUME x = [Sent(here) EXCEPT !.multi = Numbered(Other(Sent(here)))]
      PROVE  Good(x, Z, A, W) /\ Fewer(x, d) /\ NoneM(x, t, key)
  <2> DEFINE s == Sent(here)
             N == Other(s)
  <2>1. /\ Good(s, Z, A, W) /\ Fewer(s, d)
        /\ \A q \in s.multi : \E m \in d.multi : SameM(q, m)
        /\ s.life = "up" => \A m \in here : m.fd \notin DOMAIN s.conn
    BY <1>2, Zenon
  <2>2. x = [s EXCEPT !.multi = Numbered(N)]
    BY <1>3
  <2>3. N = {m \in s.multi : ~(m.table = t /\ m.key = key)}
    OBVIOUS
  <2> HIDE DEF s, N
  <2>4. s.life = "up" => N = s.multi
    <3> SUFFICES ASSUME s.life = "up", NEW m \in s.multi, m.table = t, m.key = key
                 PROVE  FALSE
      BY <2>3
    <3>1. PICK n \in d.multi : SameM(m, n)
      BY <2>1
    <3>2. n \in here /\ m.fd = n.fd
      BY <3>1 DEF SameM
    <3>3. m.fd \in DOMAIN s.conn
      BY <2>1, Zenon DEF Good, MultiOK, Open
    <3> QED
      BY <2>1, <3>2, <3>3
  <2>5. \A m \in N : IsM(m) /\ m \in s.multi
    BY <2>1, <2>3, Zenon DEF Good, MultiOK
  <2>6. /\ \A q \in Numbered(N) : IsM(q) /\ \E m \in N : SameM(q, m)
        /\ \A m \in N : \E q \in Numbered(N) : SameM(q, m)
    BY <2>5, NumberedM
  <2>7. /\ IsD(x) /\ x.life = s.life /\ x.got = s.got /\ x.conn = s.conn /\ x.multi = Numbered(N)
        /\ x.orders = s.orders /\ x.proofs = s.proofs /\ x.disc = s.disc
    BY <2>1, <2>2, WithMulti DEF Good
  <2>8. Less(x, s, {})
    <3>1. Less(s, s, {})
      BY <2>1, SelfLess
    <3>2. \A q \in x.multi : IsM(q) /\ q.fd \notin {} /\ \E m \in s.multi : SameM(q, m)
      BY <2>5, <2>6, <2>7
    <3>3. x.life = "up" => \A m \in s.multi : \E q \in x.multi : q.fd = m.fd
      BY <2>4, <2>6, <2>7, Zenon DEF SameM
    <3> QED
      BY <2>7, <3>1, <3>2, <3>3 DEF Less
  <2>9. GotOK(x)
    BY <2>1, <2>7, Zenon DEF Good, GotOK
  <2>10. Good(x, Z, A, W)
    BY <2>1, <2>8, <2>9, LessGood
  <2>11. Fewer(x, d)
    BY <2>1, <2>8, LessFewer, FewerTransitive
  <2>12. NoneM(x, t, key)
    BY <2>3, <2>6, <2>7 DEF NoneM, SameM
  <2> QED
    BY <2>10, <2>11, <2>12
<1>4. ASSUME NEW n \in here, x = Dead(Sent({m \in here : m.at <= n.at}))
      PROVE  Good(x, Z, A, W) /\ Fewer(x, d) /\ NoneM(x, t, key)
  <2> DEFINE s == Sent({m \in here : m.at <= n.at})
  <2>1. Good(s, Z, A, W) /\ Fewer(s, d) /\ x = Dead(s)
    BY <1>2, <1>4, Zenon
  <2> HIDE DEF s
  <2> QED
    BY <2>1, DeadGood, DeadFewer, Zenon DEF Good, NoneM
<1> QED
  BY <1>1, <1>3, <1>4, Zenon

\* A discovery no entry waits for need not be running.
LEMMA NotNeeded ==
    ASSUME NEW d, NEW Z, NEW A, NEW W, Good(d, Z, A, W), NEW k,
           d.life = "up" =>
              /\ \A m \in d.multi : AwaitsM(m) # k
              /\ \A j \in DOMAIN d.orders : <<"order", j>> # k
              /\ \A p \in d.proofs : \A i \in {1, 2} \ p.has : <<"chain", <<p.key[i]>>>> # k
    PROVE  Good(d, Z, A \ {k}, W)
<1>1. Needs(d, A \ {k}, W)
  BY DEF Good, Needs
<1> QED
  BY <1>1, Zenon DEF Good

LEMMA AnswerOrderGood ==
    ASSUME NEW d, NEW Z, NEW A, NEW W, Good(d, Z, A, W), NEW key, NEW x \in AnswerOrder(d, key)
    PROVE  Good(x, Z, A \ {<<"order", key>>}, W) /\ x.disc = d.disc
<1> DEFINE k == <<"order", key>>
<1>1. ASSUME NEW y, Good(y, Z, A, W), y.life = "up" => key \notin DOMAIN y.orders
      PROVE  Good(y, Z, A \ {k}, W)
  <2>1. \A m \in y.multi : AwaitsM(m) # k
    BY <1>1, Zenon DEF Good, MultiOK, AwaitsM
  <2>2. y.life = "up" => \A j \in DOMAIN y.orders : <<"order", j>> # k
    BY <1>1
  <2>3. \A p \in y.proofs : \A i \in {1, 2} \ p.has : <<"chain", <<p.key[i]>>>> # k
    OBVIOUS
  <2> HIDE DEF k
  <2> QED
    BY <1>1, <2>1, <2>2, <2>3, NotNeeded
<1>2. CASE key \notin DOMAIN d.orders
  <2>1. x = d
    BY <1>2 DEF AnswerOrder
  <2> QED
    BY <2>1, <1>1, <1>2, Zenon
<1>3. CASE key \in DOMAIN d.orders
  <2> DEFINE rs == {Reply(d.orders[key], "order", key, 1)}
             next == Respond(d, rs)
  <2>1. x = next \/ x = Dead(next)
    BY <1>3 DEF AnswerOrder, RespondOne
  <2>2. \A r \in rs : r.fd = d.orders[key] /\ r.request = [kind |-> "order", key |-> key]
    BY DEF Reply
  <2>3. Open(d, Z, d.orders[key], [kind |-> "order", key |-> key])
    BY <1>3, Zenon DEF Good, OrdersOK
  <2>4. Fit(d, Z, rs)
    BY <2>2, <2>3 DEF Fit, Open
  <2>5. \E r \in rs : r.fd = d.orders[key]
    BY <2>2, Zenon
  <2> HIDE DEF rs
  <2>6. /\ Good(next, Z, A, W)
        /\ \E F : Less(next, d, F)
        /\ next.life = "up" => \A r \in rs : r.fd \notin DOMAIN next.conn
    BY <2>4, RespondGood, Zenon
  <2> HIDE DEF next
  <2>7. next.life = "up" => key \notin DOMAIN next.orders
    <3> SUFFICES ASSUME next.life = "up", key \in DOMAIN next.orders
                 PROVE  FALSE
      BY Zenon
    <3>1. next.orders[key] = d.orders[key]
      BY <2>6 DEF Less
    <3>2. next.orders[key] \in DOMAIN next.conn
      BY <2>6, Zenon DEF Good, OrdersOK, Open
    <3> QED
      BY <2>5, <2>6, <3>1, <3>2
  <2>8. Good(next, Z, A \ {k}, W)
    BY <2>6, <2>7, <1>1, ZenonT(30)
  <2>9. next.disc = d.disc /\ Dead(next).disc = next.disc
    BY <2>6, DeadFields, LessDisc, Parts
  <2> HIDE DEF k
  <2>10. Good(Dead(next), Z, A \ {k}, W)
    BY <2>8, DeadGood
  <2> QED
    BY <2>1, <2>8, <2>9, <2>10 DEF k
<1> QED
  BY <1>2, <1>3
-----------------------------------------------------------------------------

LEMMA WithHas ==
    ASSUME NEW p, IsP(p), NEW v
    PROVE  /\ IsP([p EXCEPT !.has = v]) /\ [p EXCEPT !.has = v].fd = p.fd
           /\ [p EXCEPT !.has = v].key = p.key /\ [p EXCEPT !.has = v].has = v
<1>1. [p EXCEPT !.has = v] = [fd |-> p.fd, key |-> p.key, has |-> v, at |-> p.at]
  BY DEF IsP
<1> QED
  BY <1>1 DEF IsP

\* Once the discovery of e has ended, an order proof that is not due does not wait for it.
LEMMA NotDue ==
    ASSUME NEW p, NEW e, NEW outcome \in Outcomes, ~Due(p, e, outcome), p.has # {1, 2},
           NEW h, h = Has(p, e, outcome)
    PROVE  h # {1, 2} /\ \A i \in {1, 2} \ h : i \notin p.has /\ <<p.key[i]>> # e
<1>1. CASE outcome = "completed"
  BY <1>1 DEF Due, Has
<1>2. CASE outcome = "aborted"
  <2>1. e # <<p.key[1]>> /\ e # <<p.key[2]>>
    BY <1>2 DEF Due
  <2>2. h = p.has
    BY <1>2 DEF Has
  <2> QED
    BY <2>1, <2>2
<1> QED
  BY <1>1, <1>2 DEF Outcomes

\* finish_order_proof and abort_order_proof: what is kept does not wait for the discovery
\* of e, once the two multimaps have nothing under it either.
LEMMA AnswerProofsGood ==
    ASSUME NEW d, NEW Z, NEW A, NEW W, Good(d, Z, A, W), NEW e, NEW outcome \in Outcomes,
           NoneM(d, "chain", e), NoneM(d, "prove", e), NEW x \in AnswerProofs(d, e, outcome)
    PROVE  Good(x, Z, A \ {<<"chain", e>>}, W) /\ x.disc = d.disc
<1> DEFINE k == <<"chain", e>>
           seen == Visited(d.proofs, e, outcome)
           due == {p \in seen : Due(p, e, outcome)}
           kept == seen \ due
           rs == {Reply(p.fd, "prove_order", p.key, p.at) : p \in due}
           next == Respond(d, rs)
           H(p) == [p EXCEPT !.has = Has(p, e, outcome)]
           rest == {H(p) : p \in kept}
           Left(ps) == [next EXCEPT !.proofs = Numbered(ps)]
<1>1. CASE d.life # "up"
  <2>1. x = d
    BY <1>1 DEF AnswerProofs
  <2>2. Good(d, Z, A \ {k}, W)
    BY <1>1, NotNeeded, Zenon
  <2> QED
    BY <2>1, <2>2
<1>2. CASE d.life = "up"
  <2>1. PICK R \in SUBSET rest : x = Left(R) \/ x = Dead(Left(R))
    <3> DEFINE short == {p \in rest : \E q \in rest : p.at < q.at}
    <3>1. short \in SUBSET rest /\ rest \in SUBSET rest
      OBVIOUS
    <3>2. x = Left(rest) \/ x = Left(short) \/ x = Dead(Left(rest))
      BY <1>2, Zenon DEF AnswerProofs
    <3> QED
      BY <3>1, <3>2, Zenon
  <2> DEFINE left == Left(R)
  <2>2. /\ \A p \in due : p \in d.proofs
        /\ \A p \in kept : p \in d.proofs /\ p \notin due /\ ~Due(p, e, outcome)
    BY DEF Visited
  <2> HIDE DEF due, kept
  <2>3. \A p \in d.proofs : /\ IsP(p) /\ Open(d, Z, p.fd, [kind |-> "prove_order", key |-> p.key])
                            /\ \A q \in d.proofs : q.fd = p.fd => q = p
    BY Zenon DEF Good, ProofsOK
  <2>4. \A r \in rs : \E p \in due : r.fd = p.fd /\ r.request = [kind |-> "prove_order", key |-> p.key]
    BY DEF Reply
  <2> HIDE DEF rs
  <2>5. Fit(d, Z, rs)
    <3> SUFFICES ASSUME NEW r \in rs
                 PROVE  ReadFd(r.fd, Z) /\ r.request = want[conn[r.fd]]
      BY DEF Fit
    <3>1. PICK p \in due : r.fd = p.fd /\ r.request = [kind |-> "prove_order", key |-> p.key]
      BY <2>4, Zenon
    <3>2. Open(d, Z, p.fd, [kind |-> "prove_order", key |-> p.key])
      BY <2>2, <2>3
    <3> QED
      BY <3>1, <3>2, Zenon DEF Open
  <2>6. Good(next, Z, A, W) /\ \E F \in SUBSET {r.fd : r \in rs} : Less(next, d, F)
    BY <2>5, RespondGood, Zenon
  <2> HIDE DEF next
  <2>7. PICK F \in SUBSET {r.fd : r \in rs} : Less(next, d, F)
    BY <2>6
  <2>8. \A p \in kept : p.fd \in DOMAIN next.conn
    <3> SUFFICES ASSUME NEW p \in kept, p.fd \in F
                 PROVE  FALSE
      BY <2>2, <2>3, <2>7, Zenon DEF Less, Open
    <3>1. PICK r \in rs : r.fd = p.fd
      BY <2>7
    <3>2. PICK q \in due : q.fd = p.fd
      BY <3>1, <2>4, Zenon
    <3> QED
      BY <3>2, <2>2, <2>3, Zenon
  <2>9. \A p \in kept : /\ IsP(H(p)) /\ H(p).fd = p.fd /\ H(p).key = p.key
                        /\ H(p).has = Has(p, e, outcome)
    BY <2>2, <2>3, WithHas, Zenon
  <2> HIDE DEF H
  <2>10. \A p, q \in rest : IsP(p) /\ (q.fd = p.fd => q = p)
    <3> SUFFICES ASSUME NEW a \in kept, NEW b \in kept
                 PROVE  IsP(H(a)) /\ (H(b).fd = H(a).fd => H(b) = H(a))
      BY Zenon
    <3> QED
      BY <2>2, <2>3, <2>9, Zenon
  <2>11. \A r \in rest : \E p \in kept : r.fd = p.fd /\ r.key = p.key /\ r.has = Has(p, e, outcome)
    BY <2>9
  <2> HIDE DEF rest
  <2>12. /\ \A q \in Numbered(R) : IsP(q) /\ \E r \in R : SameP(q, r)
         /\ \A p, q \in Numbered(R) : q.fd = p.fd => q = p
    <3>1. \A p, q \in R : IsP(p) /\ (q.fd = p.fd => q = p)
      BY <2>10, Zenon
    <3> QED
      BY <3>1, NumberedP, Zenon
  <2>13. \A q \in Numbered(R) :
            \E p \in kept : q.fd = p.fd /\ q.key = p.key /\ q.has = Has(p, e, outcome)
    BY <2>11, <2>12 DEF SameP
  <2>14. /\ IsD(left) /\ left.life = next.life /\ left.got = next.got /\ left.conn = next.conn
         /\ left.multi = next.multi /\ left.orders = next.orders
         /\ left.proofs = Numbered(R) /\ left.disc = next.disc
    BY <2>6, WithProofs DEF Good
  <2>23. x = left \/ x = Dead(left)
    BY <2>1, Zenon
  <2> HIDE DEF left
  <2>15. ConnOK(left, Z) /\ GotOK(left) /\ DiscOK(left)
    BY <2>6, <2>14, Parts, KeepConn, Zenon DEF DiscOK
  <2>16. MultiOK(left, Z) /\ OrdersOK(left, Z)
    BY <2>6, <2>14, Parts, KeepMulti, KeepOrders, Zenon
  <2>17. ProofsOK(left, Z)
    <3> SUFFICES ASSUME NEW q \in Numbered(R)
                 PROVE  Open(left, Z, q.fd, [kind |-> "prove_order", key |-> q.key])
      BY <2>12, <2>14, Zenon DEF ProofsOK
    <3>1. PICK p \in kept : q.fd = p.fd /\ q.key = p.key
      BY SMTT(30), <2>13
    <3>2. Open(d, Z, p.fd, [kind |-> "prove_order", key |-> p.key]) /\ p.fd \in DOMAIN next.conn
      BY <2>2, <2>3, <2>8, Zenon
    <3> QED
      BY <3>1, <3>2, <2>14 DEF Open
  <2>18. Needs(left, A \ {k}, W)
    <3> SUFFICES ASSUME left.life = "up"
                 PROVE  /\ \A m \in left.multi : m.fd \notin W => AwaitsM(m) \in A \ {k}
                        /\ \A j \in DOMAIN left.orders :
                              left.orders[j] \notin W => <<"order", j>> \in A \ {k}
                        /\ \A p \in left.proofs : p.fd \notin W =>
                              /\ p.has # {1, 2}
                              /\ \A i \in {1, 2} \ p.has : <<"chain", <<p.key[i]>>>> \in A \ {k}
      BY DEF Needs
    <3>1. Needs(next, A, W) /\ Needs(d, A, W) /\ next.life = "up" /\ Fewer(next, d)
      BY <2>6, <2>7, <2>14, LessFewer, Zenon DEF Good
    <3>2. ASSUME NEW m \in left.multi, m.fd \notin W
          PROVE  AwaitsM(m) \in A \ {k}
      <4>1. AwaitsM(m) \in A
        BY <3>1, <3>2, <2>14, Zenon DEF Needs
      <4>2. NoneM(next, "chain", e) /\ NoneM(next, "prove", e)
        BY <3>1 DEF Fewer
      <4>3. m.table \in {"bounds", "chain", "prove"} /\ m \in next.multi
        BY <2>6, <2>14, Zenon DEF Good, MultiOK
      <4> QED
        BY <3>1, <4>1, <4>2, <4>3 DEF NoneM, AwaitsM
    <3>3. ASSUME NEW j \in DOMAIN left.orders, left.orders[j] \notin W
          PROVE  <<"order", j>> \in A \ {k}
      BY <3>1, <3>3, <2>14 DEF Needs
    <3>4. ASSUME NEW q \in left.proofs, q.fd \notin W
          PROVE  q.has # {1, 2} /\ \A i \in {1, 2} \ q.has : <<"chain", <<q.key[i]>>>> \in A \ {k}
      <4>1. PICK p \in kept : q.fd = p.fd /\ q.key = p.key /\ q.has = Has(p, e, outcome)
        BY <2>13, <2>14
      <4>2. p.has # {1, 2} /\ \A i \in {1, 2} \ p.has : <<"chain", <<p.key[i]>>>> \in A
        <5>1. p \in d.proofs /\ p.fd \notin W
          BY <3>4, <4>1, <2>2, Zenon
        <5> QED
          BY <1>2, <3>1, <5>1, Zenon DEF Needs
      <4>3. q.has # {1, 2} /\ \A i \in {1, 2} \ q.has : i \notin p.has /\ <<p.key[i]>> # e
        BY <4>1, <4>2, <2>2, NotDue
      <4> QED
        BY <4>1, <4>2, <4>3, Zenon
    <3> QED
      BY <3>2, <3>3, <3>4, Zenon
  <2>19. Holds(left, Z, W)
    BY <2>6, <2>14, Zenon DEF Good, Holds
  <2>20. Good(left, Z, A \ {k}, W)
    BY <2>6, <2>14, <2>15, <2>16, <2>17, <2>18, <2>19, Zenon DEF Good
  <2>21. Good(Dead(left), Z, A \ {k}, W)
    BY <2>20, DeadGood, Zenon
  <2>22. left.disc = d.disc /\ Dead(left).disc = d.disc
    BY <2>7, <2>14, DeadFields, LessDisc
  <2> QED
    BY <2>20, <2>21, <2>22, <2>23, Zenon
<1> QED
  BY <1>1, <1>2

\* The callbacks of a discovery leave no entry that waits for it.
LEMMA ToldGood ==
    ASSUME NEW d, NEW Z, NEW A, NEW W, Good(d, Z, A, W), NEW kind \in {"bounds", "order", "chain"},
           NEW key, NEW outcome \in Outcomes, NEW x \in Told(d, kind, key, outcome)
    PROVE  Good(x, Z, A \ {<<kind, key>>}, W) /\ x.disc = d.disc
<1>1. CASE kind = "bounds"
  <2>1. Good(x, Z, A, W) /\ Fewer(x, d) /\ NoneM(x, "bounds", key)
    BY <1>1, AnswerGood, Zenon DEF Told
  <2>2. x.life = "up" => \A m \in x.multi : AwaitsM(m) # <<kind, key>>
    BY <1>1, <2>1 DEF NoneM, AwaitsM
  <2>3. /\ \A j \in DOMAIN x.orders : <<"order", j>> # <<kind, key>>
        /\ \A p \in x.proofs : \A i \in {1, 2} \ p.has : <<"chain", <<p.key[i]>>>> # <<kind, key>>
    BY <1>1
  <2>4. Good(x, Z, A \ {<<kind, key>>}, W)
    BY <2>1, <2>2, <2>3, NotNeeded, Zenon
  <2> QED
    BY <2>1, <2>4 DEF Fewer
<1>2. CASE kind = "order"
  BY <1>2, AnswerOrderGood DEF Told
<1>3. CASE kind = "chain"
  <2>1. PICK d1 \in Answer(d, "chain", key) :
           x \in UNION {AnswerProofs(d2, key, outcome) : d2 \in AnswerSingleProofs(d1, key)}
    BY <1>3 DEF Told
  <2>2. PICK d2 \in Answer(d1, "prove", key) : x \in AnswerProofs(d2, key, outcome)
    BY <2>1 DEF AnswerSingleProofs
  <2>3. Good(d1, Z, A, W) /\ Fewer(d1, d) /\ NoneM(d1, "chain", key)
    BY AnswerGood
  <2>4. Good(d2, Z, A, W) /\ Fewer(d2, d1) /\ NoneM(d2, "prove", key)
    BY <2>3, AnswerGood
  <2>5. NoneM(d2, "chain", key) /\ d2.disc = d.disc
    BY <2>3, <2>4 DEF Fewer
  <2> QED
    BY <1>3, <2>2, <2>4, <2>5, AnswerProofsGood
<1> QED
  BY <1>1, <1>2, <1>3

\* The running discoveries of d; D is the state the handlers begin with.
RunOf(d) == {k \in DOMAIN d.disc : d.disc[k] = "running"}

LEMMA DFields ==
    /\ IsD(D) /\ D.life = life /\ D.got = got /\ D.conn = conn /\ D.multi = multi
    /\ D.orders = orders /\ D.proofs = proofs /\ D.disc = disc
    /\ RunOf(D) = Running
<1>1. /\ IsD(D) /\ D.life = life /\ D.got = got /\ D.conn = conn /\ D.multi = multi
      /\ D.orders = orders /\ D.proofs = proofs /\ D.disc = disc
  BY DEF D, IsD
<1> QED
  BY <1>1, Zenon DEF RunOf, Running

LEMMA Weaken ==
    ASSUME NEW d, NEW Z, NEW A, NEW W, Good(d, Z, A, W), NEW B, NEW V,
           d.life = "up" => A \subseteq B, W \subseteq V
    PROVE  Good(d, Z, B, V)
<1>1. Needs(d, B, V)
  <2>1. Needs(d, A, W)
    BY Parts
  <2> QED
    BY <2>1 DEF Needs
<1>2. Holds(d, Z, V)
  <2>1. Holds(d, Z, W)
    BY Parts
  <2> QED
    BY <2>1, Zenon DEF Holds
<1> QED
  BY <1>1, <1>2, Zenon DEF Good

SetDisc(d, f) == [d EXCEPT !.disc = f]

LEMMA DiscGood ==
    ASSUME NEW d, NEW Z, NEW A, NEW W, Good(d, Z, A, W), NEW f, IsDisc(f),
           NEW x, x = SetDisc(d, f)
    PROVE  Good(x, Z, A, W)
<1>1. /\ IsD(x) /\ x.life = d.life /\ x.got = d.got /\ x.conn = d.conn /\ x.multi = d.multi
      /\ x.orders = d.orders /\ x.proofs = d.proofs /\ x.disc = f
  BY WithDisc DEF Good, SetDisc
<1>2. ConnOK(x, Z) /\ GotOK(x) /\ DiscOK(x)
  BY <1>1, Parts, KeepConn, Zenon DEF DiscOK
<1>3. MultiOK(x, Z) /\ OrdersOK(x, Z) /\ ProofsOK(x, Z)
  BY <1>1, Parts, KeepMulti, KeepOrders, KeepProofs, Zenon
<1>4. Needs(x, A, W)
  <2>1. Needs(d, A, W)
    BY Parts
  <2> QED
    BY <1>1, <2>1, Zenon DEF Needs
<1>5. Holds(x, Z, W)
  <2>1. Holds(d, Z, W)
    BY Parts
  <2> QED
    BY <1>1, <2>1, Zenon DEF Holds
<1> QED
  BY <1>1, <1>2, <1>3, <1>4, <1>5, Parts, Zenon DEF Good

\* The state of a discovery is recorded, which concerns no table.
LEMMA PutGood ==
    ASSUME NEW d, NEW Z, NEW A, NEW W, Good(d, Z, A, W), NEW k \in Discoverable,
           NEW v \in Outcomes \cup {"running"}, NEW x, x = [d EXCEPT !.disc = Put(d.disc, k, v)]
    PROVE  /\ Good(x, Z, A, W) /\ x.life = d.life
           /\ v # "running" => RunOf(x) = RunOf(d) \ {k}
           /\ v = "running" => RunOf(x) = RunOf(d) \cup {k}
<1>1. PICK g : g = Put(d.disc, k, v)
  OBVIOUS
<1>2. /\ IsFun(g) /\ DOMAIN g = DOMAIN d.disc \cup {k}
      /\ g[k] = v /\ \A y \in DOMAIN d.disc : y # k => g[y] = d.disc[y]
  BY <1>1 DEF Put, IsFun
<1>3. IsDisc(g)
  BY <1>2 DEF Good, DiscOK, IsDisc
<1>4. x = SetDisc(d, g)
  BY <1>1 DEF SetDisc
<1>5. Good(x, Z, A, W) /\ x.disc = g /\ x.life = d.life
  <2>1. Good(x, Z, A, W)
    BY <1>3, <1>4, DiscGood
  <2>2. x.disc = g /\ x.life = d.life
    BY <1>4, Zenon DEF SetDisc, Good, IsD
  <2> QED
    BY <2>1, <2>2
<1> QED
  BY <1>2, <1>5 DEF RunOf

\* discover_event_*: afterwards the discovery runs, or nobody waits for it.
LEMMA DiscoverGood ==
    ASSUME NEW d, NEW Z, NEW X, NEW W, Good(d, Z, RunOf(d) \cup X, W),
           NEW kind \in {"bounds", "order", "chain"}, NEW key, <<kind, key>> \in Discoverable,
           NEW x \in Discover(d, kind, key)
    PROVE  Good(x, Z, RunOf(x) \cup (X \ {<<kind, key>>}), W)
<1> DEFINE k == <<kind, key>>
<1>1. CASE d.life # "up"
  <2>1. x = d
    BY <1>1, Zenon DEF Discover
  <2> QED
    BY <1>1, <2>1, Weaken
<1>2. CASE d.life = "up" /\ k \notin DOMAIN d.disc /\ key \in Own
  <2>1. PICK o \in Outcomes : x \in Settled(d, kind, key, o)
    BY <1>2 DEF Discover
  <2> DEFINE s == [d EXCEPT !.disc = Put(d.disc, k, o)]
  <2>2. x \in Told(s, kind, key, o)
    BY <2>1 DEF Settled
  <2>3. o # "running"
    BY DEF Outcomes
  <2>4. Good(s, Z, RunOf(d) \cup X, W) /\ RunOf(s) = RunOf(d) \ {k}
    BY <2>3, PutGood
  <2> HIDE DEF s
  <2>5. Good(x, Z, (RunOf(d) \cup X) \ {k}, W) /\ x.disc = s.disc
    BY <2>2, <2>4, ToldGood
  <2>6. (RunOf(d) \cup X) \ {k} \subseteq RunOf(x) \cup (X \ {k})
    BY <2>4, <2>5, Zenon DEF RunOf
  <2> QED
    BY <2>5, <2>6, Weaken
<1>3. CASE d.life = "up" /\ k \notin DOMAIN d.disc /\ key \notin Own
  <2>1. x = [d EXCEPT !.disc = Put(d.disc, k, "running")]
    BY <1>3 DEF Discover
  <2>2. Good(x, Z, RunOf(d) \cup X, W) /\ RunOf(x) = RunOf(d) \cup {k}
    BY <2>1, PutGood
  <2>3. RunOf(d) \cup X \subseteq RunOf(x) \cup (X \ {k})
    BY <2>2, Zenon
  <2> QED
    BY <2>2, <2>3, Weaken
<1>4. CASE d.life = "up" /\ k \in DOMAIN d.disc /\ d.disc[k] = "running"
  <2>1. x = d
    BY <1>4, Zenon DEF Discover
  <2>2. RunOf(d) \cup X \subseteq RunOf(x) \cup (X \ {k})
    BY <1>4, <2>1, Zenon DEF RunOf
  <2> QED
    BY <2>1, <2>2, Weaken
<1>5. CASE d.life = "up" /\ k \in DOMAIN d.disc /\ d.disc[k] # "running"
  <2>1. x \in Told(d, kind, key, d.disc[k])
    BY <1>5, Zenon DEF Discover
  <2>2. d.disc[k] \in Outcomes
    BY <1>5, Zenon DEF Good, DiscOK, IsDisc
  <2>3. Good(x, Z, (RunOf(d) \cup X) \ {k}, W) /\ x.disc = d.disc
    BY <2>1, <2>2, ToldGood
  <2>4. (RunOf(d) \cup X) \ {k} \subseteq RunOf(x) \cup (X \ {k})
    BY <2>3 DEF RunOf
  <2> QED
    BY <2>3, <2>4, Weaken
<1> QED
  BY <1>1, <1>2, <1>3, <1>4, <1>5, Zenon

\* The discoveries a request needs.
Required(r) ==
    IF r.kind = "prove_order" THEN {<<"chain", <<r.key[1]>>>>, <<"chain", <<r.key[2]>>>>}
    ELSE {<<IF r.kind = "prove" THEN "chain" ELSE r.kind, r.key>>}

LEMMA StartedGood ==
    ASSUME NEW d, NEW Z, NEW r \in Requests, Deferred(r), NEW X \in SUBSET Required(r), NEW W,
           Good(d, Z, RunOf(d) \cup X, W), NEW x \in Started(d, r)
    PROVE  Good(x, Z, RunOf(x), W)
<1>1. CASE r.kind = "prove_order"
  <2> DEFINE k1 == <<"chain", <<r.key[1]>>>>
             k2 == <<"chain", <<r.key[2]>>>>
  <2>1. PICK d1 \in Discover(d, "chain", <<r.key[1]>>) : x \in Discover(d1, "chain", <<r.key[2]>>)
    BY <1>1 DEF Started
  <2>2. k1 \in Discoverable /\ k2 \in Discoverable
    BY <1>1 DEF Discoverable
  <2>3. Good(d1, Z, RunOf(d1) \cup (X \ {k1}), W)
    BY <2>2, DiscoverGood, Zenon
  <2>4. Good(x, Z, RunOf(x) \cup ((X \ {k1}) \ {k2}), W)
    BY <2>1, <2>2, <2>3, DiscoverGood, Zenon
  <2>5. RunOf(x) \cup ((X \ {k1}) \ {k2}) = RunOf(x)
    BY <1>1, Zenon DEF Required
  <2> QED
    BY <2>4, <2>5, Zenon
<1>2. CASE r.kind # "prove_order"
  <2>1. PICK kind : kind = IF r.kind = "prove" THEN "chain" ELSE r.kind
    OBVIOUS
  <2>2. x \in Discover(d, kind, r.key) /\ kind \in {"bounds", "order", "chain"}
    BY <1>2, <2>1, Zenon DEF Started, Deferred
  <2>3. <<kind, r.key>> \in Discoverable
    BY <1>2, <2>1 DEF Deferred, Discoverable
  <2>4. Good(x, Z, RunOf(x) \cup (X \ {<<kind, r.key>>}), W)
    BY <2>2, <2>3, DiscoverGood, Zenon
  <2>5. RunOf(x) \cup (X \ {<<kind, r.key>>}) = RunOf(x)
    BY <1>2, <2>1, Zenon DEF Required
  <2> QED
    BY <2>4, <2>5
<1> QED
  BY <1>1, <1>2, Zenon

\* No table has an entry for fd.
Unknown(d, fd) ==
    /\ \A m \in d.multi : m.fd # fd
    /\ \A k \in DOMAIN d.orders : d.orders[k] # fd
    /\ \A p \in d.proofs : p.fd # fd

LEMMA RegisteredGood ==
    ASSUME NEW d, NEW fd \in DOMAIN d.conn, NEW A, Good(d, {fd}, A, {fd}), Unknown(d, fd),
           d.life = "up", NEW r \in Requests, r = want[conn[fd]], Deferred(r),
           NEW x, x = Registered(d, r, fd)
    PROVE  /\ Good(x, {fd}, A \cup Required(r), {}) /\ Good(x, {fd}, A, {fd})
           /\ x.disc = d.disc /\ x.conn = d.conn
<1>1. r = [kind |-> r.kind, key |-> r.key]
  BY RequestsAssumption
<1>2. Open(d, {fd}, fd, [kind |-> r.kind, key |-> r.key])
  BY <1>1, Zenon DEF Open, ReadFd
<1>3. IsD(d) /\ d.life \in {"up", "stopped", "dead"}
  BY DEF Good
<1>4. CASE r.kind = "order"
  <2> DEFINE o == Put(d.orders, r.key, fd)
  <2>1. x = [d EXCEPT !.orders = o]
    BY <1>4 DEF Registered
  <2>2. /\ IsFun(o) /\ DOMAIN o = DOMAIN d.orders \cup {r.key}
        /\ o[r.key] = fd /\ \A k \in DOMAIN d.orders : k # r.key => o[k] = d.orders[k]
    BY Zenon DEF Put, IsFun
  <2> HIDE DEF o
  <2>3. /\ IsD(x) /\ x.life = d.life /\ x.got = d.got /\ x.conn = d.conn /\ x.multi = d.multi
        /\ x.orders = o /\ x.proofs = d.proofs /\ x.disc = d.disc
    BY <1>3, <2>1, WithOrders
  <2>4. ConnOK(x, {fd}) /\ GotOK(x) /\ DiscOK(x)
    BY <2>3, Parts, KeepConn, Zenon DEF DiscOK
  <2>5. MultiOK(x, {fd}) /\ ProofsOK(x, {fd})
    BY <2>3, Parts, KeepMulti, KeepProofs, Zenon
  <2>6. OrdersOK(x, {fd})
    <3>1. ASSUME NEW k \in DOMAIN o
          PROVE  Open(x, {fd}, o[k], [kind |-> "order", key |-> k])
      <4>1. CASE k = r.key
        BY <1>2, <1>4, <2>2, <2>3, <4>1, Zenon DEF Open
      <4>2. CASE k # r.key
        BY <2>2, <2>3, <4>2, Zenon DEF Good, OrdersOK, Open
      <4> QED
        BY <4>1, <4>2
    <3> QED
      BY <2>2, <2>3, <3>1, ZenonT(30) DEF OrdersOK
  <2>7. Needs(x, A, {fd})
    BY <2>2, <2>3, ZenonT(30) DEF Good, Needs
  <2>8. Needs(x, A \cup Required(r), {})
    <3>1. \A k \in DOMAIN o : <<"order", k>> \in A \cup Required(r)
      BY <1>4, <2>2, ZenonT(30) DEF Good, Needs, Unknown, Required
    <3>2. /\ \A m \in d.multi : AwaitsM(m) \in A
          /\ \A p \in d.proofs :
                p.has # {1, 2} /\ \A i \in {1, 2} \ p.has : <<"chain", <<p.key[i]>>>> \in A
      BY DEF Good, Needs, Unknown
    <3> QED
      BY <2>3, <3>1, <3>2 DEF Needs
  <2>9. Holds(x, {fd}, {}) /\ Holds(x, {fd}, {fd})
    BY <1>4, <2>3, ZenonT(30) DEF Good, Holds
  <2> QED
    BY <1>3, <2>3, <2>4, <2>5, <2>6, <2>7, <2>8, <2>9, Zenon DEF Good
<1>5. CASE r.kind = "prove_order"
  <2>1. PICK p : p = [fd |-> fd, key |-> r.key, has |-> {}, at |-> Cardinality(d.proofs) + 1]
    BY Zenon
  <2>2. x = [d EXCEPT !.proofs = d.proofs \cup {p}]
    BY <1>5, <2>1 DEF Registered
  <2>3. IsP(p) /\ p.fd = fd /\ p.key = r.key /\ p.has = {}
    BY <2>1, Zenon DEF IsP
  <2>4. /\ IsD(x) /\ x.life = d.life /\ x.got = d.got /\ x.conn = d.conn /\ x.multi = d.multi
        /\ x.orders = d.orders /\ x.proofs = d.proofs \cup {p} /\ x.disc = d.disc
    BY <1>3, <2>2, WithProofs
  <2>5. ConnOK(x, {fd}) /\ GotOK(x) /\ DiscOK(x)
    BY <2>4, Parts, KeepConn, Zenon DEF DiscOK
  <2>6. MultiOK(x, {fd}) /\ OrdersOK(x, {fd})
    BY <2>4, Parts, KeepMulti, KeepOrders, Zenon
  <2>7. ProofsOK(x, {fd})
    <3>1. Open(x, {fd}, p.fd, [kind |-> "prove_order", key |-> p.key])
      BY <1>2, <1>5, <2>3, <2>4, Zenon DEF Open
    <3>2. \A q \in d.proofs : /\ IsP(q) /\ Open(x, {fd}, q.fd, [kind |-> "prove_order", key |-> q.key])
                              /\ q.fd # p.fd /\ \A s \in d.proofs : s.fd = q.fd => s = q
      BY <2>3, <2>4, Zenon DEF Good, ProofsOK, Open, Unknown
    <3>3. \A q \in x.proofs :
             IsP(q) /\ Open(x, {fd}, q.fd, [kind |-> "prove_order", key |-> q.key])
      BY <2>3, <2>4, <3>1, <3>2, Zenon
    <3>4. \A q, s \in x.proofs : s.fd = q.fd => s = q
      BY <2>4, <3>2, Zenon
    <3> QED
      BY <3>3, <3>4, Zenon DEF ProofsOK
  <2>8. Needs(x, A, {fd})
    BY <2>3, <2>4, Zenon DEF Good, Needs
  <2>9. Needs(x, A \cup Required(r), {})
    <3>1. /\ \A m \in d.multi : AwaitsM(m) \in A
          /\ \A k \in DOMAIN d.orders : <<"order", k>> \in A
          /\ \A q \in d.proofs :
                q.has # {1, 2} /\ \A i \in {1, 2} \ q.has : <<"chain", <<q.key[i]>>>> \in A
      BY ZenonT(30) DEF Good, Needs, Unknown
    <3>2. p.has # {1, 2} /\ \A i \in {1, 2} \ p.has : <<"chain", <<p.key[i]>>>> \in Required(r)
      BY <1>5, <2>3 DEF Required
    <3> QED
      BY <2>4, <3>1, <3>2, Zenon DEF Needs
  <2>10. Holds(x, {fd}, {}) /\ Holds(x, {fd}, {fd})
    BY <1>5, <2>4, ZenonT(30) DEF Good, Holds
  <2> QED
    BY <1>3, <2>4, <2>5, <2>6, <2>7, <2>8, <2>9, <2>10, Zenon DEF Good
<1>6. CASE r.kind \in {"bounds", "chain", "prove"}
  <2>1. PICK m : m = [table |-> r.kind, key |-> r.key, fd |-> fd, at |-> Cardinality(d.multi) + 1]
    BY Zenon
  <2>2. x = [d EXCEPT !.multi = d.multi \cup {m}]
    BY <1>6, <2>1 DEF Registered
  <2>3. IsM(m) /\ m.fd = fd /\ m.key = r.key /\ m.table = r.kind
    BY <2>1 DEF IsM
  <2>4. /\ IsD(x) /\ x.life = d.life /\ x.got = d.got /\ x.conn = d.conn /\ x.multi = d.multi \cup {m}
        /\ x.orders = d.orders /\ x.proofs = d.proofs /\ x.disc = d.disc
    BY <1>3, <2>2, WithMulti
  <2>5. ConnOK(x, {fd}) /\ GotOK(x) /\ DiscOK(x)
    BY <2>4, Parts, KeepConn, Zenon DEF DiscOK
  <2>6. ProofsOK(x, {fd}) /\ OrdersOK(x, {fd})
    BY <2>4, Parts, KeepProofs, KeepOrders, Zenon
  <2>7. MultiOK(x, {fd})
    <3>1. Open(x, {fd}, m.fd, [kind |-> m.table, key |-> m.key])
      BY <1>2, <2>3, <2>4, Zenon DEF Open
    <3>2. \A n \in d.multi : /\ IsM(n) /\ n.table \in {"bounds", "chain", "prove"}
                             /\ Open(x, {fd}, n.fd, [kind |-> n.table, key |-> n.key])
      BY <2>4, Zenon DEF Good, MultiOK, Open
    <3> QED
      BY <1>6, <2>3, <2>4, <3>1, <3>2, Zenon DEF MultiOK
  <2>8. Needs(x, A, {fd})
    BY <2>3, <2>4, Zenon DEF Good, Needs
  <2>9. Needs(x, A \cup Required(r), {})
    <3>1. /\ \A n \in d.multi : AwaitsM(n) \in A
          /\ \A k \in DOMAIN d.orders : <<"order", k>> \in A
          /\ \A q \in d.proofs :
                q.has # {1, 2} /\ \A i \in {1, 2} \ q.has : <<"chain", <<q.key[i]>>>> \in A
      BY Zenon DEF Good, Needs, Unknown
    <3>2. AwaitsM(m) \in Required(r)
      BY <1>6, <2>3 DEF Required, AwaitsM
    <3> QED
      BY <2>4, <3>1, <3>2, ZenonT(30) DEF Needs
  <2>10. Holds(x, {fd}, {}) /\ Holds(x, {fd}, {fd})
    <3>1. m \in x.multi /\ d.multi \subseteq x.multi
      BY <2>4, Zenon
    <3>2. Holds(d, {fd}, {fd})
      BY Zenon DEF Good
    <3>3. ASSUME NEW y \in DOMAIN d.conn, ReadFd(y, {fd}),
                 want[conn[y]].kind \in {"bounds", "chain", "prove"}
          PROVE  \E n \in x.multi : n.fd = y
      <4>1. CASE y = fd
        BY <2>3, <3>1, <4>1, Zenon
      <4>2. CASE y # fd
        BY <3>1, <3>2, <3>3, <4>2 DEF Holds
      <4> QED
        BY <4>1, <4>2
    <3> QED
      BY <2>4, <3>3, Zenon DEF Holds
  <2> QED
    BY <1>3, <2>4, <2>5, <2>6, <2>7, <2>8, <2>9, <2>10, Zenon DEF Good
<1> QED
  BY <1>4, <1>5, <1>6, Zenon DEF Deferred

\* The descriptor fd is about to be read.
LEMMA GoodRead ==
    ASSUME LotidInv, NEW fd
    PROVE  Good(D, {fd}, RunOf(D), {fd})
<1>1. Good(D, {}, RunOf(D), {})
  BY DFields, Zenon DEF LotidInv
<1>2. \A y : (ReadFd(y, {}) => ReadFd(y, {fd})) /\ (y # fd /\ ReadFd(y, {fd}) => ReadFd(y, {}))
  BY DEF ReadFd
<1>3. ConnOK(D, {fd})
  BY <1>1, Zenon DEF Good, ConnOK
<1>4. MultiOK(D, {fd})
  BY <1>1, <1>2, Zenon DEF Good, MultiOK, Open
<1>5. OrdersOK(D, {fd})
  BY <1>1, <1>2, Zenon DEF Good, OrdersOK, Open
<1>6. ProofsOK(D, {fd})
  <2>1. ProofsOK(D, {})
    BY <1>1, Zenon DEF Good
  <2> QED
    BY <1>2, <2>1, Zenon DEF ProofsOK, Open
<1>7. Needs(D, RunOf(D), {fd})
  BY <1>1, Zenon DEF Good, Needs
<1>8. Holds(D, {fd}, {fd})
  BY <1>1, <1>2, Zenon DEF Good, Holds
<1> QED
  BY <1>1, <1>3, <1>4, <1>5, <1>6, <1>7, <1>8 DEF Good

LEMMA UnreadUnknown ==
    ASSUME LotidInv, NEW fd \in DOMAIN conn, phase[conn[fd]] = "unread"
    PROVE  Unknown(D, fd)
<1>1. MultiOK(D, {}) /\ OrdersOK(D, {}) /\ ProofsOK(D, {})
  BY Zenon DEF LotidInv, Good
<1>2. ~ReadFd(fd, {})
  BY DEF ReadFd
<1>3. \A m \in D.multi : m.fd # fd
  BY <1>1, <1>2, Zenon DEF MultiOK, Open
<1>4. \A k \in DOMAIN D.orders : D.orders[k] # fd
  BY <1>1, <1>2, Zenon DEF OrdersOK, Open
<1>5. \A p \in D.proofs : p.fd # fd
  BY <1>1, <1>2, Zenon DEF ProofsOK, Open
<1> QED
  BY <1>3, <1>4, <1>5, Zenon DEF Unknown

\* A closed descriptor needs no exemption.
LEMMA Closed ==
    ASSUME NEW d, NEW Z, NEW A, NEW fd, Good(d, Z, A, {fd}), d.life = "up" => fd \notin DOMAIN d.conn
    PROVE  Good(d, Z, A, {})
<1>1. Needs(d, A, {})
  <2> SUFFICES ASSUME d.life = "up"
               PROVE  Needs(d, A, {})
    BY DEF Needs
  <2>1. Needs(d, A, {fd}) /\ fd \notin DOMAIN d.conn
    BY DEF Good
  <2>2. \A m \in d.multi : m.fd # fd
    BY <2>1, Zenon DEF Good, MultiOK, Open
  <2>3. \A k \in DOMAIN d.orders : d.orders[k] # fd
    BY <2>1, Zenon DEF Good, OrdersOK, Open
  <2>4. \A p \in d.proofs : p.fd # fd
    <3>1. ProofsOK(d, Z)
      BY DEF Good
    <3>2. \A p \in d.proofs : p.fd \in DOMAIN d.conn
      BY <3>1, Zenon DEF ProofsOK, Open
    <3> QED
      BY <2>1, <3>2
  <2> QED
    BY <2>1, <2>2, <2>3, <2>4, Zenon DEF Needs
<1>2. Holds(d, Z, {})
  BY Zenon DEF Good, Holds
<1> QED
  BY <1>1, <1>2, Zenon DEF Good

\* The reply to the request that is being handled.
LEMMA RespondOneGood ==
    ASSUME NEW d, NEW fd, Good(d, {fd}, RunOf(d), {fd}),
           NEW r \in Requests, r = want[conn[fd]], NEW x, x = RespondOne(d, fd, r.kind, r.key)
    PROVE  Good(x, {fd}, RunOf(x), {})
<1> DEFINE rs == {Reply(fd, r.kind, r.key, 1)}
<1>1. \A y \in rs : y.fd = fd /\ y.request = r
  BY RequestsAssumption DEF Reply
<1>2. Fit(d, {fd}, rs) /\ \E y \in rs : y.fd = fd
  BY <1>1, Zenon DEF Fit, ReadFd
<1>3. x = Respond(d, rs)
  BY Zenon  DEF RespondOne
<1> HIDE DEF rs
<1>4. /\ Good(x, {fd}, RunOf(d), {fd}) /\ \E F : Less(x, d, F)
      /\ x.life = "up" => fd \notin DOMAIN x.conn
  BY <1>2, <1>3, RespondGood
<1>5. RunOf(x) = RunOf(d)
  BY <1>4, ZenonT(30) DEF Less, RunOf
<1> QED
  BY <1>4, <1>5, Closed, Zenon

\* dispatch_guarded, with and without an exception.
LEMMA DispatchGood ==
    ASSUME LotidInv, life = "up", NEW fd \in DOMAIN conn, phase[conn[fd]] = "unread",
           NEW x \in Dispatch(D, want[conn[fd]], fd)
    PROVE  Good(x, {fd}, RunOf(x), {})
<1>1. PICK r : r = want[conn[fd]]
  OBVIOUS
<1>2. r \in Requests
  BY <1>1, Zenon DEF LotidInv, TypeOK, Wanted, Values
<1>3. Good(D, {fd}, RunOf(D), {fd}) /\ Unknown(D, fd)
  BY GoodRead, UnreadUnknown, Zenon
<1>4. CASE ~Deferred(r)
  BY <1>1, <1>2, <1>3, <1>4, RespondOneGood, Zenon DEF Dispatch
<1>5. CASE Deferred(r)
  <2>1. PICK known : known = Registered(D, r, fd)
    OBVIOUS
  <2>2. \/ x \in Started(known, r)
        \/ \E y \in Started(known, r) \cup {D, known} : x = RespondOne(y, fd, r.kind, r.key)
    BY <1>1, <1>5, <2>1, Zenon DEF Dispatch
  <2>3. /\ Good(known, {fd}, RunOf(D) \cup Required(r), {}) /\ Good(known, {fd}, RunOf(D), {fd})
        /\ known.disc = D.disc
    <3>1. D.life = "up" /\ fd \in DOMAIN D.conn
      BY DFields
    <3> HIDE DEF D
    <3> QED
      BY <1>1, <1>2, <1>3, <1>5, <2>1, <3>1, RegisteredGood
  <2>4. RunOf(known) = RunOf(D)
    BY <2>3, Zenon DEF RunOf
  <2>5. ASSUME NEW y \in Started(known, r)
        PROVE  Good(y, {fd}, RunOf(y), {})
    BY <1>2, <1>5, <2>3, <2>4, StartedGood, Zenon
  <2>6. \A y \in Started(known, r) \cup {D, known} : Good(y, {fd}, RunOf(y), {fd})
    <3>1. \A y \in Started(known, r) : Good(y, {fd}, RunOf(y), {fd})
      BY <2>5, Weaken
    <3> QED
      BY <1>3, <2>3, <2>4, <3>1, Zenon
  <2> QED
    BY <1>1, <1>2, <2>2, <2>5, <2>6, RespondOneGood, Zenon
<1> QED
  BY <1>4, <1>5, Zenon
=============================================================================
