---------------------------- MODULE LotidProofs ----------------------------
(***************************************************************************)
(* The invariant of the daemon and the theorems about it, from what         *)
(* LotidHandlers shows of the handlers.                                     *)
(***************************************************************************)
EXTENDS LotidHandlers

-----------------------------------------------------------------------------
(* The end of a handler. *)

\* A handler that has read the requests on Z, taken their events off the batch and arrived
\* at d re-establishes the invariant.
Handled(d, Z, readers) ==
    /\ LotidInv /\ life = "up"
    /\ Good(d, Z, RunOf(d), {})
    /\ Z \subseteq DOMAIN conn /\ \A fd \in Z \cap DOMAIN d.conn : conn[fd] \in readers
    /\ \A c \in readers : \E fd \in Z : c = conn[fd]
    /\ Becomes(d, readers)
    /\ ready' \subseteq ready /\ ready' \cap Z = {} /\ running' \in BOOLEAN
    /\ sent' = sent /\ gone' = gone /\ want' = want

LEMMA Rigid == Discoverable' = Discoverable /\ Outcomes' = Outcomes
  BY DEF Discoverable, Outcomes

LEMMA ConnFacts ==
    ASSUME LotidInv
    PROVE  /\ \A fd \in DOMAIN conn : /\ fd \in Fds /\ conn[fd] \in Clients /\ want[conn[fd]] \in Requests
                                      /\ phase[conn[fd]] \in {"unread", "read"}
           /\ \A x, y \in DOMAIN conn : conn[x] = conn[y] => x = y
           /\ Values(conn) = {conn[x] : x \in DOMAIN conn}
<1>1. \A fd \in DOMAIN conn : fd \in Fds /\ conn[fd] \in Clients /\ phase[conn[fd]] \in {"unread", "read"}
  BY DEF LotidInv, TypeOK, ConnPhase, Values
<1>2. \A fd \in DOMAIN conn : want[conn[fd]] \in Requests
  BY <1>1 DEF LotidInv, Wanted
<1>3. \A x, y \in DOMAIN conn : conn[x] = conn[y] => x = y
  BY DEF LotidInv, TypeOK, Distinct
<1> QED
  BY <1>1, <1>2, <1>3 DEF Values

\* What a handler's replies and closings mean to the clients; F are the closed descriptors.
LEMMA GotFacts ==
    ASSUME NEW d, NEW Z, NEW readers, Handled(d, Z, readers),
           \A fd \in DOMAIN conn \ DOMAIN d.conn : phase'[conn[fd]] = "over",
           \A c \in Clients : phase[c] = "over" => phase'[c] = "over"
    PROVE  /\ got' \subseteq [client : Clients, request : Requests]
           /\ NoMisroute' /\ GotOver'
<1>1. got' = d.got
  <2>1. IsD(d)
    BY DEF Handled, Good
  <2>2. CASE d.life = "up"
    BY <2>2 DEF Handled, Becomes
  <2>3. CASE d.life # "up"
    <3>1. Ended(d).got = d.got
      BY <2>1 DEF Ended, IsD
    <3> QED
      BY <2>3, <3>1 DEF Handled, Becomes
  <2> QED
    BY <2>2, <2>3
<1>2. ASSUME NEW g \in d.got
      PROVE  /\ g \in [client : Clients, request : Requests]
             /\ g.request = want[g.client] /\ phase'[g.client] = "over"
  <2>1. CASE g \in got
    <3>1. g \in [client : Clients, request : Requests] /\ phase[g.client] = "over"
      BY <2>1 DEF Handled, LotidInv, TypeOK, GotOver
    <3>2. g.request = want[g.client]
      BY <2>1 DEF Handled, LotidInv, NoMisroute
    <3> QED
      BY <3>1, <3>2
  <2>2. CASE g \notin got
    <3>1. PICK fd \in DOMAIN conn \ DOMAIN d.conn :
             g = [client |-> conn[fd], request |-> want[conn[fd]]]
      BY <2>2 DEF Handled, Good, GotOK
    <3>2. conn[fd] \in Clients /\ want[conn[fd]] \in Requests
      BY ConnFacts DEF Handled
    <3> QED
      BY <3>1, <3>2
  <2> QED
    BY <2>1, <2>2
<1>3. want' = want
  BY DEF Handled
<1> QED
  BY <1>1, <1>2, <1>3 DEF NoMisroute, GotOver

LEMMA HandledDown ==
    ASSUME NEW d, NEW Z, NEW readers, Handled(d, Z, readers), d.life # "up"
    PROVE  LotidInv'
<1>1. IsD(d) /\ d.life \in {"stopped", "dead"}
  BY DEF Handled, Good
<1>2. /\ life' = d.life /\ conn' = Empty /\ multi' = {} /\ orders' = Empty /\ proofs' = {}
      /\ disc' = Empty
      /\ phase' = [c \in Clients |->
                      IF c \in Values(conn) \ Values(conn') \/ phase[c] = "queued" THEN "over"
                      ELSE IF c \in readers THEN "read" ELSE phase[c]]
  <2> DEFINE o == Ended(d)
  <2>1. o = [life |-> d.life, got |-> d.got, conn |-> Empty, multi |-> {}, orders |-> Empty,
             proofs |-> {}, disc |-> Empty]
    <3> DEFINE e == With(d, Empty, {}, Empty, {})
    <3>1. o = [e EXCEPT !.disc = Empty]
      BY Zenon DEF Ended, With
    <3>2. e = [life |-> d.life, got |-> d.got, conn |-> Empty, multi |-> {}, orders |-> Empty,
               proofs |-> {}, disc |-> d.disc]
      BY <1>1, Fields
    <3> HIDE DEF e
    <3> QED
      BY <3>1, <3>2
  <2> HIDE DEF o
  <2>2. /\ o.life = d.life /\ o.conn = Empty /\ o.multi = {} /\ o.orders = Empty /\ o.proofs = {}
        /\ o.disc = Empty
    BY <2>1
  <2>3. /\ life' = o.life /\ conn' = o.conn /\ multi' = o.multi /\ orders' = o.orders
        /\ proofs' = o.proofs /\ disc' = o.disc
        /\ phase' = [c \in Clients |->
                        IF c \in Values(conn) \ Values(o.conn)
                              \/ (o.life # "up" /\ phase[c] = "queued") THEN "over"
                        ELSE IF c \in readers THEN "read" ELSE phase[c]]
    BY DEF Handled, Becomes, o
  <2> QED
    BY <2>2, <2>3
<1>3. DOMAIN Empty = {} /\ Values(Empty) = {} /\ IsFun(Empty)
  BY DEF Empty, Values, IsFun
<1>4. \A c \in readers : c \in Values(conn)
  BY ConnFacts DEF Handled
<1>5. \A c \in Clients : phase'[c] = IF c \in Values(conn) \/ phase[c] = "queued" THEN "over" ELSE phase[c]
  BY <1>2, <1>3, <1>4
<1>6. \A fd \in DOMAIN conn : conn[fd] \in Clients /\ conn[fd] \in Values(conn)
  BY ConnFacts DEF Handled
<1>7. phase \in [Clients -> {"out", "queued", "unread", "read", "over"}]
  BY DEF Handled, LotidInv, TypeOK
<1>8. /\ got' \subseteq [client : Clients, request : Requests]
      /\ NoMisroute' /\ GotOver'
  BY <1>5, <1>6, GotFacts
<1>9. phase' \in [Clients -> {"out", "queued", "unread", "read", "over"}]
  BY <1>2, <1>4, <1>5, <1>7
<1>10. TypeOK'
  <2>1. running' \in BOOLEAN /\ sent' = sent /\ gone' = gone /\ want' = want /\ ready' \subseteq ready
    BY DEF Handled
  <2>2. /\ sent \subseteq Clients /\ gone \subseteq Clients
        /\ want \in [Clients -> Requests \cup {Nothing}]
        /\ ready \subseteq Fds \cup {ControlFd, UdpFd, StdinFd}
    BY DEF Handled, LotidInv, TypeOK
  <2>3. /\ DOMAIN conn' \subseteq Fds /\ Distinct(conn') /\ Values(conn') \subseteq Clients
        /\ DOMAIN disc' \subseteq Discoverable /\ Values(disc') \subseteq Outcomes \cup {"running"}
    BY <1>2, <1>3 DEF Distinct
  <2> QED
    BY <1>1, <1>2, <1>8, <1>9, <2>1, <2>2, <2>3, Rigid DEF TypeOK
<1>11. ReadsNeverBlock' /\ ConnPhase' /\ Connected'
  BY <1>1, <1>2, <1>3 DEF ReadsNeverBlock, ConnPhase, Connected
<1>12. Wanted'
  <2>1. \A c \in Clients : phase[c] \in {"queued", "unread", "read"} => want[c] \in Requests
    BY DEF Handled, LotidInv, Wanted
  <2>2. want' = want
    BY DEF Handled
  <2> QED
    BY <1>5, <2>1, <2>2 DEF Wanted
<1>13. Good(D, {}, Running, {})'
  <2>1. (/\ IsD(D) /\ D.life = life /\ D.got = got /\ D.conn = conn /\ D.multi = multi
         /\ D.orders = orders /\ D.proofs = proofs /\ D.disc = disc)'
    BY DFields, PTL
  <2>2. ConnOK(D, {})' /\ GotOK(D)'
    BY <1>2, <1>3, <2>1 DEF ConnOK, GotOK, IsFun
  <2>3. DiscOK(D)'
    BY <1>2, <1>3, <2>1 DEF DiscOK, IsDisc
  <2>4. MultiOK(D, {})' /\ OrdersOK(D, {})' /\ ProofsOK(D, {})'
    BY <1>2, <1>3, <2>1 DEF MultiOK, OrdersOK, ProofsOK
  <2>5. Needs(D, Running, {})' /\ Holds(D, {}, {})'
    BY <1>1, <1>2, <2>1 DEF Needs, Holds
  <2> QED
    BY <1>1, <1>2, <2>1, <2>2, <2>3, <2>4, <2>5 DEF Good
<1> QED
  BY <1>8, <1>10, <1>11, <1>12, <1>13 DEF LotidInv

LEMMA HandledUp ==
    ASSUME NEW d, NEW Z, NEW readers, Handled(d, Z, readers), d.life = "up"
    PROVE  LotidInv'
<1>1. /\ IsD(d) /\ ConnOK(d, Z) /\ DiscOK(d) /\ MultiOK(d, Z) /\ OrdersOK(d, Z) /\ ProofsOK(d, Z)
      /\ Needs(d, RunOf(d), {}) /\ Holds(d, Z, {})
  BY DEF Handled, Good
<1>2. /\ life' = "up" /\ conn' = d.conn /\ multi' = d.multi /\ orders' = d.orders
      /\ proofs' = d.proofs /\ disc' = d.disc /\ got' = d.got
      /\ phase' = [c \in Clients |->
                      IF c \in Values(conn) \ Values(d.conn) THEN "over"
                      ELSE IF c \in readers THEN "read" ELSE phase[c]]
  BY DEF Handled, Becomes
<1>3. /\ \A fd \in DOMAIN conn : /\ fd \in Fds /\ conn[fd] \in Clients /\ want[conn[fd]] \in Requests
                                 /\ phase[conn[fd]] \in {"unread", "read"}
      /\ \A x, y \in DOMAIN conn : conn[x] = conn[y] => x = y
  BY ConnFacts DEF Handled
<1>4. DOMAIN d.conn \subseteq DOMAIN conn /\ \A x \in DOMAIN d.conn : d.conn[x] = conn[x]
  BY <1>1 DEF ConnOK
<1>5. \A fd \in DOMAIN conn :
         (conn[fd] \in Values(d.conn) <=> fd \in DOMAIN d.conn) /\ conn[fd] \in Values(conn)
  BY <1>3, <1>4 DEF Values
<1>6. \A c \in readers : \E fd \in Z : c = conn[fd] /\ fd \in DOMAIN conn
  BY DEF Handled
<1>7. \A fd \in DOMAIN d.conn : conn[fd] \in readers <=> fd \in Z
  BY <1>3, <1>4, <1>6 DEF Handled
<1>8. \A fd \in DOMAIN d.conn :
         phase'[conn[fd]] = IF fd \in Z THEN "read" ELSE phase[conn[fd]]
  BY <1>2, <1>3, <1>4, <1>5, <1>7
<1>9. \A fd \in DOMAIN conn \ DOMAIN d.conn : phase'[conn[fd]] = "over"
  BY <1>2, <1>3, <1>5
<1>10. ASSUME NEW c \in Clients, c \notin Values(conn)
       PROVE  phase'[c] = phase[c]
  BY <1>2, <1>5, <1>6, <1>10
<1>11. Values(conn) = {conn[x] : x \in DOMAIN conn}
  BY DEF Values
<1>12. phase \in [Clients -> {"out", "queued", "unread", "read", "over"}]
  BY DEF Handled, LotidInv, TypeOK
<1>13. /\ got' \subseteq [client : Clients, request : Requests]
       /\ NoMisroute' /\ GotOver'
  <2>1. \A c \in Clients : phase[c] = "over" => phase'[c] = "over"
    BY <1>3, <1>10, <1>11
  <2> QED
    BY <1>9, <2>1, GotFacts
<1>14. /\ sent' = sent /\ gone' = gone /\ want' = want /\ running' \in BOOLEAN
       /\ ready' \subseteq ready /\ ready' \cap Z = {}
  BY DEF Handled
<1>15. TypeOK'
  <2>1. phase' \in [Clients -> {"out", "queued", "unread", "read", "over"}]
    BY <1>2, <1>12
  <2>2. /\ sent \subseteq Clients /\ gone \subseteq Clients
        /\ want \in [Clients -> Requests \cup {Nothing}]
        /\ ready \subseteq Fds \cup {ControlFd, UdpFd, StdinFd}
    BY DEF Handled, LotidInv, TypeOK
  <2>3. DOMAIN conn' \subseteq Fds /\ Distinct(conn') /\ Values(conn') \subseteq Clients
    BY <1>2, <1>3, <1>4 DEF Distinct, Values
  <2>4. DOMAIN disc' \subseteq Discoverable /\ Values(disc') \subseteq Outcomes \cup {"running"}
    BY <1>1, <1>2 DEF DiscOK, IsDisc, Values
  <2> QED
    BY <1>2, <1>13, <1>14, <2>1, <2>2, <2>3, <2>4, Rigid, Zenon DEF TypeOK
<1>16. ConnPhase'
  BY <1>2, <1>3, <1>4, <1>8 DEF ConnPhase
<1>17. Connected'
  <2> SUFFICES ASSUME NEW c \in Clients, phase'[c] \in {"unread", "read"}
               PROVE  \E fd \in DOMAIN d.conn : d.conn[fd] = c
    BY <1>2 DEF Connected
  <2>1. CASE c \in Values(conn)
    <3>1. PICK fd \in DOMAIN conn : conn[fd] = c
      BY <1>11, <2>1
    <3> QED
      BY <1>4, <1>9, <3>1
  <2>2. CASE c \notin Values(conn)
    BY <1>10, <1>11, <2>2 DEF Handled, LotidInv, Connected
  <2> QED
    BY <2>1, <2>2
<1>18. Wanted'
  <2> SUFFICES ASSUME NEW c \in Clients, phase'[c] \in {"queued", "unread", "read"}
               PROVE  want[c] \in Requests
    BY <1>14 DEF Wanted
  <2>1. CASE c \in Values(conn)
    BY <1>3, <1>11, <2>1
  <2>2. CASE c \notin Values(conn)
    BY <1>10, <2>2 DEF Handled, LotidInv, Wanted
  <2> QED
    BY <2>1, <2>2
<1>19. ReadsNeverBlock'
  <2> SUFFICES ASSUME NEW fd \in ready' \cap Fds
               PROVE  fd \in DOMAIN conn' /\ Readable(fd)'
    BY DEF ReadsNeverBlock
  <2>1. fd \in DOMAIN conn /\ Readable(fd) /\ fd \notin Z
    BY <1>14 DEF Handled, LotidInv, ReadsNeverBlock
  <2>2. fd \in DOMAIN d.conn
    BY <1>1, <2>1 DEF ConnOK, Readable, HasRequest
  <2>3. phase'[conn[fd]] = phase[conn[fd]] /\ conn'[fd] = conn[fd]
    BY <1>2, <1>4, <1>8, <2>1, <2>2, Zenon
  <2> QED
    BY <1>2, <1>14, <2>1, <2>2, <2>3 DEF Readable, HasRequest
<1>20. Good(D, {}, Running, {})'
  <2>1. (/\ IsD(D) /\ D.life = life /\ D.got = got /\ D.conn = conn /\ D.multi = multi
         /\ D.orders = orders /\ D.proofs = proofs /\ D.disc = disc)'
    BY DFields, PTL
  <2>2. \A fd \in DOMAIN d.conn : ReadFd(fd, {})' <=> ReadFd(fd, Z)
    BY <1>2, <1>4, <1>8 DEF ReadFd
  <2>3. ASSUME NEW fd, NEW r, Open(d, Z, fd, r)
        PROVE  Open(D, {}, fd, r)'
    BY <1>2, <1>4, <1>14, <2>1, <2>2, <2>3, Zenon DEF Open
  <2>4. ConnOK(D, {})' /\ GotOK(D)'
    BY <1>1, <1>2, <1>4, <2>1, Zenon DEF ConnOK, GotOK
  <2>5. DiscOK(D)'
    BY <1>1, <1>2, <2>1, Rigid DEF DiscOK, IsDisc, IsFun
  <2>6. MultiOK(D, {})'
    BY <1>1, <1>2, <2>1, <2>3, Zenon DEF MultiOK, IsM
  <2>7. OrdersOK(D, {})'
    BY <1>1, <1>2, <2>1, <2>3 DEF OrdersOK, IsFun
  <2>8. ProofsOK(D, {})'
    BY <1>1, <1>2, <2>1, <2>3, Zenon DEF ProofsOK, IsP
  <2>9. Running' = RunOf(d)
    BY <1>2 DEF Running, RunOf
  <2>10. Needs(D, Running, {})'
    BY <1>1, <1>2, <2>1, <2>9, Zenon DEF Needs, AwaitsM
  <2>11. Holds(D, {}, {})'
    BY <1>1, <1>2, <1>4, <1>14, <2>1, <2>2 DEF Holds
  <2> QED
    BY <1>2, <2>1, <2>4, <2>5, <2>6, <2>7, <2>8, <2>10, <2>11 DEF Good
<1> QED
  BY <1>13, <1>15, <1>16, <1>17, <1>18, <1>19, <1>20 DEF LotidInv

LEMMA HandledInv ==
    ASSUME NEW d, NEW Z, NEW readers, Handled(d, Z, readers)
    PROVE  LotidInv'
  BY HandledUp, HandledDown, Zenon

-----------------------------------------------------------------------------
(* The steps. *)

\* Nothing that the tables speak of changes, and no connection comes but unread ones.
LEMMA GoodKept ==
    ASSUME LotidInv, UNCHANGED <<life, multi, orders, proofs, disc>>,
           IsFun(conn'), DOMAIN conn \subseteq DOMAIN conn',
           \A fd \in DOMAIN conn : /\ conn'[fd] = conn[fd] /\ phase'[conn[fd]] = phase[conn[fd]]
                                   /\ want'[conn[fd]] = want[conn[fd]],
           \A fd \in DOMAIN conn' \ DOMAIN conn : phase'[conn'[fd]] = "unread"
    PROVE  Good(D, {}, Running, {})'
<1>1. /\ life \in {"up", "stopped", "dead"} /\ DiscOK(D)
      /\ MultiOK(D, {}) /\ OrdersOK(D, {}) /\ ProofsOK(D, {})
      /\ Needs(D, Running, {}) /\ Holds(D, {}, {})
  BY DFields, Zenon DEF LotidInv, Good
<1>2. /\ IsD(D) /\ D.life = life /\ D.got = got /\ D.conn = conn /\ D.multi = multi
      /\ D.orders = orders /\ D.proofs = proofs /\ D.disc = disc
  BY DFields
<1>3. (/\ IsD(D) /\ D.life = life /\ D.got = got /\ D.conn = conn /\ D.multi = multi
       /\ D.orders = orders /\ D.proofs = proofs /\ D.disc = disc)'
  BY DFields, PTL
<1>4. \A fd \in DOMAIN conn' : ReadFd(fd, {})' <=> fd \in DOMAIN conn /\ ReadFd(fd, {})
  BY Zenon DEF ReadFd
<1>5. ASSUME NEW fd, NEW r, Open(D, {}, fd, r)
      PROVE  Open(D, {}, fd, r)'
  BY <1>2, <1>3, <1>4, <1>5 DEF Open
<1>6. ConnOK(D, {})' /\ GotOK(D)'
  BY <1>3 DEF ConnOK, GotOK, IsFun
<1>7. DiscOK(D)'
  BY <1>1, <1>2, <1>3, Rigid DEF DiscOK, IsDisc, IsFun
<1>8. MultiOK(D, {})'
  BY <1>1, <1>2, <1>3, <1>5, ZenonT(30) DEF MultiOK, IsM
<1>9. OrdersOK(D, {})'
  BY <1>1, <1>2, <1>3, <1>5 DEF OrdersOK, IsFun
<1>10. ProofsOK(D, {})'
  BY <1>1, <1>2, <1>3, <1>5, ZenonT(30) DEF ProofsOK, IsP
<1>11. Needs(D, Running, {})'
  BY SMTT(30), <1>1, <1>2, <1>3 DEF Needs, AwaitsM, Running
<1>12. Holds(D, {}, {})'
  BY <1>1, <1>2, <1>3, <1>4 DEF Holds
<1> QED
  BY <1>1, <1>3, <1>6, <1>7, <1>8, <1>9, <1>10, <1>11, <1>12, Zenon DEF Good

LEMMA ConnIsFun ==
    ASSUME LotidInv
    PROVE  IsFun(conn)
  BY DFields DEF LotidInv, Good, ConnOK, IsFun

\* A step that changes the batch only.
LEMMA BatchInv ==
    ASSUME LotidInv, UNCHANGED <<life, phase, sent, gone, want, got, conn, multi, orders, proofs, disc>>,
           running' \in BOOLEAN, ready' \subseteq Fds \cup {ControlFd, UdpFd, StdinFd},
           life = "up" => \A fd \in ready' \cap Fds : fd \in DOMAIN conn /\ Readable(fd)
    PROVE  LotidInv'
<1>1. Good(D, {}, Running, {})'
  BY GoodKept, ConnIsFun
<1>2. TypeOK'
  <2>1. TypeOK
    BY Zenon DEF LotidInv
  <2> QED
    BY <2>1, Rigid, Zenon DEF TypeOK
<1>3. NoMisroute' /\ GotOver' /\ Wanted'
  BY DEF LotidInv, NoMisroute, GotOver, Wanted
<1>4. ConnPhase' /\ Connected'
  <2>1. ConnPhase /\ Connected
    BY Zenon DEF LotidInv
  <2> QED
    BY <2>1, Zenon DEF ConnPhase, Connected
<1>5. ReadsNeverBlock'
  BY DEF ReadsNeverBlock, Readable, HasRequest
<1> QED
  BY <1>1, <1>2, <1>3, <1>4, <1>5, Zenon DEF LotidInv

LEMMA TakeBatch ==
    ASSUME LotidInv, NEW y, NEW stop \in BOOLEAN, Take(y, stop)
    PROVE  /\ running' \in BOOLEAN /\ ready' \subseteq ready /\ y \notin ready'
           /\ ready' \subseteq Fds \cup {ControlFd, UdpFd, StdinFd}
           /\ life = "up" => \A fd \in ready' \cap Fds : fd \in DOMAIN conn /\ Readable(fd)
<1>1. ready' = ready \ {y} /\ running' = (running /\ ~stop)
  BY DEF Take
<1>2. ready \subseteq Fds \cup {ControlFd, UdpFd, StdinFd} /\ running \in BOOLEAN
  BY DEF LotidInv, TypeOK
<1>3. life = "up" => \A fd \in ready \cap Fds : fd \in DOMAIN conn /\ Readable(fd)
  BY DEF LotidInv, ReadsNeverBlock
<1>4. running' \in BOOLEAN
  BY <1>1, <1>2
<1> QED
  BY <1>1, <1>2, <1>3, <1>4

LEMMA InitInv ==
    ASSUME Init
    PROVE  LotidInv
<1>1. DOMAIN Empty = {} /\ Values(Empty) = {} /\ IsFun(Empty) /\ Distinct(Empty)
  BY DEF Empty, Values, IsFun, Distinct
<1>2. TypeOK
  BY <1>1 DEF Init, ReactorInit, TypeOK
<1>3. NoMisroute /\ GotOver /\ ConnPhase /\ Connected /\ Wanted /\ ReadsNeverBlock
  BY <1>1, Zenon DEF Init, ReactorInit, NoMisroute, GotOver, ConnPhase, Connected, Wanted, ReadsNeverBlock
<1>4. Good(D, {}, Running, {})
  <2>1. /\ IsD(D) /\ D.life = "up" /\ D.got = {} /\ D.conn = Empty /\ D.multi = {}
        /\ D.orders = Empty /\ D.proofs = {} /\ D.disc = Empty /\ conn = Empty
    BY DFields DEF Init
  <2>2. ConnOK(D, {}) /\ GotOK(D) /\ DiscOK(D)
    BY <1>1, <2>1, Zenon DEF ConnOK, GotOK, DiscOK, IsDisc, IsFun
  <2>3. MultiOK(D, {}) /\ OrdersOK(D, {}) /\ ProofsOK(D, {})
    BY <1>1, <2>1 DEF MultiOK, OrdersOK, ProofsOK
  <2>4. Needs(D, Running, {}) /\ Holds(D, {}, {})
    BY <1>1, <2>1 DEF Needs, Holds
  <2> QED
    BY <2>1, <2>2, <2>3, <2>4 DEF Good
<1> QED
  BY <1>2, <1>3, <1>4 DEF LotidInv

LEMMA ReadRequestInv ==
    ASSUME LotidInv, NEW fd, ReadRequest(fd)
    PROVE  LotidInv'
<1>1. life = "up" /\ fd \in DOMAIN conn /\ phase[conn[fd]] = "unread"
  BY Zenon DEF ReadRequest, HasRequest
<1>2. PICK d \in Dispatch(D, want[conn[fd]], fd) : Becomes(d, {conn[fd]})
  BY Zenon DEF ReadRequest
<1>3. Good(d, {fd}, RunOf(d), {})
  BY <1>1, <1>2, DispatchGood, Zenon
<1>4. Take(fd, want[conn[fd]].kind = "quit") /\ sent' = sent /\ gone' = gone /\ want' = want
  BY DEF ReadRequest
<1>5. PICK stop \in BOOLEAN : stop = (want[conn[fd]].kind = "quit")
  BY Zenon
<1>6. ready' \subseteq ready /\ fd \notin ready' /\ running' \in BOOLEAN
  BY <1>4, <1>5, TakeBatch, ZenonT(30)
<1>7. Handled(d, {fd}, {conn[fd]})
  BY <1>1, <1>2, <1>3, <1>4, <1>6 DEF Handled
<1> QED
  BY <1>7, HandledInv, Zenon

LEMMA ReadEndInv ==
    ASSUME LotidInv, NEW fd, ReadEnd(fd)
    PROVE  LotidInv'
<1>1. /\ life = "up" /\ fd \in DOMAIN conn /\ Becomes(Close(D, {fd}), {})
      /\ Take(fd, FALSE) /\ sent' = sent /\ gone' = gone /\ want' = want
  BY Zenon DEF ReadEnd
<1>2. Good(D, {fd}, RunOf(D), {fd})
  BY GoodRead, Zenon
<1>3. PICK x : x = Close(D, {fd})
  OBVIOUS
<1>4. Less(x, D, {fd})
  BY <1>2, <1>3, CloseLess DEF Good
<1>5. x.got = got
  BY <1>3, DFields, CloseFields, Zenon
<1>6. GotOK(x)
  BY <1>5, Zenon DEF GotOK
<1>7. Good(x, {fd}, RunOf(D), {fd})
  BY <1>2, <1>4, <1>6, LessGood, Zenon
<1>8. RunOf(x) = RunOf(D) /\ fd \notin DOMAIN x.conn
  BY <1>4 DEF Less, RunOf
<1>9. Good(x, {fd}, RunOf(x), {})
  BY <1>7, <1>8, Closed
<1>10. ready' \subseteq ready /\ fd \notin ready' /\ running' \in BOOLEAN
  BY <1>1, TakeBatch, Zenon
<1>11. Handled(x, {fd}, {})
  BY <1>1, <1>3, <1>8, <1>9, <1>10 DEF Handled
<1> QED
  BY <1>11, HandledInv

\* A handler that reads no request.
LEMMA NoRequestInv ==
    ASSUME LotidInv, life = "up", NEW d, Good(d, {}, RunOf(d), {}), Becomes(d, {}),
           ready' \subseteq ready, running' \in BOOLEAN, sent' = sent, gone' = gone, want' = want
    PROVE  LotidInv'
<1>1. Handled(d, {}, {})
  BY DEF Handled
<1> QED
  BY <1>1, HandledInv

LEMMA KeyOf ==
    ASSUME NEW k \in Discoverable
    PROVE  k = <<k[1], k[2]>> /\ k[1] \in {"bounds", "order", "chain"}
  BY DEF Discoverable

LEMMA RunningKey ==
    ASSUME LotidInv, NEW k \in Running
    PROVE  k \in Discoverable /\ k = <<k[1], k[2]>> /\ k[1] \in {"bounds", "order", "chain"}
<1>1. k \in Discoverable
  BY DEF LotidInv, TypeOK, Running
<1> QED
  BY <1>1, KeyOf

LEMMA DatagramInv ==
    ASSUME LotidInv, Datagram
    PROVE  LotidInv'
<1>1. life = "up" /\ Take(UdpFd, FALSE) /\ sent' = sent /\ gone' = gone /\ want' = want
  BY Zenon DEF Datagram
<1>2. /\ ready' \subseteq ready /\ running' \in BOOLEAN
      /\ ready' \subseteq Fds \cup {ControlFd, UdpFd, StdinFd}
      /\ life = "up" => \A fd \in ready' \cap Fds : fd \in DOMAIN conn /\ Readable(fd)
  BY <1>1, TakeBatch, Zenon
<1>3. CASE UNCHANGED <<life, phase, got, conn, multi, orders, proofs, disc>>
  BY <1>1, <1>2, <1>3, BatchInv
<1>4. ASSUME NEW k \in Running, NEW o \in Outcomes, NEW d \in Settled(D, k[1], k[2], o), Becomes(d, {})
      PROVE  LotidInv'
  <2>1. k \in Discoverable /\ k = <<k[1], k[2]>> /\ k[1] \in {"bounds", "order", "chain"}
    BY RunningKey
  <2>2. Good(D, {}, RunOf(D), {})
    BY DFields DEF LotidInv
  <2>3. PICK s : s = [D EXCEPT !.disc = Put(D.disc, k, o)]
    BY Zenon
  <2>4. d \in Told(s, k[1], k[2], o)
    BY <1>4, <2>1, <2>3 DEF Settled
  <2>5. o # "running"
    BY DEF Outcomes
  <2>6. Good(s, {}, RunOf(D), {}) /\ RunOf(s) = RunOf(D) \ {k}
    BY <2>1, <2>2, <2>3, <2>5, PutGood
  <2>7. Good(d, {}, RunOf(D) \ {<<k[1], k[2]>>}, {}) /\ d.disc = s.disc
    BY <2>1, <2>4, <2>6, ToldGood
  <2>8. RunOf(d) = RunOf(D) \ {<<k[1], k[2]>>}
    BY <2>1, <2>6, <2>7, Zenon DEF RunOf
  <2>9. Good(d, {}, RunOf(d), {})
    BY <2>7, <2>8
  <2> QED
    BY <1>1, <1>2, <1>4, <2>9, NoRequestInv
<1> QED
  BY <1>3, <1>4 DEF Datagram

LEMMA StdinInv ==
    ASSUME LotidInv, Stdin
    PROVE  LotidInv'
<1>1. PICK eof \in BOOLEAN :
         /\ Take(StdinFd, eof)
         /\ \/ UNCHANGED <<life, phase, got, conn, multi, orders, proofs, disc>>
            \/ \E r \in Requests : /\ r.kind \in {"bounds", "chain", "order"}
                                   /\ \E d \in Started(D, r) : Becomes(d, {})
  BY DEF Stdin
<1>2. life = "up" /\ sent' = sent /\ gone' = gone /\ want' = want
  BY DEF Stdin
<1>3. /\ ready' \subseteq ready /\ running' \in BOOLEAN
      /\ ready' \subseteq Fds \cup {ControlFd, UdpFd, StdinFd}
      /\ life = "up" => \A fd \in ready' \cap Fds : fd \in DOMAIN conn /\ Readable(fd)
  BY <1>1, TakeBatch
<1>4. CASE UNCHANGED <<life, phase, got, conn, multi, orders, proofs, disc>>
  BY <1>2, <1>3, <1>4, BatchInv
<1>5. ASSUME NEW r \in Requests, r.kind \in {"bounds", "chain", "order"},
             NEW d \in Started(D, r), Becomes(d, {})
      PROVE  LotidInv'
  <2>1. Good(D, {}, RunOf(D), {}) /\ RunOf(D) \cup {} = RunOf(D)
    BY DFields DEF LotidInv
  <2>2. Deferred(r) /\ {} \in SUBSET Required(r)
    BY <1>5 DEF Deferred
  <2>3. Good(D, {}, RunOf(D) \cup {}, {})
    BY <2>1
  <2>4. Good(d, {}, RunOf(d), {})
    BY <2>2, <2>3, StartedGood, Zenon
  <2> QED
    BY <1>2, <1>3, <1>5, <2>4, NoRequestInv
<1> QED
  BY <1>1, <1>4, <1>5, Zenon

LEMMA PurgeInv ==
    ASSUME LotidInv, NEW k \in DOMAIN disc, Purge(k)
    PROVE  LotidInv'
<1>1. /\ life = "up" /\ sent' = sent /\ gone' = gone /\ want' = want
      /\ ready' = ready /\ running' = running
  BY DEF Purge, Fire, reactorVars
<1>2. PICK d \in (IF k \in Running THEN Told(D, k[1], k[2], "aborted") ELSE {D}) :
         Becomes([d EXCEPT !.disc = [x \in DOMAIN @ \ {k} |-> @[x]]], {})
  BY Zenon DEF Purge
<1>3. Good(D, {}, RunOf(D), {}) /\ RunOf(D) = Running
  BY DFields DEF LotidInv
<1>4. Good(d, {}, RunOf(D) \ {k}, {}) /\ d.disc = disc
  <2>1. CASE k \in Running
    <3>1. k = <<k[1], k[2]>> /\ k[1] \in {"bounds", "order", "chain"}
      BY <2>1, RunningKey
    <3>2. d \in Told(D, k[1], k[2], "aborted") /\ "aborted" \in Outcomes
      BY <1>2, <2>1, Zenon DEF Outcomes
    <3>3. Good(d, {}, RunOf(D) \ {<<k[1], k[2]>>}, {}) /\ d.disc = D.disc
      BY <1>3, <3>1, <3>2, ToldGood
    <3> QED
      BY <3>1, <3>3, DFields
  <2>2. CASE k \notin Running
    <3>1. d = D /\ RunOf(D) \ {k} = RunOf(D)
      BY <1>2, <1>3, <2>2
    <3> QED
      BY <1>3, <3>1, DFields
  <2> QED
    BY <2>1, <2>2, Zenon
<1>5. PICK f : f = [x \in DOMAIN d.disc \ {k} |-> d.disc[x]]
  BY ZenonT(30)
<1>6. IsDisc(f)
  BY <1>4, <1>5, Zenon DEF Good, DiscOK, IsDisc, IsFun
<1>7. PICK x : x = SetDisc(d, f)
  OBVIOUS
<1>8. Becomes(x, {})
  BY <1>2, <1>5, <1>7, Zenon DEF SetDisc
<1>9. Good(x, {}, RunOf(D) \ {k}, {})
  BY <1>4, <1>6, <1>7, DiscGood
<1>10. x.disc = f
  BY <1>4, <1>7, Zenon DEF SetDisc, Good, IsD
<1>11. RunOf(x) = RunOf(D) \ {k}
  BY <1>3, <1>4, <1>5, <1>10 DEF RunOf, Running
<1>12. Good(x, {}, RunOf(x), {})
  BY <1>9, <1>11, Zenon
<1>13. ready' \subseteq ready /\ running' \in BOOLEAN
  BY <1>1 DEF LotidInv, TypeOK
<1> QED
  BY <1>1, <1>8, <1>12, <1>13, NoRequestInv

LEMMA ExitInv ==
    ASSUME LotidInv, Exit
    PROVE  LotidInv'
<1>1. PICK x : x = [D EXCEPT !.life = "stopped"]
  BY Zenon
<1>2. /\ life = "up" /\ Becomes(x, {}) /\ sent' = sent /\ gone' = gone /\ want' = want
      /\ ready' = ready /\ running' = running
  BY <1>1 DEF Exit, reactorVars
<1>3. Good(D, {}, RunOf(D), {})
  BY DFields DEF LotidInv
<1>4. x = [life |-> "stopped", got |-> D.got, conn |-> D.conn, multi |-> D.multi, orders |-> D.orders,
           proofs |-> D.proofs, disc |-> D.disc]
  BY <1>1, <1>3 DEF Good, IsD
<1>5. /\ IsD(x) /\ x.life = "stopped" /\ x.got = D.got /\ x.conn = D.conn /\ x.multi = D.multi
      /\ x.orders = D.orders /\ x.proofs = D.proofs /\ x.disc = D.disc
  BY <1>4 DEF IsD
<1>6. ConnOK(x, {}) /\ GotOK(x) /\ DiscOK(x)
  BY <1>3, <1>5, Parts, KeepConn DEF DiscOK
<1>7. MultiOK(x, {}) /\ OrdersOK(x, {}) /\ ProofsOK(x, {})
  BY <1>3, <1>5, Parts, KeepMulti, KeepOrders, KeepProofs, Zenon
<1>8. Needs(x, RunOf(x), {}) /\ Holds(x, {}, {})
  BY <1>5, Zenon DEF Needs, Holds
<1>9. Good(x, {}, RunOf(x), {})
  BY <1>5, <1>6, <1>7, <1>8, Zenon DEF Good
<1>10. ready' \subseteq ready /\ running' \in BOOLEAN
  BY <1>2 DEF LotidInv, TypeOK
<1> QED
  BY <1>2, <1>9, <1>10, NoRequestInv

LEMMA AcceptInv ==
    ASSUME LotidInv, Accept
    PROVE  LotidInv'
<1>1. /\ life = "up" /\ Take(ControlFd, FALSE)
      /\ UNCHANGED <<life, sent, gone, want, got, multi, orders, proofs, disc>>
  BY Zenon DEF Accept
<1>2. /\ running' \in BOOLEAN /\ ready' \subseteq ready
      /\ ready' \subseteq Fds \cup {ControlFd, UdpFd, StdinFd}
      /\ \A fd \in ready' \cap Fds : fd \in DOMAIN conn /\ Readable(fd)
  BY <1>1, TakeBatch, Zenon
<1>3. CASE UNCHANGED <<phase, conn>>
  BY <1>1, <1>2, <1>3, BatchInv
<1>4. ASSUME NEW c \in Clients, NEW n \in Fds \ DOMAIN conn, phase[c] = "queued",
             phase' = [phase EXCEPT ![c] = "unread"], conn' = Put(conn, n, c)
      PROVE  LotidInv'
  <2>1. /\ IsFun(conn') /\ DOMAIN conn' = DOMAIN conn \cup {n}
        /\ conn'[n] = c /\ \A x \in DOMAIN conn : x # n => conn'[x] = conn[x]
    BY <1>4 DEF Put, IsFun
  <2>2. /\ phase \in [Clients -> {"out", "queued", "unread", "read", "over"}]
        /\ phase' \in [Clients -> {"out", "queued", "unread", "read", "over"}]
        /\ phase'[c] = "unread" /\ \A x \in Clients : x # c => phase'[x] = phase[x]
    BY <1>4 DEF LotidInv, TypeOK
  <2>3. /\ \A fd \in DOMAIN conn : fd \in Fds /\ conn[fd] \in Clients /\ phase[conn[fd]] \in {"unread", "read"}
        /\ \A x, y \in DOMAIN conn : conn[x] = conn[y] => x = y
    BY ConnFacts
  <2>4. \A fd \in DOMAIN conn : conn'[fd] = conn[fd] /\ phase'[conn[fd]] = phase[conn[fd]]
    BY <1>4, <2>1, <2>2, <2>3, Zenon
  <2>5. Good(D, {}, Running, {})'
    BY <1>1, <2>1, <2>2, <2>4, GoodKept, Zenon
  <2>6. TypeOK'
    <3>1. DOMAIN conn' \subseteq Fds /\ Distinct(conn') /\ Values(conn') \subseteq Clients
      <4>1. \A fd \in DOMAIN conn' : fd \in Fds /\ conn'[fd] \in Clients
        BY <1>4, <2>1, <2>3, <2>4, Zenon
      <4>2. \A x, y \in DOMAIN conn' : conn'[x] = conn'[y] => x = y
        BY <1>4, <2>1, <2>3, <2>4
      <4> QED
        BY <4>1, <4>2, Zenon DEF Distinct, Values
    <3>2. /\ life \in {"up", "stopped", "dead"} /\ sent \subseteq Clients /\ gone \subseteq Clients
          /\ want \in [Clients -> Requests \cup {Nothing}]
          /\ got \subseteq [client : Clients, request : Requests]
          /\ DOMAIN disc \subseteq Discoverable /\ Values(disc) \subseteq Outcomes \cup {"running"}
      BY DEF LotidInv, TypeOK
    <3> QED
      BY <1>1, <1>2, <2>2, <3>1, <3>2, Rigid, Zenon DEF TypeOK
  <2>7. NoMisroute'
    BY <1>1, Zenon DEF LotidInv, NoMisroute
  <2>8. GotOver'
    <3>1. \A g \in got : g.client \in Clients /\ phase[g.client] = "over"
      BY DEF LotidInv, TypeOK, GotOver
    <3> QED
      BY <1>1, <1>4, <2>2, <3>1 DEF GotOver
  <2>9. ConnPhase'
    <3> SUFFICES ASSUME NEW fd \in DOMAIN conn'
                 PROVE  phase'[conn'[fd]] \in {"unread", "read"}
      BY Zenon DEF ConnPhase
    <3>1. CASE fd = n
      BY <2>1, <2>2, <3>1, Zenon
    <3>2. CASE fd # n
      BY <2>1, <2>3, <2>4, <3>2, Zenon
    <3> QED
      BY <3>1, <3>2, Zenon
  <2>10. Connected'
    <3>1. Connected
      BY Zenon DEF LotidInv
    <3> SUFFICES ASSUME NEW x \in Clients, phase'[x] \in {"unread", "read"}
                 PROVE  \E fd \in DOMAIN conn' : conn'[fd] = x
      BY Zenon DEF Connected
    <3>2. CASE x = c
      BY <2>1, <3>2, Zenon
    <3>3. CASE x # c
      <4>1. PICK fd \in DOMAIN conn : conn[fd] = x
        BY <1>1, <2>2, <3>1, <3>3, Zenon DEF Connected
      <4> QED
        BY <2>1, <2>4, <4>1, Zenon
    <3> QED
      BY <3>2, <3>3, Zenon
  <2>11. Wanted'
    BY <1>1, <1>4, <2>2, Zenon DEF LotidInv, Wanted
  <2>12. ReadsNeverBlock'
    <3> SUFFICES ASSUME NEW fd \in ready' \cap Fds
                 PROVE  fd \in DOMAIN conn' /\ Readable(fd)'
      BY DEF ReadsNeverBlock
    <3>1. fd \in DOMAIN conn /\ Readable(fd)
      BY <1>2
    <3> QED
      BY <1>1, <2>1, <2>4, <3>1 DEF Readable, HasRequest
  <2> QED
    BY <2>5, <2>6, <2>7, <2>8, <2>9, <2>10, <2>11, <2>12, Zenon DEF LotidInv
<1> QED
  BY <1>3, <1>4 DEF Accept

LEMMA PollInv ==
    ASSUME LotidInv, Poll
    PROVE  LotidInv'
<1>1. UNCHANGED <<life, phase, sent, gone, want, got, conn, multi, orders, proofs, disc>>
  BY DEF Poll, lotidVars
<1>2. PICK extra \in SUBSET ({UdpFd : k \in Running} \cup (IF menu.stdin THEN {StdinFd} ELSE {})) :
         Wait({fd \in DOMAIN conn : Readable(fd)}
                \cup (IF \E c \in Clients : phase[c] = "queued" THEN {ControlFd} ELSE {})
                \cup extra)
  BY Zenon DEF Poll
<1>3. /\ running' = running
      /\ \A fd \in ready' : \/ fd \in DOMAIN conn /\ Readable(fd)
                            \/ fd \in {ControlFd, UdpFd, StdinFd}
  BY <1>2 DEF Wait, Batches
<1>4. Fds \cap {ControlFd, UdpFd, StdinFd} = {}
  BY FdsAssumption
<1>5. DOMAIN conn \subseteq Fds /\ running \in BOOLEAN
  BY DEF LotidInv, TypeOK
<1>6. /\ running' \in BOOLEAN /\ ready' \subseteq Fds \cup {ControlFd, UdpFd, StdinFd}
      /\ \A fd \in ready' \cap Fds : fd \in DOMAIN conn /\ Readable(fd)
  BY <1>3, <1>4, <1>5, Zenon
<1> QED
  BY <1>1, <1>6, BatchInv

LEMMA OtherTimerInv ==
    ASSUME LotidInv, NEW t, OtherTimer(t)
    PROVE  LotidInv'
<1>1. UNCHANGED <<life, phase, sent, gone, want, got, conn, multi, orders, proofs, disc, ready, running>>
  BY Zenon DEF OtherTimer, FireAndFail, lotidVars
<1> QED
  BY <1>1, BatchInv DEF LotidInv, TypeOK, ReadsNeverBlock

\* A step of one client whose connection is not open.
LEMMA OffInv ==
    ASSUME LotidInv, NEW c \in Clients, phase[c] \in {"out", "over"},
           UNCHANGED <<life, conn, multi, orders, proofs, disc, ready, running>>,
           phase' \in [Clients -> {"out", "queued", "unread", "read", "over"}],
           phase'[c] \in {"out", "queued"},
           want' \in [Clients -> Requests \cup {Nothing}], phase'[c] = "queued" => want'[c] \in Requests,
           \A x \in Clients : x # c => phase'[x] = phase[x] /\ want'[x] = want[x],
           \A x \in Clients : x # c => (x \in gone' <=> x \in gone) /\ (x \in sent' <=> x \in sent),
           sent' \subseteq Clients, gone' \subseteq Clients,
           got' \subseteq got, \A g \in got' : g.client # c
    PROVE  LotidInv'
<1>1. \A fd \in DOMAIN conn : /\ conn[fd] \in Clients /\ conn[fd] # c
                              /\ phase[conn[fd]] \in {"unread", "read"}
  BY ConnFacts
<1>2. \A g \in got : g.client \in Clients
  BY DEF LotidInv, TypeOK
<1>3. Good(D, {}, Running, {})'
  BY <1>1, ConnIsFun, GoodKept, Zenon
<1>4. TypeOK'
  BY Rigid, Zenon DEF LotidInv, TypeOK
<1>5. NoMisroute' /\ GotOver'
  <2>1. NoMisroute /\ GotOver
    BY DEF LotidInv
  <2> QED
    BY <1>2, <2>1, Zenon DEF NoMisroute, GotOver
<1>6. ConnPhase'
  BY <1>1, Zenon DEF ConnPhase
<1>7. Connected'
  BY Zenon DEF LotidInv, Connected
<1>8. Wanted'
  BY Zenon DEF LotidInv, Wanted
<1>9. ReadsNeverBlock'
  BY <1>1, Zenon DEF LotidInv, ReadsNeverBlock, Readable, HasRequest
<1> QED
  BY <1>3, <1>4, <1>5, <1>6, <1>7, <1>8, <1>9, Zenon DEF LotidInv

LEMMA ConnectInv ==
    ASSUME LotidInv, NEW c \in Clients, NEW r \in Requests, Connect(c, r)
    PROVE  LotidInv'
<1>1. /\ phase[c] = "out" /\ phase' = [phase EXCEPT ![c] = "queued"] /\ want' = [want EXCEPT ![c] = r]
      /\ UNCHANGED <<life, sent, gone, got, conn, multi, orders, proofs, disc, ready, running>>
  BY Zenon DEF Connect, reactorVars
<1>2. /\ phase \in [Clients -> {"out", "queued", "unread", "read", "over"}]
      /\ want \in [Clients -> Requests \cup {Nothing}]
      /\ sent \subseteq Clients /\ gone \subseteq Clients
  BY DEF LotidInv, TypeOK
<1>3. \A g \in got' : g.client # c
  BY <1>1, Zenon DEF LotidInv, GotOver
<1> QED
  BY <1>1, <1>2, <1>3, OffInv, Zenon

LEMMA ReturnInv ==
    ASSUME LotidInv, NEW c \in Clients, Return(c)
    PROVE  LotidInv'
<1>1. /\ phase[c] = "over" /\ phase' = [phase EXCEPT ![c] = "out"] /\ want' = [want EXCEPT ![c] = Nothing]
      /\ sent' = sent \ {c} /\ gone' = gone \ {c} /\ got' = {g \in got : g.client # c}
      /\ UNCHANGED <<life, conn, multi, orders, proofs, disc, ready, running>>
  BY Zenon DEF Return, reactorVars
<1>2. /\ phase \in [Clients -> {"out", "queued", "unread", "read", "over"}]
      /\ want \in [Clients -> Requests \cup {Nothing}]
      /\ sent \subseteq Clients /\ gone \subseteq Clients
  BY DEF LotidInv, TypeOK
<1>3. /\ phase' \in [Clients -> {"out", "queued", "unread", "read", "over"}] /\ phase'[c] = "out"
      /\ want' \in [Clients -> Requests \cup {Nothing}]
      /\ \A x \in Clients : x # c => phase'[x] = phase[x] /\ want'[x] = want[x]
  BY <1>1, <1>2
<1> QED
  BY <1>1, <1>2, <1>3, OffInv

\* Writing a request and hanging up only add something to read.
LEMMA MoreInv ==
    ASSUME LotidInv, sent \subseteq sent', gone \subseteq gone', sent' \subseteq Clients, gone' \subseteq Clients,
           UNCHANGED <<life, phase, want, got, conn, multi, orders, proofs, disc, ready, running>>
    PROVE  LotidInv'
<1>1. Good(D, {}, Running, {})'
  BY GoodKept, ConnIsFun, Zenon
<1>2. TypeOK'
  BY Rigid, Zenon DEF LotidInv, TypeOK
<1>3. NoMisroute' /\ GotOver' /\ Wanted'
  BY Zenon DEF LotidInv, NoMisroute, GotOver, Wanted
<1>4. ConnPhase' /\ Connected'
  <2>1. ConnPhase /\ Connected
    BY Zenon DEF LotidInv
  <2> QED
    BY <2>1, Zenon DEF ConnPhase, Connected
<1>5. ReadsNeverBlock'
  BY Zenon  DEF LotidInv, ReadsNeverBlock, Readable, HasRequest
<1> QED
  BY <1>1, <1>2, <1>3, <1>4, <1>5, Zenon DEF LotidInv

LEMMA SendInv ==
    ASSUME LotidInv, NEW c \in Clients, Send(c)
    PROVE  LotidInv'
  BY MoreInv, Zenon DEF Send, reactorVars, LotidInv, TypeOK

LEMMA HangUpInv ==
    ASSUME LotidInv, NEW c \in Clients, HangUp(c)
    PROVE  LotidInv'
  BY MoreInv DEF HangUp, reactorVars, LotidInv, TypeOK

LEMMA NextInv ==
    ASSUME LotidInv, [Next]_vars
    PROVE  LotidInv'
<1>1. CASE UNCHANGED vars
  <2>1. UNCHANGED <<life, phase, sent, gone, want, got, conn, multi, orders, proofs, disc, ready, running>>
    BY <1>1 DEF vars, lotidVars, reactorVars
  <2> QED
    BY <2>1, BatchInv, Zenon DEF LotidInv, TypeOK, ReadsNeverBlock
<1>2. ASSUME NEW c \in Clients, Send(c) \/ Return(c) \/ HangUp(c) \/ \E r \in Requests : Connect(c, r)
      PROVE  LotidInv'
  BY <1>2, SendInv, ReturnInv, HangUpInv, ConnectInv
<1>3. CASE Poll \/ Exit
  BY <1>3, PollInv, ExitInv
<1>4. CASE Handle
  BY <1>4, AcceptInv, DatagramInv, StdinInv, ReadRequestInv, ReadEndInv DEF Handle
<1>5. ASSUME NEW k \in DOMAIN disc, Purge(k)
      PROVE  LotidInv'
  BY <1>5, PurgeInv
<1>6. ASSUME NEW t \in Timers, OtherTimer(t)
      PROVE  LotidInv'
  BY <1>6, OtherTimerInv
<1> QED
  BY <1>1, <1>2, <1>3, <1>4, <1>5, <1>6, Zenon DEF Next

\* Every step of the daemon and of its clients preserves the invariant.
THEOREM LotidInvariant == Spec => []LotidInv
<1>1. Init => LotidInv
  BY InitInv
<1>2. LotidInv /\ [Next]_vars => LotidInv'
  BY NextInv
<1> QED
  BY <1>1, <1>2, PTL DEF Spec

-----------------------------------------------------------------------------
(* The theorems. *)

\* The state of the daemon stays well-formed: descriptors are unique to their clients, the
\* discoveries are ones a request can name, and the batch holds only descriptors.
THEOREM DaemonTyped == Spec => []TypeOK
<1>1. LotidInv => TypeOK
  BY DEF LotidInv
<1> QED
  BY <1>1, LotidInvariant, PTL

\* "A reused fd must never receive a stale discovery's reply" (purge_pending_for_fd).
THEOREM RepliesNeverMisroute == Spec => []NoMisroute
<1>1. LotidInv => NoMisroute
  BY Zenon  DEF LotidInv
<1> QED
  BY <1>1, LotidInvariant, PTL

\* close_client: no table keeps an entry of a closed descriptor.
THEOREM PendingAlwaysLive == Spec => []PendingLive
<1>1. LotidInv => PendingLive
  <2> SUFFICES ASSUME LotidInv
               PROVE  PendingLive
    OBVIOUS
  <2>1. MultiOK(D, {}) /\ OrdersOK(D, {}) /\ ProofsOK(D, {})
    BY Zenon  DEF LotidInv, Good
  <2>2. ASSUME NEW fd, NEW r, Open(D, {}, fd, r)
        PROVE  fd \in DOMAIN conn /\ want[conn[fd]] = r
    BY <2>2, DFields DEF Open
  <2>3. \A m \in multi : m.fd \in DOMAIN conn /\ want[conn[m.fd]] = [kind |-> m.table, key |-> m.key]
    BY <2>1, <2>2, DFields, Zenon DEF MultiOK
  <2>4. \A k \in DOMAIN orders :
           orders[k] \in DOMAIN conn /\ want[conn[orders[k]]] = [kind |-> "order", key |-> k]
    BY <2>1, <2>2, DFields, Zenon DEF OrdersOK
  <2>5. \A p \in proofs :
           p.fd \in DOMAIN conn /\ want[conn[p.fd]] = [kind |-> "prove_order", key |-> p.key]
    <3> SUFFICES ASSUME NEW p \in proofs
                 PROVE  p.fd \in DOMAIN conn
                        /\ want[conn[p.fd]] = [kind |-> "prove_order", key |-> p.key]
      BY Zenon
    <3>1. Open(D, {}, p.fd, [kind |-> "prove_order", key |-> p.key])
      BY <2>1, DFields, ZenonT(30) DEF ProofsOK
    <3> QED
      BY <2>2, <3>1, ZenonT(30)
  <2> DEFINE Fine(e) == e.fd \in DOMAIN conn /\ want[conn[e.fd]] = e.request
  <2>6. \A fd, r : fd \in DOMAIN conn /\ want[conn[fd]] = r => Fine([fd |-> fd, request |-> r])
    BY Zenon
  <2> HIDE DEF Fine
  <2>7. \A e \in Entries : Fine(e)
    <3>1. \A m \in multi : Fine([fd |-> m.fd, request |-> [kind |-> m.table, key |-> m.key]])
      BY <2>3, <2>6, Zenon
    <3>2. \A k \in DOMAIN orders :
             Fine([fd |-> orders[k], request |-> [kind |-> "order", key |-> k]])
      BY <2>4, <2>6, Zenon
    <3>3. \A p \in proofs :
             Fine([fd |-> p.fd, request |-> [kind |-> "prove_order", key |-> p.key]])
      BY <2>5, <2>6, Zenon
    <3> QED
      BY <3>1, <3>2, <3>3, Zenon DEF Entries
  <2> QED
    BY <2>7, Zenon DEF PendingLive, Fine
<1> QED
  BY <1>1, LotidInvariant, PTL

\* Nobody waits for a discovery that has settled or been purged: whatever path a callback,
\* an exception or the purge timer takes, the discovery behind every entry is running.
THEOREM PendingAlwaysRunning == Spec => []PendingRunning
<1>1. LotidInv => PendingRunning
  BY DFields, Zenon DEF LotidInv, Good, Needs, AwaitsM, PendingRunning
<1> QED
  BY <1>1, LotidInvariant, PTL

\* on_control_readable never makes a read that would block the loop.
THEOREM ReadsAlwaysReady == Spec => []ReadsNeverBlock
<1>1. LotidInv => ReadsNeverBlock
  BY DEF LotidInv
<1> QED
  BY <1>1, LotidInvariant, PTL

\* "The control connection is held until the discovery completes or aborts" for the queries
\* about one event: the entry of an open connection is never lost.
THEOREM SingleQueriesAlwaysHeld == Spec => []SingleQueriesHeld
<1>1. LotidInv => SingleQueriesHeld
  <2> SUFFICES ASSUME LotidInv, NEW c \in Clients, life = "up", phase[c] = "read", Single(c)
               PROVE  Held(c)
    BY DEF SingleQueriesHeld, Waiting
  <2>1. PICK fd \in DOMAIN conn : conn[fd] = c
    BY Zenon DEF LotidInv, Connected
  <2>2. \E m \in multi : m.fd = fd
    BY <2>1, DFields, Zenon DEF LotidInv, Good, Holds, ReadFd, Single
  <2>3. PICK m \in multi : m.fd = fd
    BY <2>2, Zenon
  <2>4. PICK e : e = [fd |-> m.fd, request |-> [kind |-> m.table, key |-> m.key]]
    BY Zenon
  <2>5. e \in Entries /\ e.fd = fd
    BY <2>3, <2>4, Zenon DEF Entries
  <2> QED
    BY <2>1, <2>5, Zenon DEF Held
<1> QED
  BY <1>1, LotidInvariant, PTL
=============================================================================
