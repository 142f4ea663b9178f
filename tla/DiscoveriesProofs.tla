------------------------- MODULE DiscoveriesProofs -------------------------
(***************************************************************************)
(* Proofs about Discoveries for every set of events and requests, every    *)
(* expiry and every run of the wall clock.                                 *)
(***************************************************************************)
EXTENDS Discoveries, TLAPS

Outcomes == {"completed", "aborted"}
Counts == [completed : Nat, aborted : Nat]
Sum(u) == u.completed + u.aborted

-----------------------------------------------------------------------------
\* A record of the bookkeeping state, as the handlers thread it, is well typed.
Typed(s) ==
    /\ s = [chain |-> s.chain, bounds |-> s.bounds, order |-> s.order,
            told |-> s.told, sound |-> s.sound]
    /\ DOMAIN s.chain \subseteq Events /\ s.chain \in [DOMAIN s.chain -> Entry]
    /\ DOMAIN s.bounds \subseteq Events /\ s.bounds \in [DOMAIN s.bounds -> Entry]
    /\ DOMAIN s.order \subseteq Events \X Events /\ s.order \in [DOMAIN s.order -> Entry]
    /\ s.told \in [Asks -> Counts]

\* The clients of a table's entries are requests among A, of the table's kind and for
\* the entry's key; those of an entry in progress have been told nothing.
Clients(tbl, kind, A) ==
    \A x \in DOMAIN tbl : \A r \in tbl[x].clients : r \in A /\ r.kind = kind /\ r.key = x
Untold(tbl, t) ==
    \A x \in DOMAIN tbl : tbl[x].state = "in_progress" => \A r \in tbl[x].clients : Sum(t[r]) = 0

\* What was told so far: a chain or order request at most one outcome, and nothing
\* before it was issued.
ToldOnce(t, A) ==
    \A r \in Asks : r.kind # "bounds" => Sum(t[r]) <= 1 /\ (r \notin A => Sum(t[r]) = 0)

Clean(s, A) ==
    /\ Clients(s.chain, "chain", A) /\ Clients(s.bounds, "bounds", A) /\ Clients(s.order, "order", A)
    /\ Untold(s.chain, s.told) /\ Untold(s.order, s.told)
    /\ ToldOnce(s.told, A)

\* Every bounds discovery in progress, but those of Z, has its chain discovery.
DrivenBut(s, Z) ==
    \A e \in DOMAIN s.bounds \ Z : s.bounds[e].state = "in_progress" =>
        e \in DOMAIN s.chain /\ s.chain[e].state = "in_progress" /\ s.chain[e].node > 0

Good(s, A, Z) == Typed(s) /\ Clean(s, A) /\ DrivenBut(s, Z)

-----------------------------------------------------------------------------
LEMMA Bump ==
    ASSUME NEW u \in Counts, NEW out \in Outcomes, NEW k \in Nat
    PROVE  /\ Counted(u, out, k) \in Counts
           /\ Sum(Counted(u, out, k)) = Sum(u) + k /\ Sum(u) \in Nat
<1>1. CASE out = "completed"
  BY <1>1 DEF Counts, Sum, Counted
<1>2. CASE out = "aborted"
  BY <1>2 DEF Counts, Sum, Counted
<1> QED
  BY <1>1, <1>2 DEF Outcomes

\* Settling changes nothing but the state of the settled entries.
LEMMA SettleFacts ==
    ASSUME NEW tbl, tbl \in [DOMAIN tbl -> Entry],
           NEW X, NEW out \in Outcomes
    PROVE  /\ DOMAIN Settle(tbl, X, out) = DOMAIN tbl
           /\ Settle(tbl, X, out) \in [DOMAIN tbl -> Entry]
           /\ \A x \in DOMAIN tbl :
                 /\ Settle(tbl, X, out)[x].clients = tbl[x].clients
                 /\ Settle(tbl, X, out)[x].node = tbl[x].node
                 /\ Settle(tbl, X, out)[x].start = tbl[x].start
                 /\ x \in X => Settle(tbl, X, out)[x].state = out
                 /\ x \notin X => Settle(tbl, X, out)[x].state = tbl[x].state
BY DEF Settle, Entry, States, Outcomes

\* Telling the clients of the entries X in progress counts each of them once.
LEMMA TellFacts ==
    ASSUME NEW t \in [Asks -> Counts], NEW tbl, NEW X, NEW out \in Outcomes
    PROVE  /\ Tell(t, tbl, X, out) \in [Asks -> Counts]
           /\ \A r \in Asks : /\ Registered(tbl, r) /\ r.key \in X => Sum(Tell(t, tbl, X, out)[r]) = Sum(t[r]) + 1
                              /\ ~(Registered(tbl, r) /\ r.key \in X) => Tell(t, tbl, X, out)[r] = t[r]
                              /\ Sum(t[r]) \in Nat
<1>1. \A r \in Asks : t[r] \in Counts
  OBVIOUS
<1>2. \A r \in Asks : Tell(t, tbl, X, out)[r] = IF Registered(tbl, r) /\ r.key \in X
                    THEN Counted(t[r], out, 1) ELSE t[r]
  BY DEF Tell
<1>3. ASSUME NEW r \in Asks
      PROVE  /\ Tell(t, tbl, X, out)[r] \in Counts /\ Sum(t[r]) \in Nat
             /\ Registered(tbl, r) /\ r.key \in X => Sum(Tell(t, tbl, X, out)[r]) = Sum(t[r]) + 1
  <2>1. /\ Counted(t[r], out, 1) \in Counts
        /\ Sum(Counted(t[r], out, 1)) = Sum(t[r]) + 1 /\ Sum(t[r]) \in Nat
    BY <1>1, Bump
  <2>2. \/ /\ Registered(tbl, r) /\ r.key \in X
           /\ Tell(t, tbl, X, out)[r] = Counted(t[r], out, 1)
        \/ ~(Registered(tbl, r) /\ r.key \in X) /\ Tell(t, tbl, X, out)[r] = t[r]
    BY <1>2
  <2> QED
    BY <1>1, <2>1, <2>2
<1>4. Tell(t, tbl, X, out) \in [Asks -> Counts]
  BY <1>3 DEF Tell
<1> QED
  BY <1>2, <1>3, <1>4

\* The table of one kind, not bounds, and what the clients were told, when the
\* entries X in progress are settled: in the other table of the two nothing changes.
LEMMA SettleTold ==
    ASSUME NEW tbl, tbl \in [DOMAIN tbl -> Entry],
           NEW other, other \in [DOMAIN other -> Entry],
           NEW A, NEW kind, NEW kindO, kind # kindO,
           Clients(tbl, kind, A), Clients(other, kindO, A),
           NEW t \in [Asks -> Counts], Untold(tbl, t), Untold(other, t), ToldOnce(t, A),
           NEW X, \A x \in X : InProgress(tbl, x), NEW out \in Outcomes
    PROVE  /\ Clients(Settle(tbl, X, out), kind, A)
           /\ Untold(Settle(tbl, X, out), Tell(t, tbl, X, out))
           /\ Untold(other, Tell(t, tbl, X, out))
           /\ ToldOnce(Tell(t, tbl, X, out), A)
<1> DEFINE T == Settle(tbl, X, out)
           u == Tell(t, tbl, X, out)
<1>1. /\ DOMAIN T = DOMAIN tbl
      /\ \A x \in DOMAIN tbl :
            /\ T[x].clients = tbl[x].clients
            /\ x \in X => T[x].state = out
            /\ x \notin X => T[x].state = tbl[x].state
  BY SettleFacts
<1>2. \A r \in Asks : /\ Registered(tbl, r) /\ r.key \in X => Sum(u[r]) = Sum(t[r]) + 1
                      /\ ~(Registered(tbl, r) /\ r.key \in X) => u[r] = t[r]
                      /\ Sum(t[r]) \in Nat
  BY TellFacts
<1>3. /\ \A x \in DOMAIN tbl : tbl[x].clients \subseteq Asks
      /\ \A x \in DOMAIN other : other[x].clients \subseteq Asks
  BY DEF Entry
<1> HIDE DEF T, u
<1>4. Clients(T, kind, A)
  BY <1>1 DEF Clients
<1>5. Untold(T, u)
  <2> SUFFICES ASSUME NEW x \in DOMAIN T, T[x].state = "in_progress", NEW r \in T[x].clients
               PROVE  Sum(u[r]) = 0
    BY DEF Untold
  <2>1. x \in DOMAIN tbl /\ x \notin X /\ tbl[x].state = "in_progress" /\ r \in tbl[x].clients
    BY <1>1 DEF Outcomes
  <2>2. r \in Asks /\ r.key = x
    BY <1>3, <2>1 DEF Clients
  <2>3. u[r] = t[r]
    BY <1>2, <2>1, <2>2
  <2> QED
    BY <2>1, <2>3 DEF Untold
<1>6. Untold(other, u)
  <2> SUFFICES ASSUME NEW x \in DOMAIN other, other[x].state = "in_progress", NEW r \in other[x].clients
               PROVE  Sum(u[r]) = 0
    BY DEF Untold
  <2>1. r \in Asks /\ r.kind = kindO
    BY <1>3 DEF Clients
  <2>2. ~Registered(tbl, r)
    BY <2>1 DEF Registered, Clients
  <2>3. u[r] = t[r]
    BY <1>2, <2>1, <2>2
  <2> QED
    BY <2>3 DEF Untold
<1>7. ToldOnce(u, A)
  <2> SUFFICES ASSUME NEW r \in Asks, r.kind # "bounds"
               PROVE  Sum(u[r]) <= 1 /\ (r \notin A => Sum(u[r]) = 0)
    BY DEF ToldOnce
  <2>1. Sum(t[r]) <= 1 /\ (r \notin A => Sum(t[r]) = 0)
    BY DEF ToldOnce
  <2>2. CASE Registered(tbl, r) /\ r.key \in X
    <3>1. r.key \in DOMAIN tbl /\ r \in tbl[r.key].clients /\ tbl[r.key].state = "in_progress"
      BY <2>2 DEF Registered, InProgress
    <3>2. Sum(t[r]) = 0 /\ r \in A
      BY <3>1 DEF Untold, Clients
    <3> QED
      BY <1>2, <2>2, <3>2
  <2>3. CASE ~(Registered(tbl, r) /\ r.key \in X)
    BY <1>2, <2>1, <2>3
  <2> QED
    BY <2>2, <2>3
<1> QED
  BY <1>4, <1>5, <1>6, <1>7 DEF T, u

\* The three tables with entries settled and their clients told.
ChainSettled(s, X, out) ==
    [s EXCEPT !.chain = Settle(@, X, out), !.told = Tell(@, s.chain, X, out)]
OrderSettled(s, X, out) ==
    [s EXCEPT !.order = Settle(@, X, out), !.told = Tell(@, s.order, X, out)]
BoundsSettled(s, v, X, out) ==
    /\ v = [chain |-> v.chain, bounds |-> v.bounds, order |-> v.order,
            told |-> v.told, sound |-> v.sound]
    /\ v.chain = s.chain /\ v.order = s.order /\ v.bounds = Settle(s.bounds, X, out)
    /\ v.told \in [Asks -> Counts]
    /\ \A r \in Asks : ~Registered(s.bounds, r) => v.told[r] = s.told[r]

LEMMA ChainSettles ==
    ASSUME NEW s, NEW A, Typed(s), Clean(s, A),
           NEW X, \A x \in X : InProgress(s.chain, x), NEW out \in Outcomes,
           NEW v, v = ChainSettled(s, X, out)
    PROVE  /\ Typed(v) /\ Clean(v, A)
           /\ v.chain = Settle(s.chain, X, out) /\ v.bounds = s.bounds /\ v.order = s.order
<1>1. /\ v = [chain |-> v.chain, bounds |-> v.bounds, order |-> v.order,
              told |-> v.told, sound |-> v.sound]
      /\ v.chain = Settle(s.chain, X, out) /\ v.told = Tell(s.told, s.chain, X, out)
      /\ v.bounds = s.bounds /\ v.order = s.order
  BY Zenon DEF Typed, ChainSettled
<1>2. Typed(v)
  BY <1>1, SettleFacts, TellFacts DEF Typed
<1>3. Clean(v, A)
  BY <1>1, SettleTold DEF Typed, Clean
<1> QED
  BY <1>1, <1>2, <1>3

LEMMA OrdersSettle ==
    ASSUME NEW s, NEW A, Typed(s), Clean(s, A),
           NEW X, \A x \in X : InProgress(s.order, x), NEW out \in Outcomes,
           NEW v, v = OrderSettled(s, X, out)
    PROVE  /\ Typed(v) /\ Clean(v, A)
           /\ v.chain = s.chain /\ v.bounds = s.bounds
<1>1. /\ v = [chain |-> v.chain, bounds |-> v.bounds, order |-> v.order,
              told |-> v.told, sound |-> v.sound]
      /\ v.order = Settle(s.order, X, out) /\ v.told = Tell(s.told, s.order, X, out)
      /\ v.bounds = s.bounds /\ v.chain = s.chain
  BY Zenon DEF Typed, OrderSettled
<1>2. Typed(v)
  BY <1>1, SettleFacts, TellFacts DEF Typed
<1>3. Clean(v, A)
  BY <1>1, SettleTold DEF Typed, Clean
<1> QED
  BY <1>1, <1>2, <1>3

\* A bounds discovery's clients may be told any number of times.
LEMMA BoundsSettle ==
    ASSUME NEW s, NEW A, Typed(s), Clean(s, A), NEW X, NEW out \in Outcomes,
           NEW v, BoundsSettled(s, v, X, out)
    PROVE  Typed(v) /\ Clean(v, A)
<1> USE DEF BoundsSettled
<1>1. Typed(v)
  BY SettleFacts DEF Typed
<1>2. \A r \in Asks : r.kind # "bounds" => v.told[r] = s.told[r]
  BY DEF Registered, Clean, Clients
<1>3. /\ Clients(v.chain, "chain", A) /\ Clients(v.order, "order", A)
      /\ Clients(s.bounds, "bounds", A)
  BY DEF Clean
<1>4. Clients(v.bounds, "bounds", A)
  <2>1. /\ DOMAIN v.bounds = DOMAIN s.bounds
        /\ \A x \in DOMAIN s.bounds : v.bounds[x].clients = s.bounds[x].clients
    BY SettleFacts DEF Typed
  <2> QED
    BY <1>3, <2>1 DEF Clients
<1>5. ASSUME NEW tbl, NEW kind, kind # "bounds", tbl \in [DOMAIN tbl -> Entry],
             Clients(tbl, kind, A), Untold(tbl, s.told)
      PROVE  Untold(tbl, v.told)
  <2> SUFFICES ASSUME NEW x \in DOMAIN tbl, tbl[x].state = "in_progress", NEW r \in tbl[x].clients
               PROVE  Sum(v.told[r]) = 0
    BY DEF Untold
  <2>1. r \in Asks /\ r.kind = kind /\ Sum(s.told[r]) = 0
    BY <1>5 DEF Entry, Clients, Untold
  <2> QED
    BY <1>2, <1>5, <2>1
<1>6. Untold(v.chain, v.told) /\ Untold(v.order, v.told)
  BY <1>3, <1>5 DEF Clean, Typed
<1>7. ToldOnce(v.told, A)
  BY <1>2 DEF Clean, ToldOnce
<1> QED
  BY <1>1, <1>3, <1>4, <1>6, <1>7 DEF Clean

LEMMA BoundsTellSettles ==
    ASSUME NEW s, Typed(s), NEW X, NEW out \in Outcomes,
           NEW v, v = [s EXCEPT !.bounds = Settle(@, X, out), !.told = Tell(@, s.bounds, X, out)]
    PROVE  BoundsSettled(s, v, X, out)
<1>1. /\ v = [chain |-> v.chain, bounds |-> v.bounds, order |-> v.order,
              told |-> v.told, sound |-> v.sound]
      /\ v.bounds = Settle(s.bounds, X, out) /\ v.told = Tell(s.told, s.bounds, X, out)
      /\ v.order = s.order /\ v.chain = s.chain
  BY Zenon DEF Typed
<1>2. /\ Tell(s.told, s.bounds, X, out) \in [Asks -> Counts]
      /\ \A r \in Asks : ~Registered(s.bounds, r) => Tell(s.told, s.bounds, X, out)[r] = s.told[r]
  BY TellFacts DEF Typed
<1> QED
  BY <1>1, <1>2 DEF BoundsSettled

LEMMA AbortBoundsGood ==
    ASSUME NEW s, NEW A, Typed(s), Clean(s, A), NEW X \in SUBSET Events, NEW k \in [Events -> Nat],
           NEW v, v = AbortBounds(s, X, k)
    PROVE  /\ Typed(v) /\ Clean(v, A)
           /\ v.chain = s.chain /\ v.order = s.order /\ v.bounds = Settle(s.bounds, X, "aborted")
<1> DEFINE t == [r \in Asks |-> IF Registered(s.bounds, r) /\ r.key \in X
                                THEN Counted(s.told[r], "aborted", k[r.key]) ELSE s.told[r]]
<1>1. /\ v = [chain |-> v.chain, bounds |-> v.bounds, order |-> v.order,
              told |-> v.told, sound |-> v.sound]
      /\ v.chain = s.chain /\ v.order = s.order /\ v.bounds = Settle(s.bounds, X, "aborted")
      /\ v.told = t
  BY Zenon DEF AbortBounds, Typed
<1>2. t \in [Asks -> Counts]
  <2> SUFFICES ASSUME NEW r \in Asks PROVE t[r] \in Counts
    OBVIOUS
  <2>1. s.told[r] \in Counts
    BY DEF Typed
  <2>2. r.key \in X => Counted(s.told[r], "aborted", k[r.key]) \in Counts
    BY <2>1, Bump DEF Outcomes
  <2> QED
    BY <2>1, <2>2
<1>3. \A r \in Asks : ~Registered(s.bounds, r) => t[r] = s.told[r]
  OBVIOUS
<1> HIDE DEF t
<1>4. "aborted" \in Outcomes
  BY DEF Outcomes
<1>5. BoundsSettled(s, v, X, "aborted")
  BY <1>1, <1>2, <1>3 DEF BoundsSettled
<1> QED
  BY <1>1, <1>4, <1>5, BoundsSettle

\* Once the bounds entries of X are settled only the others need their chain discovery.
LEMMA SettledDriven ==
    ASSUME NEW s, Typed(s), NEW Z, NEW X, NEW out \in Outcomes, NEW v,
           v.chain = s.chain, v.bounds = Settle(s.bounds, X, out),
           \A e \in Z : e \in DOMAIN s.bounds /\ s.bounds[e].state = "in_progress" => e \in X,
           DrivenBut(s, Z)
    PROVE  DrivenBut(v, {})
<1>1. /\ DOMAIN v.bounds = DOMAIN s.bounds
      /\ \A x \in DOMAIN s.bounds :
                 /\ x \in X => v.bounds[x].state = out
                 /\ x \notin X => v.bounds[x].state = s.bounds[x].state
  BY SettleFacts DEF Typed
<1> QED
  BY <1>1 DEF DrivenBut, Outcomes

LEMMA OnChainAbortedGood ==
    ASSUME NEW s, NEW A, NEW k \in [Events -> Nat], Good(s, A, {e \in Events : k[e] > 0})
    PROVE  Good(OnChainAborted(s, k), A, {}) /\ OnChainAborted(s, k).chain = s.chain
<1> DEFINE orders == {p \in DOMAIN s.order : InProgress(s.order, p) /\ k[p[1]] + k[p[2]] > 0}
           X == {e \in DOMAIN s.bounds : k[e] > 0}
           s1 == AbortBounds(s, X, k)
           v == [s1 EXCEPT !.order = Settle(@, orders, "aborted"),
                           !.told = Tell(@, s.order, orders, "aborted")]
<1>1. v = OnChainAborted(s, k)
  BY DEF OnChainAborted
<1>2. X \in SUBSET Events /\ "aborted" \in Outcomes
  BY DEF Good, Typed, Outcomes
<1>3. \A p \in orders : InProgress(s.order, p)
  OBVIOUS
<1>4. \A e \in {e \in Events : k[e] > 0} : e \in DOMAIN s.bounds /\ s.bounds[e].state = "in_progress" => e \in X
  OBVIOUS
<1> HIDE DEF orders, X
<1>5. /\ Typed(s1) /\ Clean(s1, A)
      /\ s1.chain = s.chain /\ s1.order = s.order /\ s1.bounds = Settle(s.bounds, X, "aborted")
  BY <1>2, AbortBoundsGood DEF Good
<1>6. DrivenBut(s1, {})
  BY <1>2, <1>4, <1>5, SettledDriven, Zenon DEF Good
<1> HIDE DEF s1
<1>7. v = OrderSettled(s1, orders, "aborted")
  BY <1>5 DEF OrderSettled
<1> HIDE DEF v
<1>8. Typed(v) /\ Clean(v, A) /\ v.chain = s1.chain /\ v.bounds = s1.bounds
  BY <1>2, <1>3, <1>5, <1>7, OrdersSettle
<1> QED
  BY <1>1, <1>5, <1>6, <1>8 DEF Good, DrivenBut

LEMMA OnChainCompletedGood ==
    ASSUME NEW s, NEW A, NEW e, Good(s, A, {e})
    PROVE  Good(OnChainCompleted(s, e), A, {}) /\ OnChainCompleted(s, e).chain = s.chain
<1> DEFINE Done(f) == f \in DOMAIN s.chain /\ s.chain[f].state = "completed"
           bs == {b \in {e} : InProgress(s.bounds, b)}
           orders == {p \in DOMAIN s.order :
                         /\ InProgress(s.order, p)
                         /\ (p[1] = e /\ Done(p[2])) \/ (p[2] = e /\ p[1] # e /\ Done(p[1]))}
           s1 == [s EXCEPT !.bounds = Settle(@, bs, "completed"),
                           !.told = Tell(@, s.bounds, bs, "completed")]
           v == [s EXCEPT !.bounds = Settle(@, bs, "completed"),
                          !.order = Settle(@, orders, "completed"),
                          !.told = Tell(Tell(@, s.bounds, bs, "completed"), s.order, orders, "completed")]
<1>1. v = OnChainCompleted(s, e)
  BY DEF OnChainCompleted
<1>2. "completed" \in Outcomes
  BY DEF Outcomes
<1>3. \A p \in orders : InProgress(s.order, p)
  OBVIOUS
<1>4. \A f \in {e} : f \in DOMAIN s.bounds /\ s.bounds[f].state = "in_progress" => f \in bs
  BY DEF InProgress
<1>5. Typed(s) /\ Clean(s, A) /\ DrivenBut(s, {e})
  BY DEF Good
<1> HIDE DEF orders, bs
<1>6. BoundsSettled(s, s1, bs, "completed")
  BY <1>2, <1>5, BoundsTellSettles, Zenon
<1>7. v = OrderSettled(s1, orders, "completed")
  BY <1>5, Zenon DEF OrderSettled, Typed
<1> HIDE DEF s1, v
<1>8. /\ Typed(s1) /\ Clean(s1, A)
      /\ s1.chain = s.chain /\ s1.order = s.order /\ s1.bounds = Settle(s.bounds, bs, "completed")
  BY <1>2, <1>5, <1>6, BoundsSettle, Zenon DEF BoundsSettled
<1>9. DrivenBut(s1, {})
  BY <1>2, <1>4, <1>5, <1>8, SettledDriven, Zenon
<1>10. Typed(v) /\ Clean(v, A) /\ v.chain = s1.chain /\ v.bounds = s1.bounds
  BY <1>2, <1>3, <1>7, <1>8, OrdersSettle
<1> QED
  BY <1>1, <1>8, <1>9, <1>10 DEF Good, DrivenBut

\* When chain discoveries are settled, the bounds discoveries they drive are left to settle.
LEMMA ChainSettledDriven ==
    ASSUME NEW s, Typed(s), NEW X, NEW out \in Outcomes, NEW v,
           v.chain = Settle(s.chain, X, out), v.bounds = s.bounds, DrivenBut(s, {})
    PROVE  DrivenBut(v, {e \in X : e \in DOMAIN s.chain /\ s.chain[e].node > 0})
<1>1. /\ DOMAIN v.chain = DOMAIN s.chain
      /\ \A x \in DOMAIN s.chain :
            /\ v.chain[x].node = s.chain[x].node
            /\ x \notin X => v.chain[x].state = s.chain[x].state
  BY SettleFacts DEF Typed
<1> QED
  BY <1>1 DEF DrivenBut

LEMMA AbortChainsGood ==
    ASSUME NEW s, NEW A, Good(s, A, {}), NEW X, \A x \in X : InProgress(s.chain, x)
    PROVE  /\ Good(AbortChains(s, X), A, {})
           /\ AbortChains(s, X).chain = Settle(s.chain, X, "aborted")
<1> DEFINE s1 == ChainSettled(s, X, "aborted")
           k == [e \in Events |-> IF e \in X THEN s.chain[e].node ELSE 0]
<1>1. AbortChains(s, X) = OnChainAborted(s1, k)
  BY DEF AbortChains, ChainSettled
<1>2. X \subseteq DOMAIN s.chain /\ DOMAIN s.chain \subseteq Events /\ "aborted" \in Outcomes
  BY DEF InProgress, Good, Typed, Outcomes
<1>3. k \in [Events -> Nat]
  BY <1>2 DEF Good, Typed, Entry
<1>4. \A e \in X : e \in Events /\ k[e] = s.chain[e].node
  BY <1>2
<1> HIDE DEF s1, k
<1>5. /\ Typed(s1) /\ Clean(s1, A)
      /\ s1.chain = Settle(s.chain, X, "aborted") /\ s1.bounds = s.bounds
  BY <1>2, ChainSettles DEF Good, s1
<1>6. DrivenBut(s1, {e \in X : e \in DOMAIN s.chain /\ s.chain[e].node > 0})
  BY <1>2, <1>5, ChainSettledDriven, Zenon DEF Good
<1>7. Good(s1, A, {e \in Events : k[e] > 0})
  BY <1>4, <1>5, <1>6 DEF Good, DrivenBut
<1> QED
  BY <1>1, <1>3, <1>5, <1>7, OnChainAbortedGood, Zenon

LEMMA CompleteChainGood ==
    ASSUME NEW s, NEW A, Good(s, A, {}), NEW e, InProgress(s.chain, e)
    PROVE  Good(CompleteChain(s, e), A, {})
<1> DEFINE s1 == ChainSettled(s, {e}, "completed")
<1>1. CompleteChain(s, e) = IF s.chain[e].node > 0 THEN OnChainCompleted(s1, e) ELSE s1
  BY DEF CompleteChain, ChainSettled
<1>2. "completed" \in Outcomes /\ \A x \in {e} : InProgress(s.chain, x)
  BY DEF Outcomes
<1> HIDE DEF s1
<1>3. /\ Typed(s1) /\ Clean(s1, A)
      /\ s1.chain = Settle(s.chain, {e}, "completed") /\ s1.bounds = s.bounds
  BY <1>2, ChainSettles DEF Good, s1
<1>4. DrivenBut(s1, {f \in {e} : f \in DOMAIN s.chain /\ s.chain[f].node > 0})
  BY <1>2, <1>3, ChainSettledDriven, Zenon DEF Good
<1>5. CASE s.chain[e].node > 0
  <2>1. Good(s1, A, {e})
    BY <1>3, <1>4, Zenon DEF Good, DrivenBut
  <2> QED
    BY <1>1, <1>5, <2>1, OnChainCompletedGood
<1>6. CASE ~(s.chain[e].node > 0)
  <2>1. Good(s1, A, {})
    BY <1>3, <1>4, <1>6, Zenon DEF Good, DrivenBut
  <2> QED
    BY <1>1, <1>6, <2>1
<1> QED
  BY <1>5, <1>6
-----------------------------------------------------------------------------
\* The requests of clients are issued now: nothing knows of them yet.
NewChainClients(clients, e, A) ==
    clients \in SUBSET Asks /\ \A r \in clients : r \notin A /\ r.kind = "chain" /\ r.key = e

LEMMA MoreAsked ==
    ASSUME NEW s, NEW A, NEW B, Clean(s, A), A \subseteq B
    PROVE  Clean(s, B)
BY DEF Clean, Clients, ToldOnce

LEMMA NewUntold ==
    ASSUME NEW s, NEW A, Typed(s), Clean(s, A), NEW clients, NEW e, NewChainClients(clients, e, A)
    PROVE  /\ \A r \in clients : Sum(s.told[r]) = 0
           /\ \A x \in DOMAIN s.chain : s.chain[x].clients \cap clients = {}
           /\ \A x \in DOMAIN s.order : s.order[x].clients \cap clients = {}
BY DEF NewChainClients, Clean, Clients, ToldOnce

\* insert_chain_discovery
LEMMA FreshGood ==
    ASSUME now \in Nat, NEW s, NEW A, Typed(s), Clean(s, A), NEW e \in Events, e \notin DOMAIN s.chain,
           NEW node \in Nat, NEW clients, NewChainClients(clients, e, A),
           DrivenBut(s, IF node > 0 THEN {e} ELSE {}),
           NEW v, v = [s EXCEPT !.chain = With(@, e, NewEntry(node, clients))]
    PROVE  Good(v, A \cup clients, {}) /\ InProgress(v.chain, e)
<1> DEFINE E == NewEntry(node, clients)
           C == With(s.chain, e, E)
<1>1. E \in Entry /\ E.state = "in_progress" /\ E.node = node /\ E.clients = clients
  BY DEF NewEntry, Entry, States, NewChainClients
<1> HIDE DEF E
<1>2. /\ DOMAIN C = DOMAIN s.chain \cup {e} /\ C[e] = E
      /\ \A x \in DOMAIN s.chain : C[x] = s.chain[x]
  BY DEF With
<1>3. C \in [DOMAIN C -> Entry]
  BY <1>1, <1>2 DEF With, Typed
<1>4. /\ v = [chain |-> v.chain, bounds |-> v.bounds, order |-> v.order,
              told |-> v.told, sound |-> v.sound]
      /\ v.chain = C /\ v.bounds = s.bounds /\ v.order = s.order /\ v.told = s.told
  BY DEF Typed, E
<1> HIDE DEF C
<1>5. Typed(v)
  BY <1>2, <1>3, <1>4 DEF Typed
<1>6. Clean(v, A \cup clients)
  <2>1. Clean(s, A \cup clients)
    BY MoreAsked
  <2>2. Clients(C, "chain", A \cup clients)
    <3> SUFFICES ASSUME NEW x \in DOMAIN C, NEW r \in C[x].clients
                 PROVE  r \in A \cup clients /\ r.kind = "chain" /\ r.key = x
      BY DEF Clients
    <3> QED
      BY <1>1, <1>2, <2>1 DEF Clean, Clients, NewChainClients
  <2>3. Untold(C, s.told)
    <3> SUFFICES ASSUME NEW x \in DOMAIN C, C[x].state = "in_progress", NEW r \in C[x].clients
                 PROVE  Sum(s.told[r]) = 0
      BY DEF Untold
    <3>1. \A q \in clients : Sum(s.told[q]) = 0
      BY NewUntold
    <3> QED
      BY <1>1, <1>2, <2>1, <3>1 DEF Clean, Untold
  <2> QED
    BY <1>4, <2>1, <2>2, <2>3 DEF Clean
<1>7. DrivenBut(v, {})
  <2> SUFFICES ASSUME NEW f \in DOMAIN s.bounds, s.bounds[f].state = "in_progress"
               PROVE  f \in DOMAIN C /\ C[f].state = "in_progress" /\ C[f].node > 0
    BY <1>4 DEF DrivenBut
  <2>1. CASE f = e
    <3>1. node > 0
      BY <2>1 DEF DrivenBut
    <3> QED
      BY <1>1, <1>2, <2>1, <3>1
  <2>2. CASE f # e
    BY <1>2, <2>2 DEF DrivenBut
  <2> QED
    BY <2>1, <2>2
<1> QED
  BY <1>1, <1>2, <1>4, <1>5, <1>6, <1>7 DEF Good, InProgress

LEMMA JoinFacts ==
    ASSUME NEW x \in Entry, NEW node \in Nat, NEW clients \in SUBSET Asks
    PROVE  /\ Join(x, node, clients) \in Entry
           /\ Join(x, node, clients).state = x.state
           /\ Join(x, node, clients).start = x.start
           /\ Join(x, node, clients).clients = x.clients \cup clients
           /\ x.node \in Nat /\ Join(x, node, clients).node \in Nat
           /\ Join(x, node, clients).node >= node /\ Join(x, node, clients).node >= x.node
<1>1. x.state \in States /\ x.start \in Nat /\ x.node \in Nat /\ x.clients \in SUBSET Asks
  BY DEF Entry
<1>2. x.clients \cup clients \in SUBSET Asks /\ x.node + node \in Nat
  BY <1>1
<1>3. Join(x, node, clients) = [state |-> x.state, start |-> x.start,
                                node |-> x.node + node, clients |-> x.clients \cup clients]
  BY DEF Join
<1>4. Join(x, node, clients) \in Entry
  BY <1>1, <1>2, <1>3 DEF Entry
<1> QED
  BY <1>1, <1>3, <1>4

\* A request joins a chain discovery in progress.
LEMMA JoinedGood ==
    ASSUME NEW s, NEW A, Typed(s), Clean(s, A), NEW e \in Events, InProgress(s.chain, e),
           NEW node \in Nat, NEW clients, NewChainClients(clients, e, A),
           DrivenBut(s, IF node > 0 THEN {e} ELSE {}),
           NEW v, v = [s EXCEPT !.chain[e] = Join(@, node, clients)]
    PROVE  Good(v, A \cup clients, {})
<1> DEFINE E == Join(s.chain[e], node, clients)
           C == [s.chain EXCEPT ![e] = E]
<1>0. e \in DOMAIN s.chain /\ s.chain[e] \in Entry /\ s.chain[e].state = "in_progress"
  BY DEF InProgress, Typed
<1>1. E \in Entry /\ E.node \in Nat /\ E.node >= node /\ E.node >= s.chain[e].node /\ s.chain[e].node \in Nat
  BY <1>0, JoinFacts DEF NewChainClients
<1>2. E.state = "in_progress" /\ E.clients = s.chain[e].clients \cup clients
  BY <1>0, JoinFacts DEF NewChainClients
<1>3. /\ v = [chain |-> v.chain, bounds |-> v.bounds, order |-> v.order,
              told |-> v.told, sound |-> v.sound]
      /\ v.bounds = s.bounds /\ v.order = s.order /\ v.told = s.told
  BY DEF Typed
<1>4. v.chain = C
  BY DEF Typed
<1> HIDE DEF E
<1>5. /\ DOMAIN C = DOMAIN s.chain /\ C[e] = E
      /\ \A x \in DOMAIN s.chain \ {e} : C[x] = s.chain[x]
      /\ C \in [DOMAIN C -> Entry]
  BY <1>0, <1>1 DEF Typed
<1> HIDE DEF C
<1>6. Typed(v)
  BY <1>3, <1>4, <1>5, Zenon DEF Typed
<1>7. Clean(v, A \cup clients)
  <2>1. Clean(s, A \cup clients)
    BY MoreAsked
  <2>2. Clients(C, "chain", A \cup clients)
    <3> SUFFICES ASSUME NEW x \in DOMAIN C, NEW r \in C[x].clients
                 PROVE  r \in A \cup clients /\ r.kind = "chain" /\ r.key = x
      BY DEF Clients
    <3> QED
      BY <1>2, <1>5, <2>1 DEF Clean, Clients, NewChainClients
  <2>3. Untold(C, s.told)
    <3> SUFFICES ASSUME NEW x \in DOMAIN C, C[x].state = "in_progress", NEW r \in C[x].clients
                 PROVE  Sum(s.told[r]) = 0
      BY DEF Untold
    <3>1. \A q \in clients : Sum(s.told[q]) = 0
      BY NewUntold
    <3> QED
      BY <1>0, <1>2, <1>5, <2>1, <3>1 DEF Clean, Untold
  <2> QED
    BY <1>3, <1>4, <2>1, <2>2, <2>3 DEF Clean
<1>8. DrivenBut(v, {})
  <2> SUFFICES ASSUME NEW f \in DOMAIN s.bounds, s.bounds[f].state = "in_progress"
               PROVE  f \in DOMAIN C /\ C[f].state = "in_progress" /\ C[f].node > 0
    BY <1>3, <1>4 DEF DrivenBut
  <2>1. CASE f = e
    <3>1. node > 0 \/ s.chain[e].node > 0
      BY <2>1 DEF DrivenBut
    <3> QED
      BY <1>0, <1>1, <1>2, <1>5, <2>1, <3>1
  <2>2. CASE f # e
    BY <1>5, <2>2 DEF DrivenBut
  <2> QED
    BY <2>1, <2>2
<1> QED
  BY <1>6, <1>7, <1>8 DEF Good

\* A settled chain discovery answers at once.
LEMMA AnswerGood ==
    ASSUME NEW s, NEW A, Good(s, A, {}), NEW e, NEW clients, NewChainClients(clients, e, A),
           NEW out \in Outcomes,
           NEW v, v = [s EXCEPT !.told = [r \in Asks |->
                          IF r \in clients THEN Counted(@[r], out, 1) ELSE @[r]]]
    PROVE  Good(v, A \cup clients, {})
<1> DEFINE t == [r \in Asks |-> IF r \in clients THEN Counted(s.told[r], out, 1) ELSE s.told[r]]
<1>1. /\ v = [chain |-> v.chain, bounds |-> v.bounds, order |-> v.order,
              told |-> v.told, sound |-> v.sound]
      /\ v.chain = s.chain /\ v.bounds = s.bounds /\ v.order = s.order /\ v.told = t
  BY DEF Good, Typed
<1>2. /\ Typed(s) /\ Clean(s, A) /\ Clean(s, A \cup clients)
      /\ clients \in SUBSET Asks /\ s.told \in [Asks -> Counts]
  BY MoreAsked DEF Good, Typed, NewChainClients
<1>3. /\ \A r \in clients : Sum(s.told[r]) = 0
      /\ \A x \in DOMAIN s.chain : s.chain[x].clients \cap clients = {}
      /\ \A x \in DOMAIN s.order : s.order[x].clients \cap clients = {}
  BY <1>2, NewUntold
<1>4. \A r \in clients : t[r] \in Counts /\ Sum(t[r]) = 1
  BY <1>2, <1>3, Bump
<1>5. \A r \in Asks \ clients : t[r] = s.told[r]
  OBVIOUS
<1>6. t \in [Asks -> Counts]
  <2>1. \A r \in Asks : t[r] \in Counts
    BY <1>2, <1>4, <1>5, Zenon
  <2> QED
    BY <2>1
<1> HIDE DEF t
<1>7. Typed(v)
  BY <1>1, <1>2, <1>6 DEF Typed
<1>8. ToldOnce(t, A \cup clients)
  <2> SUFFICES ASSUME NEW r \in Asks, r.kind # "bounds"
               PROVE  Sum(t[r]) <= 1 /\ (r \notin A \cup clients => Sum(t[r]) = 0)
    BY DEF ToldOnce
  <2>1. CASE r \in clients
    BY <1>4, <2>1
  <2>2. CASE r \notin clients
    BY <1>2, <1>5, <2>2 DEF Clean, ToldOnce
  <2> QED
    BY <2>1, <2>2
<1>9. ASSUME NEW tbl, tbl \in [DOMAIN tbl -> Entry], Untold(tbl, s.told),
             \A x \in DOMAIN tbl : tbl[x].clients \cap clients = {}
      PROVE  Untold(tbl, t)
  <2> SUFFICES ASSUME NEW x \in DOMAIN tbl, tbl[x].state = "in_progress", NEW r \in tbl[x].clients
               PROVE  Sum(t[r]) = 0
    BY DEF Untold
  <2>1. r \in Asks \ clients
    BY <1>9 DEF Entry
  <2> QED
    BY <1>5, <1>9, <2>1 DEF Untold
<1>10. Untold(s.chain, t) /\ Untold(s.order, t)
  BY <1>2, <1>3, <1>9 DEF Clean, Typed
<1>11. Clean(v, A \cup clients)
  BY <1>1, <1>2, <1>8, <1>10 DEF Clean
<1> QED
  BY <1>1, <1>7, <1>11 DEF Good, DrivenBut

\* discover_event_chain keeps the bookkeeping sound, with the node's own callback also
\* for the bounds discovery that has just been made for e.
LEMMA DiscoverChainGood ==
    ASSUME now \in Nat, NEW s, NEW A, Typed(s), Clean(s, A), NEW e \in Events,
           NEW node \in {0, 1}, NEW clients, NewChainClients(clients, e, A),
           node = 1 => clients = {},
           DrivenBut(s, IF node > 0 THEN {e} ELSE {}),
           NEW v \in DiscoverChain(s, e, node, clients)
    PROVE  Good(v, A \cup clients, {})
<1> DEFINE fresh == [s EXCEPT !.chain = With(@, e, NewEntry(node, clients))]
           Joined == [s EXCEPT !.chain[e] = Join(@, node, clients)]
           Answer(out) == [s EXCEPT !.told = [r \in Asks |->
                             IF r \in clients THEN Counted(@[r], out, 1) ELSE @[r]]]
           k == [f \in Events |-> IF f = e THEN 1 ELSE 0]
<1>1. CASE e \notin DOMAIN s.chain
  <2>1. Good(fresh, A \cup clients, {}) /\ InProgress(fresh.chain, e)
    BY <1>1, FreshGood, Zenon
  <2>2. v \in {fresh, CompleteChain(fresh, e), AbortChains(fresh, {e})}
    BY <1>1 DEF DiscoverChain, InProgress
  <2> HIDE DEF fresh
  <2>3. Good(CompleteChain(fresh, e), A \cup clients, {})
    BY <2>1, CompleteChainGood
  <2>4. Good(AbortChains(fresh, {e}), A \cup clients, {})
    BY <2>1, AbortChainsGood
  <2> QED
    BY <2>1, <2>2, <2>3, <2>4
<1>2. CASE InProgress(s.chain, e)
  <2>1. e \in DOMAIN s.chain
    BY <1>2 DEF InProgress
  <2>2. v = Joined
    BY <1>2, <2>1 DEF DiscoverChain
  <2> QED
    BY <1>2, <2>2, JoinedGood, Zenon
<1>3. CASE e \in DOMAIN s.chain /\ ~InProgress(s.chain, e)
  <2>1. s.chain[e].state \in Outcomes
    BY <1>3 DEF InProgress, Typed, Entry, States, Outcomes
  <2>2. CASE node = 0
    <3>1. v = Answer(s.chain[e].state)
      BY <1>3, <2>2 DEF DiscoverChain
    <3>2. Good(s, A, {})
      BY <2>2 DEF Good
    <3> QED
      BY <2>1, <3>1, <3>2, AnswerGood
  <2>3. CASE node = 1
    <3>1. A \cup clients = A /\ Good(s, A, {e})
      BY <2>3 DEF Good
    <3>2. v = OnChainCompleted(s, e) \/ v = OnChainAborted(s, k)
      BY <1>3, <2>3 DEF DiscoverChain
    <3>3. k \in [Events -> Nat] /\ k[e] = 1
      OBVIOUS
    <3> HIDE DEF k
    <3>4. Good(OnChainCompleted(s, e), A, {})
      BY <3>1, OnChainCompletedGood
    <3>5. Good(OnChainAborted(s, k), A, {})
      <4>1. Good(s, A, {f \in Events : k[f] > 0})
        BY <3>1, <3>3 DEF Good, DrivenBut
      <4> QED
        BY <3>3, <4>1, OnChainAbortedGood, Zenon
    <3> QED
      BY <3>1, <3>2, <3>4, <3>5
  <2> QED
    BY <2>2, <2>3
<1> QED
  BY <1>1, <1>2, <1>3
-----------------------------------------------------------------------------
\* Dropping entries.
LEMMA WithoutFacts ==
    ASSUME NEW tbl, tbl \in [DOMAIN tbl -> Entry], NEW D
    PROVE  /\ DOMAIN Without(tbl, D) = DOMAIN tbl \ D
           /\ \A x \in DOMAIN tbl \ D : Without(tbl, D)[x] = tbl[x]
           /\ Without(tbl, D) \in [DOMAIN tbl \ D -> Entry]
BY DEF Without

LEMMA FewerClients ==
    ASSUME NEW tbl, tbl \in [DOMAIN tbl -> Entry], NEW D, NEW kind, NEW A, NEW t
    PROVE  /\ Clients(tbl, kind, A) => Clients(Without(tbl, D), kind, A)
           /\ Untold(tbl, t) => Untold(Without(tbl, D), t)
<1>1. /\ DOMAIN Without(tbl, D) = DOMAIN tbl \ D
      /\ \A x \in DOMAIN tbl \ D : Without(tbl, D)[x] = tbl[x]
  BY WithoutFacts, Zenon
<1> QED
  BY <1>1 DEF Clients, Untold

LEMMA DropChains ==
    ASSUME NEW s, NEW A, Good(s, A, {}), NEW D,
           NEW X, X = {e \in D : InProgress(s.chain, e)},
           NEW v, v = [AbortChains(s, X) EXCEPT !.chain = Without(@, D)]
    PROVE  Good(v, A, {})
<1> DEFINE s1 == AbortChains(s, X)
<1>2. \A x \in X : InProgress(s.chain, x)
  OBVIOUS
<1>3. \A e \in DOMAIN s.chain : e \in D /\ s.chain[e].state = "in_progress" => e \in X
  BY DEF InProgress
<1>1. v = [s1 EXCEPT !.chain = Without(@, D)]
  OBVIOUS
<1>4. Good(s1, A, {}) /\ s1.chain = Settle(s.chain, X, "aborted")
  BY <1>2, AbortChainsGood
<1> HIDE DEF s1
<1>5. Typed(s1) /\ Clean(s1, A) /\ DrivenBut(s1, {})
  BY <1>4 DEF Good
<1>6. /\ v = [chain |-> v.chain, bounds |-> v.bounds, order |-> v.order,
              told |-> v.told, sound |-> v.sound]
      /\ v.chain = Without(s1.chain, D) /\ v.bounds = s1.bounds /\ v.order = s1.order /\ v.told = s1.told
  BY <1>1, <1>5, Zenon DEF Typed
<1>7. /\ DOMAIN v.chain = DOMAIN s1.chain \ D
      /\ \A x \in DOMAIN s1.chain \ D : v.chain[x] = s1.chain[x]
      /\ v.chain \in [DOMAIN v.chain -> Entry]
  <2>1. s1.chain \in [DOMAIN s1.chain -> Entry]
    BY <1>5 DEF Typed
  <2>2. v.chain = Without(s1.chain, D)
    BY <1>6
  <2> QED
    BY <2>1, <2>2 DEF Without
<1>8. Typed(v)
  BY <1>5, <1>6, <1>7, Zenon DEF Typed
<1>9. Clean(v, A)
  BY <1>5, <1>6, FewerClients, SMTT(20) DEF Clean, Typed
<1>10. \A e \in DOMAIN s1.chain : s1.chain[e].state = "in_progress" => e \notin D
  <2>1. /\ DOMAIN s1.chain = DOMAIN s.chain
        /\ \A x \in DOMAIN s.chain : /\ x \in X => s1.chain[x].state = "aborted"
                                     /\ x \notin X => s1.chain[x].state = s.chain[x].state
    BY <1>4, SettleFacts DEF Good, Typed, Outcomes
  <2> QED
    BY <1>3, <2>1
<1>11. DrivenBut(v, {})
  BY <1>5, <1>6, <1>7, <1>10 DEF DrivenBut
<1> QED
  BY <1>8, <1>9, <1>11 DEF Good

LEMMA DropBounds ==
    ASSUME NEW s, NEW A, Good(s, A, {}), NEW D,
           NEW X, X = {e \in D : InProgress(s.bounds, e)},
           NEW v, v = [AbortBounds(s, X, [e \in Events |-> 1]) EXCEPT !.bounds = Without(@, D)]
    PROVE  Good(v, A, {})
<1> DEFINE k == [e \in Events |-> 1]
           s1 == AbortBounds(s, X, k)
<1>1. v = [s1 EXCEPT !.bounds = Without(@, D)]
  OBVIOUS
<1>2. X \in SUBSET Events /\ k \in [Events -> Nat] /\ "aborted" \in Outcomes
  BY DEF InProgress, Good, Typed, Outcomes
<1> HIDE DEF k
<1>3. /\ Typed(s1) /\ Clean(s1, A) /\ s1.chain = s.chain /\ s1.bounds = Settle(s.bounds, X, "aborted")
  BY <1>2, AbortBoundsGood DEF Good
<1> HIDE DEF s1
<1>4. DrivenBut(s1, {})
  BY <1>2, <1>3, SettledDriven, Zenon DEF Good
<1>5. /\ v = [chain |-> v.chain, bounds |-> v.bounds, order |-> v.order,
              told |-> v.told, sound |-> v.sound]
      /\ v.bounds = Without(s1.bounds, D) /\ v.chain = s1.chain /\ v.order = s1.order /\ v.told = s1.told
  BY <1>1, <1>3, Zenon DEF Typed
<1>6. /\ DOMAIN v.bounds = DOMAIN s1.bounds \ D
      /\ \A x \in DOMAIN s1.bounds \ D : v.bounds[x] = s1.bounds[x]
      /\ v.bounds \in [DOMAIN v.bounds -> Entry]
  <2>1. s1.bounds \in [DOMAIN s1.bounds -> Entry]
    BY <1>3 DEF Typed
  <2>2. v.bounds = Without(s1.bounds, D)
    BY <1>5
  <2> QED
    BY <2>1, <2>2, Zenon DEF Without
<1>7. Typed(v)
  BY <1>3, <1>5, <1>6, Zenon DEF Typed
<1>8. Clean(v, A)
  <2>0. Clients(s1.bounds, "bounds", A)
    BY <1>3 DEF Clean
  <2>1. Clients(v.bounds, "bounds", A)
    BY <1>6, <2>0 DEF Clients
  <2> QED
    BY <1>3, <1>5, <2>1 DEF Clean
<1>9. DrivenBut(v, {})
  BY <1>4, <1>5, <1>6 DEF DrivenBut
<1> QED
  BY <1>7, <1>8, <1>9 DEF Good

LEMMA DropOrders ==
    ASSUME NEW s, NEW A, Good(s, A, {}), NEW D,
           NEW X, X = {p \in D : InProgress(s.order, p)},
           NEW v, v = [s EXCEPT !.order = Without(@, D), !.told = Tell(@, s.order, X, "aborted")]
    PROVE  Good(v, A, {})
<1> DEFINE s1 == OrderSettled(s, X, "aborted")
<1>2. X \subseteq D /\ (\A p \in X : InProgress(s.order, p)) /\ "aborted" \in Outcomes
  BY DEF Outcomes
<1>3. Typed(s) /\ Clean(s, A) /\ DrivenBut(s, {})
  BY DEF Good
<1>4. s1.told = Tell(s.told, s.order, X, "aborted")
  BY <1>3 DEF OrderSettled, Typed
<1>5. Typed(s1) /\ Clean(s1, A) /\ s1.chain = s.chain /\ s1.bounds = s.bounds
  BY <1>2, <1>3, OrdersSettle
<1> HIDE DEF s1
<1>6. /\ v = [chain |-> v.chain, bounds |-> v.bounds, order |-> v.order,
              told |-> v.told, sound |-> v.sound]
      /\ v.order = Without(s.order, D) /\ v.chain = s.chain /\ v.bounds = s.bounds /\ v.told = s1.told
  <2>1. /\ v = [chain |-> v.chain, bounds |-> v.bounds, order |-> v.order,
                told |-> v.told, sound |-> v.sound]
        /\ v.order = Without(s.order, D) /\ v.chain = s.chain /\ v.bounds = s.bounds
        /\ v.told = Tell(s.told, s.order, X, "aborted")
    BY <1>3, Zenon DEF Typed
  <2> QED
    BY <1>4, <2>1
<1>7. /\ DOMAIN v.order = DOMAIN s.order \ D
      /\ \A x \in DOMAIN s.order \ D : v.order[x] = s.order[x]
      /\ v.order \in [DOMAIN v.order -> Entry]
  <2>1. s.order \in [DOMAIN s.order -> Entry]
    BY <1>3 DEF Typed
  <2>2. v.order = Without(s.order, D)
    BY <1>6
  <2> QED
    BY <2>1, <2>2 DEF Without
<1>8. Typed(v)
  BY <1>3, <1>5, <1>6, <1>7, Zenon DEF Typed
<1>9. Clients(v.order, "order", A)
  BY <1>3, <1>6, FewerClients, Zenon DEF Clean, Typed
<1>10. Untold(v.order, v.told)
  <2> SUFFICES ASSUME NEW x \in DOMAIN v.order, v.order[x].state = "in_progress",
                      NEW r \in v.order[x].clients
               PROVE  Sum(v.told[r]) = 0
    BY DEF Untold
  <2>1. x \in DOMAIN s.order /\ x \notin X /\ r \in s.order[x].clients /\ s.order[x].state = "in_progress"
    BY <1>2, <1>7
  <2>2. r \in Asks /\ r.key = x /\ Sum(s.told[r]) = 0
    BY <1>3, <2>1 DEF Clean, Clients, Untold, Typed, Entry
  <2>3. s1.told[r] = s.told[r]
    BY <1>2, <1>3, <1>4, <2>1, <2>2, TellFacts DEF Typed
  <2> QED
    BY <1>6, <2>2, <2>3
<1>11. Clean(v, A)
  BY <1>3, <1>5, <1>6, <1>9, <1>10 DEF Clean
<1> QED
  BY <1>3, <1>6, <1>8, <1>11 DEF Good, DrivenBut

\* The whole pass of purge_discoveries.
LEMMA PurgeGood ==
    ASSUME NEW s, NEW A, Good(s, A, {})
    PROVE  Good(PurgedOrders(PurgedBounds(PurgedChains(s))), A, {})
<1>1. ASSUME NEW t, Good(t, A, {})
      PROVE  Good(PurgedChains(t), A, {})
  BY <1>1, DropChains, Zenon DEF PurgedChains
<1>2. ASSUME NEW t, Good(t, A, {})
      PROVE  Good(PurgedBounds(t), A, {})
  BY <1>2, DropBounds, Zenon DEF PurgedBounds
<1>3. ASSUME NEW t, Good(t, A, {})
      PROVE  Good(PurgedOrders(t), A, {})
  BY <1>3, DropOrders, Zenon DEF PurgedOrders
<1> QED
  BY <1>1, <1>2, <1>3

-----------------------------------------------------------------------------
\* A new entry in the table of bounds or of order discoveries (insert_*_discovery).
LEMMA NewEntryFacts ==
    ASSUME now \in Nat, NEW r \in Asks
    PROVE  /\ NewEntry(0, {r}) \in Entry /\ NewEntry(0, {r}).state = "in_progress"
           /\ NewEntry(0, {r}).clients = {r}
BY DEF NewEntry, Entry, States

\* Request r becomes a client of the entry of its key, new or in progress.
OneMore(tbl, T, r) ==
    /\ DOMAIN T = DOMAIN tbl \cup {r.key}
    /\ \A z \in DOMAIN tbl : z # r.key => T[z] = tbl[z]
    /\ \/ T[r.key].clients = {r}
       \/ /\ r.key \in DOMAIN tbl /\ T[r.key].clients = tbl[r.key].clients \cup {r}
          /\ T[r.key].state = tbl[r.key].state

LEMMA OneMoreClient ==
    ASSUME NEW tbl, NEW T, NEW r, OneMore(tbl, T, r),
           NEW kind, NEW A, r.kind = kind, Clients(tbl, kind, A)
    PROVE  Clients(T, kind, A \cup {r})
<1> SUFFICES ASSUME NEW x \in DOMAIN T, NEW q \in T[x].clients
             PROVE  q \in A \cup {r} /\ q.kind = kind /\ q.key = x
  BY DEF Clients
<1>1. CASE x # r.key
  BY <1>1 DEF OneMore, Clients
<1>2. CASE x = r.key /\ q = r
  BY <1>2
<1>3. CASE x = r.key /\ q # r
  BY <1>3 DEF OneMore, Clients
<1> QED
  BY <1>1, <1>2, <1>3

LEMMA OneMoreUntold ==
    ASSUME NEW tbl, NEW T, NEW r, OneMore(tbl, T, r),
           NEW t, Untold(tbl, t), Sum(t[r]) = 0
    PROVE  Untold(T, t)
<1> SUFFICES ASSUME NEW x \in DOMAIN T, T[x].state = "in_progress", NEW q \in T[x].clients
             PROVE  Sum(t[q]) = 0
  BY DEF Untold
<1>1. CASE x # r.key
  BY <1>1 DEF OneMore, Untold
<1>2. CASE x = r.key /\ q = r
  BY <1>2
<1>3. CASE x = r.key /\ q # r
  BY <1>3 DEF OneMore, Untold
<1> QED
  BY <1>1, <1>2, <1>3

LEMMA NewOneMore ==
    ASSUME NEW tbl, NEW r, NEW E, E.clients = {r}, NEW T, T = With(tbl, r.key, E)
    PROVE  OneMore(tbl, T, r)
<1>1. /\ DOMAIN T = DOMAIN tbl \cup {r.key} /\ T[r.key] = E
      /\ \A z \in DOMAIN tbl : z # r.key => T[z] = tbl[z]
  BY DEF With
<1> QED
  BY <1>1 DEF OneMore

LEMMA NewBounds ==
    ASSUME now \in Nat, NEW s, NEW A, Good(s, A, {}), NEW r \in Asks, r.kind = "bounds", r.key \in Events,
           NEW E, E = NewEntry(0, {r}),
           NEW v, v = [s EXCEPT !.bounds = With(@, r.key, E)]
    PROVE  Typed(v) /\ Clean(v, A \cup {r}) /\ DrivenBut(v, {r.key})
<1>1. E \in Entry /\ E.clients = {r}
  BY NewEntryFacts
<1>2. Typed(s) /\ Clean(s, A \cup {r}) /\ DrivenBut(s, {})
  BY MoreAsked DEF Good
<1>3. /\ v = [chain |-> v.chain, bounds |-> v.bounds, order |-> v.order,
              told |-> v.told, sound |-> v.sound]
      /\ v.bounds = With(s.bounds, r.key, E) /\ v.chain = s.chain /\ v.order = s.order /\ v.told = s.told
  BY <1>2 DEF Typed
<1>4. /\ DOMAIN v.bounds = DOMAIN s.bounds \cup {r.key}
      /\ v.bounds \in [DOMAIN v.bounds -> Entry]
      /\ v.bounds[r.key] = E
      /\ \A z \in DOMAIN s.bounds : z # r.key => v.bounds[z] = s.bounds[z]
  <2>1. s.bounds \in [DOMAIN s.bounds -> Entry]
    BY <1>2 DEF Typed
  <2>2. v.bounds = With(s.bounds, r.key, E)
    BY <1>3
  <2> QED
    BY <1>1, <2>1, <2>2 DEF With
<1>5. Typed(v)
  BY <1>2, <1>3, <1>4, Zenon DEF Typed
<1>6. Clean(v, A \cup {r})
  <2>1. Clients(v.bounds, "bounds", A \cup {r})
    <3>1. Clients(s.bounds, "bounds", A)
      BY DEF Good, Clean
    <3>2. OneMore(s.bounds, v.bounds, r)
      BY <1>1, <1>3, NewOneMore, Zenon
    <3> QED
      BY <3>1, <3>2, OneMoreClient
  <2> QED
    BY <1>2, <1>3, <2>1 DEF Clean
<1>7. DrivenBut(v, {r.key})
  <2> SUFFICES ASSUME NEW e \in DOMAIN v.bounds \ {r.key}, v.bounds[e].state = "in_progress"
               PROVE  e \in DOMAIN v.chain /\ v.chain[e].state = "in_progress" /\ v.chain[e].node > 0
    BY Zenon DEF DrivenBut
  <2>1. e \in DOMAIN s.bounds \ {} /\ s.bounds[e].state = "in_progress"
    BY <1>4
  <2>2. e \in DOMAIN s.chain /\ s.chain[e].state = "in_progress" /\ s.chain[e].node > 0
    BY <1>2, <2>1 DEF DrivenBut
  <2> QED
    BY <1>3, <2>2
<1> QED
  BY <1>5, <1>6, <1>7

LEMMA NewOrder ==
    ASSUME now \in Nat, NEW s, NEW A, Good(s, A, {}), NEW r \in Asks \ A,
           r.kind = "order", r.key \in Events \X Events,
           NEW E, E = NewEntry(0, {r}),
           NEW v, v = [s EXCEPT !.order = With(@, r.key, E)]
    PROVE  Good(v, A \cup {r}, {})
<1>1. E \in Entry /\ E.clients = {r}
  BY NewEntryFacts
<1>2. Typed(s) /\ Clean(s, A \cup {r}) /\ DrivenBut(s, {}) /\ Sum(s.told[r]) = 0
  BY MoreAsked DEF Good, Clean, ToldOnce
<1>3. /\ v = [chain |-> v.chain, bounds |-> v.bounds, order |-> v.order,
              told |-> v.told, sound |-> v.sound]
      /\ v.order = With(s.order, r.key, E) /\ v.chain = s.chain /\ v.bounds = s.bounds /\ v.told = s.told
  BY <1>2 DEF Typed
<1>4. /\ DOMAIN v.order = DOMAIN s.order \cup {r.key}
      /\ v.order \in [DOMAIN v.order -> Entry]
      /\ v.order[r.key] = E
      /\ \A z \in DOMAIN s.order : z # r.key => v.order[z] = s.order[z]
  <2>1. s.order \in [DOMAIN s.order -> Entry]
    BY <1>2 DEF Typed
  <2>2. v.order = With(s.order, r.key, E)
    BY <1>3
  <2> QED
    BY <1>1, <2>1, <2>2 DEF With
<1>5. Typed(v)
  BY <1>2, <1>3, <1>4, Zenon DEF Typed
<1>6. Clean(v, A \cup {r})
  <2>0. Clients(s.order, "order", A) /\ Untold(s.order, v.told) /\ Sum(v.told[r]) = 0
    BY <1>2, <1>3 DEF Good, Clean
  <2>3. OneMore(s.order, v.order, r)
    BY <1>1, <1>3, NewOneMore, Zenon
  <2>1. Clients(v.order, "order", A \cup {r})
    BY <2>0, <2>3, OneMoreClient
  <2>2. Untold(v.order, v.told)
    BY <2>0, <2>3, OneMoreUntold
  <2> QED
    BY <1>2, <1>3, <2>1, <2>2 DEF Clean
<1> QED
  BY <1>2, <1>3, <1>5, <1>6 DEF DrivenBut, Good

\* A request for a key that has an entry: it joins one in progress, and is told the
\* outcome of a settled one at once.
LEMMA CoalesceFacts ==
    ASSUME NEW tbl, tbl \in [DOMAIN tbl -> Entry], NEW r \in Asks, r.key \in DOMAIN tbl,
           NEW T, T = Coalesce(tbl, r)
    PROVE  /\ DOMAIN T = DOMAIN tbl /\ T \in [DOMAIN tbl -> Entry]
           /\ \A x \in DOMAIN tbl : T[x].state = tbl[x].state
           /\ tbl[r.key].state = "in_progress" => OneMore(tbl, T, r)
           /\ tbl[r.key].state # "in_progress" => T = tbl
<1>1. CASE tbl[r.key].state # "in_progress"
  BY <1>1 DEF Coalesce
<1>2. CASE tbl[r.key].state = "in_progress"
  <2> DEFINE J == Join(tbl[r.key], 0, {r})
  <2>1. J \in Entry /\ J.state = tbl[r.key].state /\ J.clients = tbl[r.key].clients \cup {r}
    BY JoinFacts
  <2>2. T = [tbl EXCEPT ![r.key] = J]
    BY <1>2 DEF Coalesce
  <2> HIDE DEF J
  <2>3. /\ DOMAIN T = DOMAIN tbl /\ T \in [DOMAIN tbl -> Entry]
        /\ T[r.key] = J /\ \A z \in DOMAIN tbl : z # r.key => T[z] = tbl[z]
    BY <2>1, <2>2
  <2>4. OneMore(tbl, T, r)
    BY <2>1, <2>3 DEF OneMore
  <2> QED
    BY <1>2, <2>1, <2>3, <2>4
<1> QED
  BY <1>1, <1>2

LEMMA CoalesceToldFacts ==
    ASSUME NEW tbl, tbl \in [DOMAIN tbl -> Entry], NEW r \in Asks, r.key \in DOMAIN tbl,
           told \in [Asks -> Counts], NEW t, t = CoalesceTold(tbl, r)
    PROVE  /\ t \in [Asks -> Counts]
           /\ \A q \in Asks : q # r => t[q] = told[q]
           /\ tbl[r.key].state = "in_progress" => t = told
           /\ tbl[r.key].state # "in_progress" => Sum(t[r]) = Sum(told[r]) + 1
<1>1. CASE tbl[r.key].state = "in_progress"
  BY <1>1 DEF CoalesceTold
<1>2. CASE tbl[r.key].state # "in_progress"
  <2> DEFINE out == tbl[r.key].state
             u == Counted(told[r], out, 1)
  <2>1. out \in Outcomes /\ told[r] \in Counts
    BY <1>2 DEF Entry, States, Outcomes
  <2>2. u \in Counts /\ Sum(u) = Sum(told[r]) + 1
    BY <2>1, Bump
  <2>3. t = [told EXCEPT ![r] = u]
    BY <1>2 DEF CoalesceTold
  <2> HIDE DEF u, out
  <2>4. t \in [Asks -> Counts] /\ t[r] = u /\ \A q \in Asks : q # r => t[q] = told[q]
    BY <2>2, <2>3
  <2> QED
    BY <1>2, <2>2, <2>4
<1> QED
  BY <1>1, <1>2

LEMMA CoalesceBounds ==
    ASSUME NEW s, NEW A, Good(s, A, {}), s.told = told, NEW r \in Asks, r.kind = "bounds",
           r.key \in DOMAIN s.bounds, NEW B, B = Coalesce(s.bounds, r), NEW t, t = CoalesceTold(s.bounds, r),
           NEW v, v = [s EXCEPT !.bounds = B, !.told = t]
    PROVE  Good(v, A \cup {r}, {})
<1>1. Typed(s) /\ Clean(s, A \cup {r}) /\ DrivenBut(s, {}) /\ Clients(s.bounds, "bounds", A)
  BY MoreAsked DEF Good, Clean
<1>2. s.bounds \in [DOMAIN s.bounds -> Entry] /\ told \in [Asks -> Counts]
  BY <1>1 DEF Typed
<1>3. /\ v = [chain |-> v.chain, bounds |-> v.bounds, order |-> v.order,
              told |-> v.told, sound |-> v.sound]
      /\ v.bounds = B /\ v.chain = s.chain /\ v.order = s.order /\ v.told = t
  BY <1>1, Zenon DEF Typed
<1>4. /\ DOMAIN B = DOMAIN s.bounds /\ B \in [DOMAIN s.bounds -> Entry]
      /\ \A x \in DOMAIN s.bounds : B[x].state = s.bounds[x].state
      /\ s.bounds[r.key].state = "in_progress" => OneMore(s.bounds, B, r)
      /\ s.bounds[r.key].state # "in_progress" => B = s.bounds
  BY <1>2, CoalesceFacts
<1>5. t \in [Asks -> Counts] /\ \A q \in Asks : q # r => t[q] = s.told[q]
  BY <1>2, CoalesceToldFacts
<1>6. Typed(v)
  BY <1>1, <1>3, <1>4, <1>5 DEF Typed
<1>7. Clients(B, "bounds", A \cup {r})
  <2>1. Clients(s.bounds, "bounds", A \cup {r})
    BY <1>1 DEF Clean
  <2> QED
    BY <1>1, <1>4, <2>1, OneMoreClient, Zenon
<1>8. Untold(v.chain, v.told) /\ Untold(v.order, v.told)
  <2>1. /\ Clients(s.chain, "chain", A \cup {r}) /\ Clients(s.order, "order", A \cup {r})
        /\ Untold(s.chain, s.told) /\ Untold(s.order, s.told)
    BY <1>1 DEF Clean
  <2>2. /\ \A x \in DOMAIN s.chain : s.chain[x].clients \subseteq Asks
        /\ \A x \in DOMAIN s.order : s.order[x].clients \subseteq Asks
    BY <1>1 DEF Typed, Entry
  <2>3. Untold(s.chain, t)
    BY <1>5, <2>1, <2>2 DEF Clients, Untold
  <2>4. Untold(s.order, t)
    BY <1>5, <2>1, <2>2 DEF Clients, Untold
  <2> QED
    BY <1>3, <2>3, <2>4
<1>9. ToldOnce(v.told, A \cup {r})
  BY <1>1, <1>3, <1>5 DEF Clean, ToldOnce
<1>10. Clean(v, A \cup {r})
  BY <1>1, <1>3, <1>7, <1>8, <1>9 DEF Clean
<1>11. DrivenBut(v, {})
  BY <1>1, <1>3, <1>4 DEF DrivenBut
<1> QED
  BY <1>6, <1>10, <1>11 DEF Good

LEMMA CoalesceOrder ==
    ASSUME NEW s, NEW A, Good(s, A, {}), s.told = told, NEW r \in Asks \ A, r.kind = "order",
           r.key \in DOMAIN s.order, NEW O, O = Coalesce(s.order, r), NEW t, t = CoalesceTold(s.order, r),
           NEW v, v = [s EXCEPT !.order = O, !.told = t]
    PROVE  Good(v, A \cup {r}, {})
<1>1. /\ Typed(s) /\ Clean(s, A \cup {r}) /\ DrivenBut(s, {})
      /\ Clients(s.order, "order", A) /\ Clients(s.chain, "chain", A) /\ Sum(s.told[r]) = 0
      /\ Untold(s.order, s.told) /\ Untold(s.chain, s.told)
  BY MoreAsked DEF Good, Clean, ToldOnce
<1>2. s.order \in [DOMAIN s.order -> Entry] /\ told \in [Asks -> Counts]
  BY <1>1 DEF Typed
<1>3. /\ v = [chain |-> v.chain, bounds |-> v.bounds, order |-> v.order,
              told |-> v.told, sound |-> v.sound]
      /\ v.order = O /\ v.chain = s.chain /\ v.bounds = s.bounds /\ v.told = t
  BY <1>1, Zenon DEF Typed
<1>4. /\ DOMAIN O = DOMAIN s.order /\ O \in [DOMAIN s.order -> Entry]
      /\ s.order[r.key].state = "in_progress" => OneMore(s.order, O, r)
      /\ s.order[r.key].state # "in_progress" => O = s.order
  BY <1>2, CoalesceFacts
<1>5. /\ t \in [Asks -> Counts] /\ \A q \in Asks : q # r => t[q] = s.told[q]
      /\ s.order[r.key].state = "in_progress" => t = s.told
      /\ s.order[r.key].state # "in_progress" => Sum(t[r]) = Sum(s.told[r]) + 1
  BY <1>2, CoalesceToldFacts
<1>6. Typed(v)
  BY <1>1, <1>3, <1>4, <1>5 DEF Typed
<1>7. Clients(O, "order", A \cup {r})
  <2>1. Clients(s.order, "order", A \cup {r})
    BY <1>1 DEF Clean
  <2> QED
    BY <1>1, <1>4, <2>1, OneMoreClient
<1>8. Untold(s.chain, t) /\ Untold(O, t)
  <2>1. CASE s.order[r.key].state = "in_progress"
    BY <1>1, <1>4, <1>5, <2>1, OneMoreUntold
  <2>2. CASE s.order[r.key].state # "in_progress"
    <3>1. /\ \A x \in DOMAIN s.chain : s.chain[x].clients \subseteq Asks \ {r}
          /\ \A x \in DOMAIN s.order : s.order[x].clients \subseteq Asks \ {r}
      BY <1>1 DEF Typed, Entry, Clients
    <3>2. Untold(s.chain, t)
      BY <1>1, <1>5, <3>1 DEF Untold
    <3>3. Untold(s.order, t)
      BY <1>1, <1>5, <3>1 DEF Untold
    <3> QED
      BY <1>4, <2>2, <3>2, <3>3
  <2> QED
    BY <2>1, <2>2
<1>9. ToldOnce(t, A \cup {r})
  BY <1>1, <1>5 DEF Clean, ToldOnce
<1>10. Clean(v, A \cup {r})
  BY <1>1, <1>3, <1>7, <1>8, <1>9 DEF Clean
<1> QED
  BY <1>1, <1>3, <1>6, <1>10 DEF Good, DrivenBut
-----------------------------------------------------------------------------
\* The inductive invariant.
BookInv == Good(S, asked, {}) /\ asked \subseteq Asks /\ now \in Nat

\* The bookkeeping state after a step is the record the handler computed.
LEMMA BecomesGood ==
    ASSUME NEW v, Becomes(v), NEW A, Good(v, A, {}), asked' = A
    PROVE  Good(S, asked, {})'
<1>1. S' = v
  <2>1. v = [chain |-> v.chain, bounds |-> v.bounds, order |-> v.order,
             told |-> v.told, sound |-> v.sound]
    BY DEF Good, Typed
  <2> QED
    BY <2>1 DEF S, Becomes
<1>2. Good(S', asked', {})
  BY <1>1
<1> QED
  BY <1>2 DEF Good, Typed, Clean, DrivenBut, Clients, Untold, ToldOnce, Sum

LEMMA StateFields ==
    /\ S.chain = chain /\ S.bounds = bounds /\ S.order = order /\ S.told = told
BY DEF S

LEMMA AnyBut ==
    ASSUME NEW s, NEW Z, DrivenBut(s, {})
    PROVE  DrivenBut(s, Z)
BY DEF DrivenBut

LEMMA AskChainGood ==
    ASSUME BookInv, NEW r \in Asks, AskChain(r)
    PROVE  Good(S, asked, {})'
<1>1. /\ r.kind = "chain" /\ r \notin asked /\ asked' = asked \cup {r} /\ r.key \in Events
  BY AsksAssumption DEF AskChain, Ask
<1>2. PICK v \in DiscoverChain(S, r.key, 0, {r}) : Becomes(v)
  BY DEF AskChain
<1>3. /\ NewChainClients({r}, r.key, asked) /\ now \in Nat /\ Typed(S) /\ Clean(S, asked)
      /\ DrivenBut(S, {})
  BY <1>1 DEF NewChainClients, BookInv, Good
<1>4. Good(v, asked \cup {r}, {})
  <2> DEFINE n == 0
             C == {r}
  <2>1. /\ n \in {0, 1} /\ (n = 1 => C = {}) /\ DrivenBut(S, IF n > 0 THEN {r.key} ELSE {})
        /\ NewChainClients(C, r.key, asked) /\ v \in DiscoverChain(S, r.key, n, C)
    BY <1>2, <1>3
  <2> HIDE DEF n, C
  <2>2. Good(v, asked \cup C, {})
    BY <1>1, <1>3, <2>1, DiscoverChainGood, Zenon
  <2> QED
    BY <2>2 DEF C
<1> QED
  BY <1>1, <1>2, <1>4, BecomesGood

\* A chain discovery that the node starts for itself.
LEMMA OwnDiscovery ==
    ASSUME now \in Nat, NEW s, NEW A, Typed(s), Clean(s, A), NEW e \in Events, DrivenBut(s, {e}),
           NEW v \in DiscoverChain(s, e, 1, {})
    PROVE  Good(v, A, {})
<1> DEFINE n == 1
           C == {}
<1>1. /\ n \in {0, 1} /\ (n = 1 => C = {}) /\ DrivenBut(s, IF n > 0 THEN {e} ELSE {})
      /\ NewChainClients(C, e, A) /\ v \in DiscoverChain(s, e, n, C)
  BY DEF NewChainClients
<1>2. A \cup C = A
  OBVIOUS
<1> HIDE DEF n, C
<1>3. Good(v, A \cup C, {})
  BY <1>1, DiscoverChainGood
<1> QED
  BY <1>2, <1>3

LEMMA AskBoundsGood ==
    ASSUME BookInv, NEW r \in Asks, AskBounds(r)
    PROVE  Good(S, asked, {})'
<1>1. /\ r.kind = "bounds" /\ r \notin asked /\ asked' = asked \cup {r} /\ r.key \in Events
  BY AsksAssumption DEF AskBounds, Ask
<1>2. Good(S, asked, {}) /\ now \in Nat
  BY DEF BookInv
<1>3. CASE r.key \in DOMAIN bounds
  <2>1. Becomes([S EXCEPT !.bounds = Coalesce(@, r), !.told = CoalesceTold(bounds, r)])
    BY <1>3 DEF AskBounds
  <2>2. Good([S EXCEPT !.bounds = Coalesce(@, r), !.told = CoalesceTold(bounds, r)], asked \cup {r}, {})
    BY <1>1, <1>2, <1>3, StateFields, CoalesceBounds, Zenon
  <2> QED
    BY <1>1, <2>1, <2>2, BecomesGood
<1>4. CASE r.key \notin DOMAIN bounds
  <2> DEFINE s1 == [S EXCEPT !.bounds = With(@, r.key, NewEntry(0, {r}))]
  <2>1. PICK v \in DiscoverChain(s1, r.key, 1, {}) : Becomes(v)
    BY <1>4 DEF AskBounds
  <2>2. Typed(s1) /\ Clean(s1, asked \cup {r}) /\ DrivenBut(s1, {r.key})
    BY SMTT(30), <1>1, <1>2, NewBounds
  <2> HIDE DEF s1
  <2>3. Good(v, asked \cup {r}, {})
    BY <1>1, <1>2, <2>2, OwnDiscovery
  <2> QED
    BY <1>1, <2>1, <2>3, BecomesGood
<1> QED
  BY <1>3, <1>4

LEMMA AskOrderGood ==
    ASSUME BookInv, NEW r \in Asks, AskOrder(r)
    PROVE  Good(S, asked, {})'
<1>1. /\ r.kind = "order" /\ r \notin asked /\ asked' = asked \cup {r} /\ r.key \in Events \X Events
  BY AsksAssumption DEF AskOrder, Ask
<1>2. Good(S, asked, {}) /\ now \in Nat /\ r.key[1] \in Events /\ r.key[2] \in Events
  BY <1>1 DEF BookInv
<1>3. CASE r.key \in DOMAIN order
  <2>1. Becomes([S EXCEPT !.order = Coalesce(@, r), !.told = CoalesceTold(order, r)])
    BY <1>3 DEF AskOrder
  <2>2. Good([S EXCEPT !.order = Coalesce(@, r), !.told = CoalesceTold(order, r)], asked \cup {r}, {})
    BY <1>1, <1>2, <1>3, StateFields, CoalesceOrder, Zenon
  <2> QED
    BY <1>1, <2>1, <2>2, BecomesGood
<1>4. CASE r.key \notin DOMAIN order
  <2> DEFINE s0 == [S EXCEPT !.order = With(@, r.key, NewEntry(0, {r}))]
  <2>1. PICK s1 \in DiscoverChain(s0, r.key[1], 1, {}) :
          \E s2 \in DiscoverChain(s1, r.key[2], 1, {}) : Becomes(s2)
    BY <1>4 DEF AskOrder
  <2>2. PICK s2 \in DiscoverChain(s1, r.key[2], 1, {}) : Becomes(s2)
    BY <2>1
  <2>3. Good(s0, asked \cup {r}, {})
    BY <1>1, <1>2, NewOrder
  <2> HIDE DEF s0
  <2>4. Good(s1, asked \cup {r}, {})
    BY <1>2, <2>3, AnyBut, OwnDiscovery, Zenon DEF Good
  <2>5. Good(s2, asked \cup {r}, {})
    BY <1>2, <2>4, AnyBut, OwnDiscovery, Zenon DEF Good
  <2> QED
    BY <1>1, <2>2, <2>5, BecomesGood
<1> QED
  BY <1>3, <1>4
LEMMA InitBook == Init => BookInv
<1> SUFFICES ASSUME Init
             PROVE  BookInv
  OBVIOUS
<1>1. /\ DOMAIN S.chain = {} /\ DOMAIN S.bounds = {} /\ DOMAIN S.order = {}
      /\ S.chain \in [{} -> Entry] /\ S.bounds \in [{} -> Entry] /\ S.order \in [{} -> Entry]
      /\ S.told = [r \in Asks |-> [completed |-> 0, aborted |-> 0]]
      /\ S = [chain |-> S.chain, bounds |-> S.bounds, order |-> S.order, told |-> S.told, sound |-> S.sound]
  BY DEF Init, S
<1>2. Typed(S)
  BY <1>1 DEF Typed, Counts
<1>3. \A r \in Asks : Sum(S.told[r]) = 0
  BY <1>1 DEF Sum
<1>4. Clean(S, asked)
  BY <1>1, <1>3 DEF Clean, Clients, Untold, ToldOnce
<1>5. DrivenBut(S, {})
  BY <1>1 DEF DrivenBut
<1> QED
  BY <1>2, <1>4, <1>5 DEF BookInv, Good, Init

LEMMA NextBook == BookInv /\ [Next]_vars => BookInv'
<1> SUFFICES ASSUME BookInv, [Next]_vars
             PROVE  BookInv'
  OBVIOUS
<1>0. Good(S, asked, {}) /\ asked \subseteq Asks /\ now \in Nat
  BY DEF BookInv
<1>1. ASSUME NEW r \in Asks, AskChain(r)
      PROVE  BookInv'
  BY SMTT(30), <1>0, <1>1, AskChainGood DEF AskChain, Ask, BookInv
<1>2. ASSUME NEW r \in Asks, AskBounds(r)
      PROVE  BookInv'
  BY <1>0, <1>2, AskBoundsGood, Zenon DEF AskBounds, Ask, BookInv
<1>3. ASSUME NEW r \in Asks, AskOrder(r)
      PROVE  BookInv'
  BY <1>0, <1>3, AskOrderGood, Zenon DEF AskOrder, Ask, BookInv
<1>4. ASSUME NEW e \in Events, Respond(e)
      PROVE  BookInv'
  <2>1. InProgress(S.chain, e) /\ asked' = asked /\ now' = now
    BY <1>4, StateFields DEF Respond
  <2>2. PICK v \in {CompleteChain(S, e), AbortChains(S, {e})} : Becomes(v)
    BY <1>4 DEF Respond
  <2>3. Good(CompleteChain(S, e), asked, {})
    BY <1>0, <2>1, CompleteChainGood
  <2>4. Good(AbortChains(S, {e}), asked, {})
    BY <1>0, <2>1, AbortChainsGood
  <2>5. Good(S, asked, {})'
    BY <2>1, <2>2, <2>3, <2>4, BecomesGood
  <2> QED
    BY <1>0, <2>1, <2>5 DEF BookInv
<1>5. ASSUME Purge
      PROVE  BookInv'
  <2>1. Becomes(PurgedOrders(PurgedBounds(PurgedChains(S)))) /\ asked' = asked /\ now' = now
    BY <1>5 DEF Purge
  <2>2. Good(S, asked, {})'
    BY <1>0, <2>1, PurgeGood, BecomesGood
  <2> QED
    BY <1>0, <2>1, <2>2 DEF BookInv
<1>6. ASSUME UNCHANGED <<chain, bounds, order, told, sound, asked>>, now' \in Nat
      PROVE  BookInv'
  <2>1. Becomes(S)
    BY <1>6 DEF Becomes, S
  <2>2. Good(S, asked, {})'
    BY <1>0, <1>6, <2>1, BecomesGood
  <2> QED
    BY <1>0, <1>6, <2>2 DEF BookInv
<1>7. ASSUME Advance
      PROVE  BookInv'
  BY <1>0, <1>6, <1>7 DEF Advance
<1>8. ASSUME StepBack
      PROVE  BookInv'
  BY <1>0, <1>6, <1>8 DEF StepBack
<1>9. ASSUME UNCHANGED vars
      PROVE  BookInv'
  BY <1>0, <1>6, <1>9 DEF vars
<1> QED
  BY <1>1, <1>2, <1>3, <1>4, <1>5, <1>7, <1>8, <1>9 DEF Next

\* The bookkeeping invariant holds in every state, whatever the requests, the expiry
\* and the steps of the wall clock.
THEOREM Bookkeeping == Spec => []BookInv
BY InitBook, NextBook, PTL DEF Spec

\* However a chain or order request is coalesced, expired or restarted, its callback
\* is told at most one outcome (abort_*_discovery, complete_*_discovery).
THEOREM OneAnswer == Spec => []AnsweredOnce
<1>1. BookInv => AnsweredOnce
  BY StateFields DEF BookInv, Good, Clean, ToldOnce, Sum, AnsweredOnce
<1> QED
  BY <1>1, Bookkeeping, PTL

\* A bounds discovery in progress has a chain discovery in progress that reports to
\* it: the purge and the settling of chains never leave it without one.
THEOREM NeverStranded == Spec => []BoundsDriven
<1>1. BookInv => BoundsDriven
  BY StateFields DEF BookInv, Good, DrivenBut, InProgress, BoundsDriven
<1> QED
  BY <1>1, Bookkeeping, PTL
=============================================================================
