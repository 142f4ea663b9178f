------------------------------ MODULE Reactor ------------------------------
(***************************************************************************)
(* The event loop of the daemon (adapters/os/reactor.hpp): due timers      *)
(* first, then one epoll_wait whose events are handled one after the       *)
(* other.  What is ready is decided when epoll_wait returns, so an event   *)
(* is handled after whatever the earlier ones of the same batch have done. *)
(***************************************************************************)
EXTENDS Naturals, FiniteSets

CONSTANTS
    Timers,      \* the periodic timers: each handler arms the next one when it is done
    MayFail,     \* those whose handler may throw
    MaxFailures  \* bound on handlers that throw

ASSUME TimersAssumption == MayFail \subseteq Timers /\ MaxFailures \in Nat

VARIABLES
    running,   \* running_
    ready,     \* the events of the batch that are still to be handled
    armed,     \* timers_
    failures   \* handlers of timers that threw

reactorVars == <<running, ready, armed, failures>>

ReactorInit ==
    /\ running = TRUE
    /\ ready = {}
    /\ armed = Timers
    /\ failures = 0

\* The size of the events array.
MaxEvents == 16

\* epoll_wait returns the descriptors that are readable now, as many as there is room for.
Batches(readable) ==
    IF Cardinality(readable) <= MaxEvents THEN {readable}
    ELSE {B \in SUBSET readable : Cardinality(B) = MaxEvents}

Wait(readable) ==
    /\ running
    /\ ready = {}
    /\ readable # {}
    /\ ready' \in Batches(readable)
    /\ UNCHANGED <<running, armed, failures>>

\* The next event of the batch; the batch is finished even when the loop is to stop.
Take(x, stop) ==
    /\ x \in ready
    /\ ready' = ready \ {x}
    /\ running' = (running /\ ~stop)
    /\ UNCHANGED <<armed, failures>>

\* A timer is taken off the queue and its handler arms the next one at its end.
Fire(t) ==
    /\ running
    /\ ready = {}
    /\ t \in armed
    /\ UNCHANGED reactorVars

\* The handler throws before it gets there; safe_call drops the exception.
FireAndFail(t) ==
    /\ running
    /\ ready = {}
    /\ t \in armed \cap MayFail
    /\ failures < MaxFailures
    /\ failures' = failures + 1
    /\ armed' = armed \ {t}
    /\ UNCHANGED <<running, ready>>
=============================================================================
