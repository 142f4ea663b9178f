------------------------------- MODULE Store -------------------------------
(***************************************************************************)
(* What the Node may rely on of any store behind the port                  *)
(* (core/ports/store.hpp): a call either takes effect exactly as the       *)
(* in-memory store defines it, or throws and changes nothing; a crash      *)
(* brings back a state the store really had, and with durability per call  *)
(* the one it had last.                                                    *)
(***************************************************************************)
EXTENDS InMemoryStore

CONSTANTS
    Calls,   \* the calls a client may make
    NoCall   \* no call is being served

VARIABLES
    lazy,  \* TRUE iff a call may return before it is durable
    mem,   \* what the reads return
    past,  \* the states a crash may bring back
    call,  \* the call being served
    ret    \* how the last call ended: "none", "ok" or "threw"

storeVars == <<lazy, mem, past, call, ret>>

StoreInit ==
    /\ lazy \in BOOLEAN
    /\ mem = EmptyMem
    /\ past = {EmptyMem}
    /\ call = NoCall
    /\ ret = "none"

Invoke ==
    /\ call = NoCall
    /\ call' \in Calls
    /\ ret' = "none"
    /\ UNCHANGED <<lazy, mem, past>>

Perform ==
    /\ call # NoCall
    /\ mem' = Apply(mem, call)
    /\ past' = IF lazy THEN past \cup {mem'} ELSE {mem'}
    /\ call' = NoCall
    /\ ret' = "ok"
    /\ UNCHANGED lazy

Throw ==
    /\ call # NoCall
    /\ call' = NoCall
    /\ ret' = "threw"
    /\ UNCHANGED <<lazy, mem, past>>

Flush ==
    /\ past' = {mem}
    /\ UNCHANGED <<lazy, mem, call, ret>>

Crash ==
    /\ mem' \in past
    /\ past' = {mem'}
    /\ call' = NoCall
    /\ ret' = "none"
    /\ UNCHANGED lazy

\* The process alone ends: nothing is lost, and nothing more is durable.
Exit ==
    /\ call' = NoCall
    /\ ret' = "none"
    /\ UNCHANGED <<lazy, mem, past>>

StoreNext == Invoke \/ Perform \/ Throw \/ Flush \/ Crash \/ Exit

StoreSpec == StoreInit /\ [][StoreNext]_storeVars
=============================================================================
