-------------------------- MODULE MCChainDiscovery --------------------------
(* Instances of ChainDiscovery for TLC. *)
EXTENDS ChainDiscovery, TLC

CONSTANTS
    a, b, c,  \* nodes
    Script    \* the objects created first: creator, "tick" or "event", wall-clock time

PeersNone == a :> {}
PeersMutual == (a :> {b}) @@ (b :> {a})
PeersLine == (a :> {b}) @@ (b :> {a, c}) @@ (c :> {b})

KeepTwo == [k \in Chains |-> 2]
KeepFour == [k \in Chains |-> 4]
KeepFastOne == [k \in Chains |-> IF k = 0 THEN 1 ELSE 0]

NoScript == <<>>
\* a and b have heard of each other.
ScriptPair == << <<a, "tick", 0>>, <<b, "tick", 0>> >>
\* On the line a - b - c an event of c is enclosed all the way to a; b references
\* only the second of c's ticks that follow it.
ScriptLine == << <<c, "tick", 0>>, <<a, "tick", 0>>, <<b, "tick", 0>>, <<c, "tick", 0>>,
                 <<c, "event", 0>>, <<c, "tick", 1>>, <<c, "tick", 1>>, <<b, "tick", 1>>,
                 <<c, "tick", 1>>, <<a, "tick", 1>> >>

\* A notification of a sender's newest tick that was not delivered yet.
Fresh(m) == /\ m.tip = last[m.from][m.chain]
            /\ tip[m.to][m.from][m.chain] # m.tip

\* While the script runs, its objects are created in order and every notification
\* is delivered at once; the state space is unrestricted from its end on.
Scripted ==
    births < Len(Script) =>
        LET n == Script[births + 1][1]
            at == Script[births + 1][3]
        IN
        \/ now[n] < at /\ AdvanceClock(n)
        \/ /\ \A m \in notes : ~Fresh(m)
           /\ now[n] = at
           /\ IF Script[births + 1][2] = "tick" THEN CreateClockEvent(n, 0) ELSE Publish(n)
        \/ \E m \in notes : Fresh(m) /\ ReceiveNotification(m.to, m)
=============================================================================
