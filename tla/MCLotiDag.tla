----------------------------- MODULE MCLotiDag -----------------------------
(* Instances of LotiDag for TLC. *)
EXTENDS LotiDag, TLC

CONSTANTS a, b

\* Two nodes; b learns of a only at run time (AddNeighbor).
PeersAB == (a :> {b}) @@ (b :> {})
PeersNone == a :> {}

KeepTwo == [c \in Chains |-> 2]
\* Chain 0 is pruned to two clock events, slower chains keep everything.
KeepFastTwo == [c \in Chains |-> IF c = 0 THEN 2 ELSE 0]
KeepFastOne == [c \in Chains |-> IF c = 0 THEN 1 ELSE 0]
=============================================================================
