--------------------------- MODULE MCDiscoveries ---------------------------
(* Instances of Discoveries for TLC. *)
EXTENDS Discoveries

CONSTANTS e, f  \* an event of the node itself and one of another node

Ask1(kind, key) == [kind |-> kind, key |-> key, id |-> 1]
Ask2(kind, key) == [kind |-> kind, key |-> key, id |-> 2]

\* Two bounds requests coalesce on f, an order request needs both events, and a
\* chain request for either event may come before or after.
AsksMixed == {Ask1("bounds", f), Ask2("bounds", f), Ask1("order", <<e, f>>),
              Ask1("chain", f), Ask1("chain", e)}
=============================================================================
