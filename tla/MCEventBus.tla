----------------------------- MODULE MCEventBus -----------------------------
(* Instances of EventBus for TLC. *)
EXTENDS EventBus

CONSTANTS l1, l2, l3, g1, g2, g3

\* Every listener in a group of its own ...
OwnGroup == [l \in Listeners |-> CASE l = l1 -> g1 [] l = l2 -> g2 [] OTHER -> g3]
\* ... or l1 and l2 in one: two broadcast listeners of one plugin, or a worker
\* group that is left and joined again.
SharedGroup == [l \in Listeners |-> IF l = l3 THEN g3 ELSE g1]
=============================================================================
