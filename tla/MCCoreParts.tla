----------------------------- MODULE MCCoreParts ----------------------------
(* Instances of CoreParts for TLC. *)
EXTENDS CoreParts

CONSTANTS c1, c2, c3, g1, g2

\* c1 and c2 compete in one group, c3 is alone in another.
TwoGroups == [c \in Consumers |-> IF c = c3 THEN g2 ELSE g1]
OwnGroups == [c \in Consumers |-> IF c = c1 THEN g1 ELSE g2]
=============================================================================
