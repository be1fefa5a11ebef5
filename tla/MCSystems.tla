---------------------------- MODULE MCSystems ----------------------------
(* Values of the constants of Systems for TLC. *)
EXTENDS Systems

\* The in-memory queue of each instance, or one queue all share.
OwnOrShared == {[i \in Instances |-> i], [i \in Instances |-> "shared"]}

PerPart == [catalog |-> 4, healthcheck |-> 3, incident |-> 3]
=============================================================================
