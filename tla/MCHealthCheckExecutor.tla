----------------------- MODULE MCHealthCheckExecutor -----------------------
(* Instances of HealthCheckExecutor for TLC. *)
EXTENDS HealthCheckExecutor

\* One check in each mode.
Mixed ==
  [c \in Checks |->
     IF c = "c1" THEN [mode |-> "consecutive", healthy |-> 1, degraded |-> 1, unhealthy |-> 2]
     ELSE [mode |-> "window", windowSize |-> 2, degraded |-> 1, unhealthy |-> 2]]

\* A failure of one check degrades the system, one of the other makes it unhealthy.
Unequal ==
  [c \in Checks |->
     IF c = "c1" THEN [mode |-> "consecutive", healthy |-> 1, degraded |-> 1, unhealthy |-> 2]
     ELSE [mode |-> "window", windowSize |-> 1, degraded |-> 1, unhealthy |-> 1]]
=============================================================================
