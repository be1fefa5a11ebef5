--------------------------- MODULE StateEvaluator ---------------------------
(***************************************************************************)
(* core/healthcheck-backend/src/state-evaluator.ts: the status of a check  *)
(* from its recent runs, newest first, and its thresholds. Only the status *)
(* of a run matters.                                                       *)
(***************************************************************************)
EXTENDS Integers, Sequences, FiniteSets

\* Definitions named ...Mutant are plausible bugs, used only to show that the
\* properties of the modules that use this one can fail.

HealthCheckStatus == {"healthy", "degraded", "unhealthy"}

Failed(status) == status # "healthy"

\* The streak of failures, and of successes, the newest run ends.
IsStreak(runs, failures, n) == \A i \in 1..n : Failed(runs[i]) = failures
Streak(runs, failures) ==
  CHOOSE n \in 0..Len(runs) :
    /\ IsStreak(runs, failures, n)
    /\ n < Len(runs) => ~IsStreak(runs, failures, n + 1)

\* The last alternative: too little history, the latest run decides.
EvaluateConsecutive(runs, t) ==
  LET failures == Streak(runs, TRUE)
  IN IF failures >= t.unhealthy THEN "unhealthy"
     ELSE IF failures >= t.degraded THEN "degraded"
     ELSE IF Streak(runs, FALSE) >= t.healthy THEN "healthy" ELSE runs[1]

FailuresInWindow(runs, windowSize) ==
  Cardinality({i \in 1..Len(runs) : i <= windowSize /\ Failed(runs[i])})

EvaluateWindow(runs, t) ==
  LET failureCount == FailuresInWindow(runs, t.windowSize)
  IN IF failureCount >= t.unhealthy THEN "unhealthy"
     ELSE IF failureCount >= t.degraded THEN "degraded" ELSE "healthy"

EvaluateHealthStatus(runs, t) ==
  IF runs = << >> THEN "healthy"
  ELSE IF t.mode = "consecutive" THEN EvaluateConsecutive(runs, t) ELSE EvaluateWindow(runs, t)

\* Worst status wins.
Worst(statuses) ==
  IF "unhealthy" \in statuses THEN "unhealthy"
  ELSE IF "degraded" \in statuses THEN "degraded" ELSE "healthy"
=============================================================================
