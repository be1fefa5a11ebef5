-------------------------- MODULE MCInMemoryQueue --------------------------
(***************************************************************************)
(* Small queues for TLC: which jobs exist and what they look like.         *)
(***************************************************************************)
EXTENDS InMemoryQueue

\* Jobs of callers, with a priority above the default for one of them.
OwnIds == [j \in Jobs |-> j]
HighFirst == [j \in Jobs |-> IF j = "high" THEN 1 ELSE 0]
FirstHigh == [j \in Jobs |-> IF j = "first" THEN 1 ELSE 0]
NotRecurring == [j \in Jobs |-> NoRecurring]

\* Two objects created by calls that pass the same jobId.
SharedIds == [j \in Jobs |-> IF j \in {"first", "second"} THEN "same" ELSE j]

\* Instances of an interval job and of a cron job.
Instances == [j \in Jobs |-> CASE j \in {"i1", "i2"} -> "interval"
                               [] j \in {"c1", "c2"} -> "cron"
                               [] OTHER -> NoRecurring]
=============================================================================
