--------------------------- MODULE GroupDelivery ---------------------------
(***************************************************************************)
(* What the consumer groups may rely on for each job, whatever the queue   *)
(* behind core/queue-api is made of. docs/backend/queue-system.md:316,     *)
(* "Jobs are guaranteed to be delivered to each consumer group at least    *)
(* once": a job once offered to a group stays offered until one of its     *)
(* handlers takes it, comes back only when that handler fails, and does    *)
(* not come back when the group is done with it.                           *)
(***************************************************************************)
CONSTANTS Groups, Jobs

VARIABLE state  \* of each job for each group

Init == state = [g \in Groups |-> [j \in Jobs |-> "unknown"]]

\* A job of a group that has no consumer yet is offered when it gets one.
Offer(g, j) == state[g][j] = "unknown" /\ state'[g][j] = "offered"

\* From enqueue to handler may be one step.
Take(g, j) == state[g][j] \in {"unknown", "offered"} /\ state'[g][j] = "taken"

Return(g, j) == state[g][j] = "taken" /\ state'[g][j] = "offered"

Finish(g, j) == state[g][j] = "taken" /\ state'[g][j] = "finished"

\* One step of the queue may serve several groups, and one job to each.
Next ==
  \A g \in Groups, j \in Jobs :
    \/ Offer(g, j) \/ Take(g, j) \/ Return(g, j) \/ Finish(g, j)
    \/ state'[g][j] = state[g][j]

Spec == Init /\ [][Next]_state
=============================================================================
