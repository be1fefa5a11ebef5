------------------------ MODULE InMemoryQueueHistory ------------------------
(***************************************************************************)
(* What the consumer groups see of an InMemoryQueue: the contract it keeps *)
(* with each of them, GroupDelivery, and a history variable that counts    *)
(* handler invocations, for what docs/backend/queue-system.md says.        *)
(***************************************************************************)
EXTENDS InMemoryQueue

VARIABLE
  started        \* number of times each group's handler was given each job

hvars == <<vars, started>>

HInit ==
  /\ Init
  /\ started = [g \in Groups |-> [j \in Jobs |-> 0]]

Invocations(g, j) == {r \in running' \ running : r.group = g /\ r.job = j}

HNext ==
  /\ Next
  /\ started' = [g \in Groups |-> [j \in Jobs |->
                   started[g][j] + Cardinality(Invocations(g, j))]]

HSpec == HInit /\ [][HNext]_hvars
HFairSpec == HSpec /\ Fairness

-----------------------------------------------------------------------------
\* What one group sees of one job (jobs with jobIds of their own, that is not
\* of instances of recurring jobs, which cancelling takes back).
StateOf(g, j) ==
  CASE \E r \in Active : r.group = g /\ r.job = j -> "taken"
    [] OTHER -> IF IdOf[j] \in processed[g] THEN "finished"
                ELSE IF j \in ToSet(jobs) /\ g \in ToSet(groups) THEN "offered" ELSE "unknown"

Delivery == INSTANCE GroupDelivery
              WITH state <- [g \in Groups |-> [j \in Jobs |-> StateOf(g, j)]]

\* The queue keeps the promise to every group: although failures of other groups
\* put the job back in the list that all groups share, and although processNext
\* drops what every group has picked, a group is not passed over, is not given
\* the job again after its handler returned or gave up, and has it back after
\* its own handler failed.
DeliversToEveryGroup == Delivery!Spec

-----------------------------------------------------------------------------
(* What the documentation promises and the code does not keep (README.md) *)

\* docs/backend/queue-system.md:329, "A failure in one consumer group does NOT
\* affect other groups": a group gives a job up, and counts it as failed, only
\* after its own handler has thrown for each of its maxRetries retries.
OwnRetriesOnly ==
  [][failed' > failed =>
       \A r \in running \ running' : started[r.group][r.job] > r.maxRetries]_hvars

\* docs/backend/queue-system.md:266, "After the delay, the job becomes available
\* for the same consumer group again": not before.
BackoffElapses ==
  \A b \in backoff, r \in Active : ~(r.group = b.group /\ r.job = b.job)

\* docs/backend/queue-system.md:355, "Marks the queue as stopped (no new jobs are
\* processed)": no handler is invoked after stop() was called.
NoStartAfterStop == [][stopped => running' \subseteq running]_hvars

\* docs/backend/queue-system.md:357, "Returns once all in-flight work is
\* finished": when stop() has returned no handler is in progress.
StopWaits == stopCall \in {"immediate", "returned"} => running = {}

\* plugins/queue-memory-backend/src/memory-queue.ts:362, "Also cancel any pending
\* jobs": after cancelRecurring no instance of the job is in the list.
CancelledJobsGone ==
  ~stopped => \A j \in ToSet(jobs) :
    InstanceOf[j] # NoRecurring => recurring[InstanceOf[j]] # "cancelled"
=============================================================================
