------------------------ MODULE DeliveryCoordinator ------------------------
(***************************************************************************)
(* core/integration-backend/src/delivery-coordinator.ts: one event routed  *)
(* to its subscriptions, the delivery jobs with the logs they write, and   *)
(* retryDelivery. The database calls, the provider and the enqueues are    *)
(* awaited, so an action is the code up to the next await; what fails has  *)
(* changed nothing.                                                        *)
(* The queue is an external one that serves jobs concurrently and runs a   *)
(* job again, a bounded number of times, when its handler throws.          *)
(***************************************************************************)
EXTENDS Integers, FiniteSets

\* Definitions named ...Mutant are plausible bugs, used only to show that the
\* properties can fail.
CONSTANTS
  Subscriptions, \* those that match the event; each gets one delivery log
  MAX_RETRIES,
  QueueRetries,  \* the queue's maxRetries for the consumer group
  Retriers,      \* concurrent calls of retryDelivery
  MaxResets,     \* bound: retryDelivery calls that reset a given log
  Jobs,          \* bound: jobs in the queue or running at once, numbered
  MaxMishaps,    \* bound: how often the queue refuses a job, a signal cannot be sent,
                 \* a statement fails, the provider is not registered, the subscription
                 \* is deleted or two calls of retryDelivery overlap
  None

ASSUME BoundAssumption ==
  /\ MAX_RETRIES \in Nat \ {0} /\ QueueRetries \in Nat /\ MaxResets \in Nat /\ MaxMishaps \in Nat
  /\ Jobs \subseteq Nat /\ None \notin Subscriptions

VARIABLES
  subscription,  \* "enabled", "disabled" or "gone"
  log,           \* the delivery log of each subscription, or None
  router,        \* where routeEvent is
  job,           \* each job: its log, where it is, how often the queue ran it again
  retrier,       \* where each retryDelivery is
  resets,        \* how often retryDelivery has reset a log
  mishaps,       \* how many of them there were
  delivered,     \* history: deliver() calls for a log that succeeded, up to two ...
  upsets         \* ... and what befell the delivery:
                 \*   "lost"       the code after a successful deliver() threw
                 \*   "rerun"      the queue ran a job again that had failed for good
                 \*   "overlap"    two calls of retryDelivery found the log failed
                 \*   "abandoned"  the queue did not take a job, or gave it up, and
                 \*                the log was not reset since

vars == <<subscription, log, router, job, retrier, resets, delivered, upsets, mishaps>>

Unused == [pc |-> "unused", log |-> None, again |-> 0, attempts |-> 0]
NewJob(s) == [pc |-> "queued", log |-> s, again |-> 0, attempts |-> 0]

Init ==
  /\ subscription \in [Subscriptions -> {"enabled", "disabled"}]
  /\ log = [s \in Subscriptions |-> None]
  /\ router = [pc |-> "idle", todo |-> {}, at |-> None]
  /\ job = [j \in Jobs |-> Unused]
  /\ retrier = [r \in Retriers |-> [pc |-> "idle", log |-> None]]
  /\ resets = [s \in Subscriptions |-> 0]
  /\ delivered = [s \in Subscriptions |-> 0]
  /\ upsets = [s \in Subscriptions |-> {}] /\ mishaps = 0

-----------------------------------------------------------------------------
(* Helpers *)

\* enqueue of a new job for a log, on the given jobs.
Enqueue(jobs, s) ==
  \E j \in Jobs :
    /\ jobs[j] = Unused /\ \A k \in Jobs : jobs[k] = Unused => j <= k
    /\ job' = [jobs EXCEPT ![j] = NewJob(s)]

Mishap == mishaps < MaxMishaps /\ mishaps' = mishaps + 1

\* Something befalls the delivery of s.
Upset(s, what) == upsets' = [upsets EXCEPT ![s] = @ \cup {what}]

JobGoes(j, pc) == job' = [job EXCEPT ![j].pc = pc]

\* UPDATE delivery_logs ... WHERE id: nothing if the log is gone.
UpdateLog(s, new) == log' = [log EXCEPT ![s] = IF @ = None THEN None ELSE new]

\* executeDelivery rejects: the queue runs the job again or gives it up.
RunsAgain(j) ==
  /\ job[j].again < QueueRetries
  /\ job' = [job EXCEPT ![j].pc = "queued", ![j].again = @ + 1]
GivesUp(j) ==
  /\ job[j].again = QueueRetries
  /\ job' = [job EXCEPT ![j] = Unused]
Rejects(j) ==
  \/ RunsAgain(j) /\ UNCHANGED upsets
  \/ GivesUp(j) /\ Upset(job[j].log, "abandoned")

-----------------------------------------------------------------------------
(* routeEvent *)

RouteEvent ==
  /\ router.pc = "idle"
  /\ router' = [pc |-> "inserting", at |-> None,
                todo |-> {s \in Subscriptions : subscription[s] = "enabled"}]
  /\ UNCHANGED <<subscription, log, job, retrier, resets, delivered, upsets, mishaps>>

\* The log first, then the job, one subscription after the other. An error ends
\* the loop (the foreign key of the log, a statement or an enqueue that fails), and
\* hook-subscriber.ts swallows it.
InsertLog(s) ==
  /\ router.pc = "inserting" /\ s \in router.todo
  /\ \/ /\ subscription[s] # "gone"
        /\ router' = [pc |-> "enqueuing", todo |-> router.todo \ {s}, at |-> s]
        /\ log' = [log EXCEPT ![s] = [status |-> "pending", attempts |-> 0]]
        /\ UNCHANGED mishaps
     \/ /\ IF subscription[s] = "gone" THEN UNCHANGED mishaps ELSE Mishap
        /\ router' = [router EXCEPT !.pc = "done"]
        /\ UNCHANGED log
  /\ UNCHANGED <<subscription, job, retrier, resets, delivered, upsets>>

EnqueueFirst ==
  /\ router.pc = "enqueuing"
  /\ router' = [router EXCEPT !.pc = "inserting", !.at = None]
  /\ Enqueue(job, router.at)
  /\ UNCHANGED <<subscription, log, retrier, resets, delivered, upsets, mishaps>>

EnqueueFirstFails ==
  /\ Mishap /\ router.pc = "enqueuing"
  /\ router' = [router EXCEPT !.pc = "done", !.at = None]
  /\ Upset(router.at, "abandoned")
  /\ UNCHANGED <<subscription, log, job, retrier, resets, delivered>>

RouteEnds ==
  /\ router.pc = "inserting" /\ router.todo = {}
  /\ router' = [router EXCEPT !.pc = "done"]
  /\ UNCHANGED <<subscription, log, job, retrier, resets, delivered, upsets, mishaps>>

-----------------------------------------------------------------------------
(* executeDelivery *)

\* The job starts: its log shows the attempt.
Attempt(j) ==
  LET s == job[j].log IN
  /\ job[j].pc = "queued"
  /\ IF log[s] = None THEN UNCHANGED log
     ELSE UpdateLog(s, [status |-> "retrying", attempts |-> log[s].attempts + 1])
  /\ JobGoes(j, "delivering")
  /\ UNCHANGED <<subscription, router, retrier, resets, delivered, upsets, mishaps>>

\* "Provider not found", or the update fails: both before the try block.
AttemptFails(j) ==
  /\ Mishap /\ job[j].pc = "queued"
  /\ Rejects(j)
  /\ UNCHANGED <<subscription, log, router, retrier, resets, delivered>>

\* provider.deliver resolves with success ...
DeliverSucceeds(j) ==
  /\ job[j].pc = "delivering"
  /\ delivered' = [delivered EXCEPT ![job[j].log] = IF @ < 2 THEN @ + 1 ELSE @]
  /\ JobGoes(j, "delivered")
  /\ UNCHANGED <<subscription, log, router, retrier, resets, upsets, mishaps>>

\* ... or without, or throws.
DeliverFails(j) ==
  /\ job[j].pc = "delivering"
  /\ JobGoes(j, "failing")
  /\ UNCHANGED <<subscription, log, router, retrier, resets, delivered, upsets, mishaps>>

MarkSuccessMutant(j) ==
  /\ job[j].pc = "delivered"
  /\ UNCHANGED log
  /\ JobGoes(j, "signalling success")
  /\ UNCHANGED <<subscription, router, retrier, resets, delivered, upsets, mishaps>>

MarkSuccess(j) ==
  LET s == job[j].log IN
  /\ job[j].pc = "delivered"
  /\ IF log[s] = None THEN UNCHANGED log
     ELSE UpdateLog(s, [log[s] EXCEPT !.status = "success"])
  /\ JobGoes(j, "signalling success")
  /\ UNCHANGED <<subscription, router, retrier, resets, delivered, upsets, mishaps>>

\* The update and the signal of a success are inside the try block: when one of
\* them throws the catch block takes the delivery for failed.
SuccessFails(j) ==
  /\ Mishap /\ job[j].pc \in {"delivered", "signalling success"}
  /\ JobGoes(j, "failing")
  /\ Upset(job[j].log, "lost")
  /\ UNCHANGED <<subscription, log, router, retrier, resets, delivered>>

\* signalService.broadcast, a queue operation too.
Signal(j) ==
  /\ job[j].pc \in {"signalling success", "signalling failure"}
  /\ job' = [job EXCEPT ![j] = Unused]
  /\ UNCHANGED <<subscription, log, router, retrier, resets, delivered, upsets, mishaps>>

FailureSignalFails(j) ==
  /\ Mishap /\ job[j].pc = "signalling failure"
  /\ \/ RunsAgain(j) /\ Upset(job[j].log, "rerun")
     \/ GivesUp(j) /\ UNCHANGED upsets
  /\ UNCHANGED <<subscription, log, router, retrier, resets, delivered>>

\* The catch block reads the attempts (1 if the log is gone) ...
ReadAttempts(j) ==
  /\ job[j].pc = "failing"
  /\ job' = [job EXCEPT ![j].pc = "deciding",
                        ![j].attempts = IF log[job[j].log] = None THEN 1
                                        ELSE log[job[j].log].attempts]
  /\ UNCHANGED <<subscription, log, router, retrier, resets, delivered, upsets, mishaps>>

\* ... and writes what comes next: another attempt, or the failure.
Decide(j) ==
  LET s == job[j].log
      more == job[j].attempts < MAX_RETRIES
  IN /\ job[j].pc = "deciding"
     /\ IF log[s] = None THEN UNCHANGED log
        ELSE UpdateLog(s, [log[s] EXCEPT !.status = IF more THEN "retrying" ELSE "failed"])
     /\ job' = [job EXCEPT ![j].pc = IF more THEN "requeuing" ELSE "signalling failure",
                           ![j].attempts = 0]
     /\ UNCHANGED <<subscription, router, retrier, resets, delivered, upsets, mishaps>>

\* A statement of the catch block fails, or the queue refuses the new job.
CatchFails(j) ==
  /\ Mishap /\ job[j].pc \in {"failing", "deciding", "requeuing"}
  /\ Rejects(j)
  /\ UNCHANGED <<subscription, log, router, retrier, resets, delivered>>

RequeueMutant(j) ==
  /\ job[j].pc = "requeuing"
  /\ \/ job[j].again < QueueRetries /\ Enqueue([job EXCEPT ![j].pc = "queued", ![j].again = @ + 1], job[j].log)
     \/ job[j].again = QueueRetries /\ Enqueue([job EXCEPT ![j] = Unused], job[j].log)
  /\ UNCHANGED <<subscription, log, router, retrier, resets, delivered, upsets, mishaps>>

\* A new job, with a start delay.
Requeue(j) ==
  /\ job[j].pc = "requeuing"
  /\ Enqueue([job EXCEPT ![j] = Unused], job[j].log)
  /\ UNCHANGED <<subscription, log, router, retrier, resets, delivered, upsets, mishaps>>

-----------------------------------------------------------------------------
(* retryDelivery and deleteSubscription *)

Checked(r, s) ==
  /\ retrier[r].pc = "idle"
  /\ retrier' = [retrier EXCEPT ![r] = [pc |-> "resetting", log |-> s]]
  /\ IF \E q \in Retriers \ {r} : retrier[q].log = s
     THEN Mishap /\ Upset(s, "overlap") ELSE UNCHANGED <<upsets, mishaps>>

RetryCheckMutant(r, s) ==
  /\ log[s] # None /\ log[s].status \in {"failed", "retrying"}
  /\ resets[s] < MaxResets
  /\ Checked(r, s)
  /\ UNCHANGED <<subscription, log, router, job, resets, delivered>>

\* The log is read and must be "failed" (and its subscription exist) ...
RetryCheck(r, s) ==
  /\ log[s] # None /\ log[s].status = "failed" /\ resets[s] < MaxResets
  /\ Checked(r, s)
  /\ UNCHANGED <<subscription, log, router, job, resets, delivered>>

\* ... then it is reset ...
RetryReset(r) ==
  LET s == retrier[r].log IN
  /\ retrier[r].pc = "resetting"
  /\ UpdateLog(s, [status |-> "pending", attempts |-> 0])
  /\ retrier' = [retrier EXCEPT ![r].pc = "enqueuing"]
  /\ resets' = [resets EXCEPT ![s] = @ + 1]
  /\ upsets' = [upsets EXCEPT ![s] = @ \ {"abandoned"}]
  /\ UNCHANGED <<subscription, router, job, delivered, mishaps>>

\* ... and a job is queued.
RetryEnqueue(r) ==
  /\ retrier[r].pc = "enqueuing"
  /\ Enqueue(job, retrier[r].log)
  /\ retrier' = [retrier EXCEPT ![r] = [pc |-> "idle", log |-> None]]
  /\ UNCHANGED <<subscription, log, router, resets, delivered, upsets, mishaps>>

\* The reset fails, or the queue refuses the job: the caller gets the error.
RetryFails(r) ==
  /\ Mishap
  /\ \/ retrier[r].pc = "resetting" /\ UNCHANGED upsets
     \/ retrier[r].pc = "enqueuing" /\ Upset(retrier[r].log, "abandoned")
  /\ retrier' = [retrier EXCEPT ![r] = [pc |-> "idle", log |-> None]]
  /\ UNCHANGED <<subscription, log, router, job, resets, delivered>>

\* deleteSubscription: the logs go with it, by cascade.
DeleteSubscription(s) ==
  /\ Mishap /\ subscription[s] # "gone"
  /\ subscription' = [subscription EXCEPT ![s] = "gone"]
  /\ log' = [log EXCEPT ![s] = None]
  /\ UNCHANGED <<router, job, retrier, resets, delivered, upsets>>

ToggleSubscription(s) ==
  /\ subscription[s] # "gone" /\ router.pc = "idle"
  /\ subscription' = [subscription EXCEPT ![s] = IF @ = "enabled" THEN "disabled" ELSE "enabled"]
  /\ UNCHANGED <<log, router, job, retrier, resets, delivered, upsets, mishaps>>

-----------------------------------------------------------------------------
Route == RouteEvent \/ EnqueueFirst \/ EnqueueFirstFails \/ RouteEnds
         \/ \E s \in Subscriptions : InsertLog(s)

Execute(j) ==
  \/ Attempt(j) \/ AttemptFails(j) \/ DeliverSucceeds(j) \/ DeliverFails(j)
  \/ MarkSuccess(j) \/ SuccessFails(j) \/ Signal(j) \/ FailureSignalFails(j)
  \/ ReadAttempts(j) \/ Decide(j) \/ Requeue(j) \/ CatchFails(j)

Retry(r) == RetryReset(r) \/ RetryEnqueue(r) \/ RetryFails(r)

Next ==
  \/ Route
  \/ \E j \in Jobs : Execute(j)
  \/ \E r \in Retriers : Retry(r) \/ \E s \in Subscriptions : RetryCheck(r, s)
  \/ \E s \in Subscriptions : DeleteSubscription(s) \/ ToggleSubscription(s)

Spec == Init /\ [][Next]_vars

\* Awaited calls settle and the queue serves its jobs; nobody has to emit the
\* event, to retry or to edit subscriptions.
Fairness ==
  /\ WF_vars(router.pc # "idle" /\ Route)
  /\ \A j \in Jobs : WF_vars(Execute(j))
  /\ \A r \in Retriers : WF_vars(Retry(r))
FairSpec == Spec /\ Fairness

-----------------------------------------------------------------------------
(* Properties *)

Open(s) == log[s] # None /\ log[s].status \in {"pending", "retrying"}

\* Types of the logs of delivery-coordinator.ts and of its jobs in the queue.
TypeOK ==
  /\ subscription \in [Subscriptions -> {"enabled", "disabled", "gone"}]
  /\ \A s \in Subscriptions : log[s] # None =>
       /\ log[s].status \in {"pending", "retrying", "success", "failed"}
       /\ log[s].attempts \in Nat
  /\ router.todo \subseteq Subscriptions
  /\ \A j \in Jobs : job[j].log \in Subscriptions \cup {None} /\ job[j].again \in 0..QueueRetries

\* What the code has no protection against, and what follows from it alone.
Unprotected(s) == upsets[s] \cap {"lost", "rerun", "overlap"} # {}

\* The external system accepts each delivery at most once: no job is run again,
\* requeued or retried after deliver() has succeeded, whatever statements, enqueues
\* and providers fail and however often the delivery is retried. Excused are the
\* deliveries whose success could not be written or told, those that ran again
\* after their failure could not be told, and those of two overlapping calls of
\* retryDelivery.
DeliveredOnce == \A s \in Subscriptions : delivered[s] > 1 => Unprotected(s)

\* A settled log tells what happened to its delivery, whatever jobs of the same
\* log have written to it: a success always has been one, a failure but for the
\* same three exceptions.
LogTruthful ==
  \A s \in Subscriptions : log[s] # None =>
    /\ log[s].status = "success" => delivered[s] > 0
    /\ log[s].status = "failed" => delivered[s] = 0 \/ Unprotected(s)

\* A log that is not settled has somebody at work on it, or its job was given up by
\* the queue: retryDelivery refuses such a log, so nobody else could settle it.
OpenLogsWorkedOn ==
  \A s \in Subscriptions : Open(s) =>
    \/ \E j \in Jobs : job[j].log = s
    \/ \E r \in Retriers : retrier[r].log = s
    \/ router.at = s
    \/ "abandoned" \in upsets[s]

\* Every delivery log is settled as a success or a failure, retries included, if
\* the queue takes its jobs and does not give one up.
DeliveriesSettle ==
  \A s \in Subscriptions : []("abandoned" \notin upsets[s]) => (Open(s) ~> ~Open(s))

-----------------------------------------------------------------------------
(* What the documentation promises and the code does not keep (README.md) *)

\* docs/backend/integration-providers.md:314, "Maximum 3 retry attempts before
\* marking as permanently failed": a delivery that has failed for good had
\* MAX_RETRIES retries after its first attempt.
RetriesUsedUp ==
  \A s \in Subscriptions :
    log[s] # None /\ log[s].status = "failed" => log[s].attempts >= 1 + MAX_RETRIES

\* core/integration-backend/src/delivery-coordinator.ts:239, "Max retries exceeded,
\* mark as failed": the jobs of a delivery come to an end.
JobsEnd ==
  \A s \in Subscriptions :
    (\E j \in Jobs : job[j].log = s) ~> (\A j \in Jobs : job[j].log # s)
=============================================================================
