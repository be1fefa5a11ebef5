---------------------------- MODULE InMemoryQueue ----------------------------
(***************************************************************************)
(* plugins/queue-memory-backend/src/memory-queue.ts: one InMemoryQueue.    *)
(*                                                                         *)
(* JavaScript runs each handler, timer callback and continuation to its    *)
(* next await, so an action is a maximal stretch of synchronous code.      *)
(* What is asynchronous, and hence a state here: a job handler (running),  *)
(* the continuation of `await semaphore.acquire()` (granted), a run parked *)
(* in the semaphore (waiting), every pending timer.                        *)
(***************************************************************************)
EXTENDS Integers, FiniteSets, SequencesExt, Subsequences

CONSTANTS
  Jobs,          \* job objects that calls of enqueue may create
  Ids, IdOf,     \* job.id; two objects share one when a caller reuses a jobId
  Prio,          \* job.priority
  Delayed,       \* the jobs enqueued with options.startDelay
  Groups,        \* consumer group names
  RetryLimits,   \* values of maxRetries consumers register with
  MaxConsumers,  \* bound: consumers per group
  Concurrency, MaxQueueSize, HeartbeatOn,       \* InMemoryQueueConfig
  Recurring,     \* ids of recurring jobs
  Cron,          \* those scheduled by cronPattern, the others by interval
  InstanceOf,    \* the recurring job whose id prefixes job.id ...
  NoRecurring    \* ... or this

ASSUME ConfigAssumption ==
  /\ Concurrency \in Nat \ {0}
  /\ MaxQueueSize \in Nat \ {0}
  /\ HeartbeatOn \in BOOLEAN
ASSUME JobAssumption ==
  /\ IdOf \in [Jobs -> Ids]
  /\ Prio \in [Jobs -> Int]
  /\ InstanceOf \in [Jobs -> Recurring \cup {NoRecurring}]
\* What a job is an instance of is read off its id (startsWith).
ASSUME InstanceAssumption ==
  /\ NoRecurring \notin Recurring
  /\ \A j, k \in Jobs : IdOf[j] = IdOf[k] => InstanceOf[j] = InstanceOf[k]
ASSUME ConsumerAssumption == RetryLimits \subseteq Nat /\ MaxConsumers \in Nat

VARIABLES
  jobs,          \* this.jobs: job objects, highest priority first
  accepted,      \* job objects enqueue has created
  due,           \* delayed jobs whose availableAt has passed
  attempts,      \* job.attempts: one counter per object, shared by the groups
  groups,        \* keys of this.consumerGroups in insertion order
  consumers,     \* group.consumers, each one reduced to its maxRetries
  nextConsumer,  \* group.nextConsumerIndex, which only grows
  processed,     \* group.processedJobIds
  permits, waiting,           \* the Semaphore
  granted,       \* runs holding a permit, their continuation not yet executed
  running,       \* runs inside `await consumer.handler(job)`
  processing, completed, failed,
  startTimers,   \* delayed jobs whose start timer has not fired
  backoff,       \* failed runs whose retry timer has not fired
  recurring,     \* recurringJobs: no metadata, enabled, or disabled
  stopped,
  stopCall       \* where a call of stop() is

semaphoreVars == <<permits, waiting, granted>>
pickVars == <<jobs, processed, nextConsumer, semaphoreVars>>
registryVars == <<groups, consumers>>
counterVars == <<processing, completed, failed>>
timerVars == <<due, startTimers, backoff>>
stopVars == <<stopped, stopCall>>
vars == <<pickVars, registryVars, accepted, attempts, running, counterVars,
          timerVars, recurring, stopVars>>

\* An invocation of processJob. pick (the value of nextConsumerIndex that
\* selected the consumer) tells apart two runs of one job in one group.
Run == [group : Groups, job : Jobs, pick : Nat, maxRetries : RetryLimits]

Active == ToSet(waiting) \cup ToSet(granted) \cup running

Init ==
  /\ jobs = << >> /\ accepted = {} /\ due = {}
  /\ attempts = [j \in Jobs |-> 0]
  /\ groups = << >>
  /\ consumers = [g \in Groups |-> << >>]
  /\ nextConsumer = [g \in Groups |-> 0]
  /\ processed = [g \in Groups |-> {}]
  /\ permits = Concurrency /\ waiting = << >> /\ granted = << >>
  /\ running = {} /\ processing = 0 /\ completed = 0 /\ failed = 0
  /\ startTimers = {} /\ backoff = {}
  /\ recurring = [r \in Recurring |-> "none"]
  /\ stopped = FALSE /\ stopCall = "none"

-----------------------------------------------------------------------------
(* Helpers *)

\* A job goes before the first one of strictly lower priority.
Insert(js, j) ==
  LET lower == {i \in 1..Len(js) : Prio[js[i]] < Prio[j]}
  IN IF lower = {} THEN Append(js, j) ELSE InsertAt(js, Min(lower), j)

\* Positions of the jobs a group with these marks may pick now, and its pick.
Candidates(js, marks) ==
  {i \in 1..Len(js) : /\ IdOf[js[i]] \notin marks
                      /\ js[i] \in Delayed => js[i] \in due}
FirstCandidate(js, marks) == js[Min(Candidates(js, marks))]

\* Semaphore.acquire for each of a sequence of new runs: the first ones take
\* the free permits, the others park in FIFO order.
Acquire(starts, free, parked, resolved) ==
  LET n == IF Len(starts) <= free THEN Len(starts) ELSE free
  IN /\ permits' = free - n
     /\ granted' = resolved \o SubSeq(starts, 1, n)
     /\ waiting' = parked \o SubSeq(starts, n + 1, Len(starts))

\* Definitions named ...Mutant are plausible bugs, used only to show that the
\* properties below can fail.
UnfinishedMutant(js, marked) ==
  {i \in 1..Len(js) : \A k \in 1..Len(groups') : IdOf[js[i]] \notin marked[groups'[k]]}

\* Positions of the jobs that some group has yet to pick.
Unfinished(js, marked) ==
  {i \in 1..Len(js) : \E k \in 1..Len(groups') : IdOf[js[i]] \notin marked[groups'[k]]}

\* The groups that find a job, in the order of the Map, and the runs they start,
\* each with the next consumer of its group in round-robin order.
Turn(js, marks) ==
  Subsequence(groups', {k \in 1..Len(groups') : Candidates(js, marks[groups'[k]]) # {}})
NewRun(js, marks, g) ==
  [group |-> g, job |-> FirstCandidate(js, marks[g]), pick |-> nextConsumer[g],
   maxRetries |-> consumers'[g][(nextConsumer[g] % Len(consumers'[g])) + 1]]
NewRuns(js, marks) ==
  LET turn == Turn(js, marks) IN [k \in 1..Len(turn) |-> NewRun(js, marks, turn[k])]

\* processNext past its early return, on the given intermediate values of jobs,
\* processedJobIds and the semaphore. It sets pickVars, and reads groups and
\* consumers as the calling action leaves them. Each group picks at most one
\* job; then the jobs every group has picked leave the list.
ProcessNext(js, marks, free, parked, resolved) ==
  LET starting == ToSet(Turn(js, marks))
      marked == [g \in Groups |-> IF g \in starting
                                  THEN marks[g] \cup {IdOf[FirstCandidate(js, marks[g])]}
                                  ELSE marks[g]]
  IN /\ jobs' = Subsequence(js, Unfinished(js, marked))
     /\ processed' = marked
     /\ nextConsumer' = [g \in Groups |-> nextConsumer[g] + (IF g \in starting THEN 1 ELSE 0)]
     /\ Acquire(NewRuns(js, marks), free, parked, resolved)

LeaveQueue(js, marks, free, parked, resolved) ==
  /\ jobs' = js /\ processed' = marks /\ nextConsumer' = nextConsumer
  /\ permits' = free /\ waiting' = parked /\ granted' = resolved

\* A call of processNext under the caller's condition. The early return matters:
\* without consumer groups the filter would empty the list.
ProcessNextIf(go, js, marks, free, parked, resolved) ==
  IF go /\ groups' # << >>
  THEN ProcessNext(js, marks, free, parked, resolved)
  ELSE LeaveQueue(js, marks, free, parked, resolved)

\* enqueue, on the given intermediate jobs and marks: it throws when the queue
\* is full and ignores a jobId that is in the list; otherwise it inserts the
\* job and triggers processing, at once or after the start delay.
EnqueueOn(js, marks, j) ==
  LET accepts == /\ Len(js) < MaxQueueSize
                 /\ \A i \in 1..Len(js) : IdOf[js[i]] # IdOf[j]
      delayed == j \in Delayed
  IN /\ accepted' = IF accepts THEN accepted \cup {j} ELSE accepted
     /\ startTimers' = IF accepts /\ delayed /\ ~stopped THEN startTimers \cup {j}
                       ELSE startTimers
     /\ ProcessNextIf(accepts /\ ~delayed /\ ~stopped,
                      IF accepts THEN Insert(js, j) ELSE js,
                      marks, permits, waiting, granted)

\* The filter shared by scheduleRecurring and cancelRecurring: the instances of
\* r that are in the list leave it, and no group remembers them.
InstancesListed(r) == {i \in 1..Len(jobs) : InstanceOf[jobs[i]] = r}
WithoutInstances(r) == Subsequence(jobs, (1..Len(jobs)) \ InstancesListed(r))
MarksWithoutInstances(r) ==
  [g \in Groups |-> processed[g] \ {IdOf[jobs[i]] : i \in InstancesListed(r)}]

\* Timer callbacks are macrotasks: none starts before every resolved
\* continuation has run.
Macrotask == granted = << >>

-----------------------------------------------------------------------------
(* Calls of the Queue interface *)

Enqueue(j) ==
  /\ j \notin accepted /\ InstanceOf[j] = NoRecurring
  /\ UNCHANGED <<registryVars, attempts, running, counterVars, due, backoff, recurring, stopVars>>
  /\ EnqueueOn(jobs, processed, j)

ConsumeMutant(g, maxRetries) ==
  /\ Len(consumers[g]) < MaxConsumers
  /\ groups' = IF consumers[g] = << >> THEN Append(groups, g) ELSE groups
  /\ consumers' = [consumers EXCEPT ![g] = Append(@, maxRetries)]
  /\ UNCHANGED <<accepted, attempts, running, counterVars, timerVars, recurring, stopVars>>
  /\ ProcessNextIf(~stopped, jobs, [processed EXCEPT ![g] = {}], permits, waiting, granted)

Consume(g, maxRetries) ==
  /\ Len(consumers[g]) < MaxConsumers
  /\ groups' = IF consumers[g] = << >> THEN Append(groups, g) ELSE groups
  /\ consumers' = [consumers EXCEPT ![g] = Append(@, maxRetries)]
  /\ UNCHANGED <<accepted, attempts, running, counterVars, timerVars, recurring, stopVars>>
  /\ ProcessNextIf(~stopped, jobs, processed, permits, waiting, granted)

\* Scheduling an id that has metadata, enabled or not, is an update: it clears
\* the timer and the listed instances. An interval job enqueues its first
\* instance at once (and rejects if the queue is full, its timer already set);
\* a cron job only sets its timer.
ScheduleInterval(r, j) ==
  /\ r \notin Cron /\ j \notin accepted /\ InstanceOf[j] = r
  /\ recurring' = [recurring EXCEPT ![r] = "live"]
  /\ UNCHANGED <<registryVars, attempts, running, counterVars, due, backoff, stopVars>>
  /\ IF recurring[r] = "none" THEN EnqueueOn(jobs, processed, j)
     ELSE EnqueueOn(WithoutInstances(r), MarksWithoutInstances(r), j)

DropInstances(r) ==
  /\ jobs' = WithoutInstances(r)
  /\ processed' = MarksWithoutInstances(r)
  /\ UNCHANGED <<nextConsumer, semaphoreVars, registryVars, accepted, attempts, running,
                 counterVars, timerVars, stopVars>>

ScheduleCron(r) ==
  /\ r \in Cron
  /\ recurring' = [recurring EXCEPT ![r] = "live"]
  /\ IF recurring[r] = "none"
     THEN UNCHANGED <<pickVars, registryVars, accepted, attempts, running, counterVars,
                      timerVars, stopVars>>
     ELSE DropInstances(r)

CancelRecurring(r) ==
  /\ recurring[r] # "none"
  /\ recurring' = [recurring EXCEPT ![r] = "cancelled"]
  /\ DropInstances(r)

\* stop() looks at this.processing before its first await, so it may return at
\* once; otherwise it polls from a timer.
Stop ==
  /\ stopCall = "none"
  /\ stopped' = TRUE
  /\ recurring' = [r \in Recurring |-> IF recurring[r] = "none" THEN "none" ELSE "cancelled"]
  /\ stopCall' = IF processing > 0 THEN "draining" ELSE "immediate"
  /\ UNCHANGED <<pickVars, registryVars, accepted, attempts, running, counterVars, timerVars>>

-----------------------------------------------------------------------------
(* Timers *)

BecomeDue(j) ==
  /\ j \in accepted \cap Delayed /\ j \notin due
  /\ due' = due \cup {j}
  /\ UNCHANGED <<pickVars, registryVars, accepted, attempts, running, counterVars,
                 startTimers, backoff, recurring, stopVars>>

StartTimer(j) ==
  /\ Macrotask /\ j \in startTimers \cap due
  /\ startTimers' = startTimers \ {j}
  /\ UNCHANGED <<registryVars, accepted, attempts, running, counterVars, due, backoff,
                 recurring, stopVars>>
  /\ ProcessNextIf(~stopped, jobs, processed, permits, waiting, granted)

RetryTimer(r) ==
  /\ Macrotask /\ r \in backoff
  /\ backoff' = backoff \ {r}
  /\ UNCHANGED <<registryVars, accepted, attempts, running, counterVars, due, startTimers,
                 recurring, stopVars>>
  /\ ProcessNextIf(~stopped, jobs, processed, permits, waiting, granted)

Heartbeat ==
  /\ Macrotask /\ HeartbeatOn /\ ~stopped
  /\ UNCHANGED <<registryVars, accepted, attempts, running, counterVars, timerVars,
                 recurring, stopVars>>
  /\ ProcessNextIf(TRUE, jobs, processed, permits, waiting, granted)

RecurringTimer(r, j) ==
  /\ Macrotask /\ ~stopped /\ recurring[r] = "live"
  /\ j \notin accepted /\ InstanceOf[j] = r
  /\ UNCHANGED <<registryVars, attempts, running, counterVars, due, backoff, recurring, stopVars>>
  /\ EnqueueOn(jobs, processed, j)

StopPollEarlyMutant ==
  /\ stopCall = "draining" /\ processing = 0
  /\ stopCall' = "returned"
  /\ UNCHANGED <<pickVars, registryVars, accepted, attempts, running, counterVars, timerVars,
                 recurring, stopped>>

StopPoll ==
  /\ Macrotask /\ stopCall = "draining" /\ processing = 0
  /\ stopCall' = "returned"
  /\ UNCHANGED <<pickVars, registryVars, accepted, attempts, running, counterVars, timerVars,
                 recurring, stopped>>

-----------------------------------------------------------------------------
(* processJob *)

\* The continuation of `await this.semaphore.acquire()`.
Begin(i) ==
  /\ i \in 1..Len(granted)
  /\ granted' = RemoveAt(granted, i)
  /\ running' = running \cup {granted[i]}
  /\ processing' = processing + 1
  /\ UNCHANGED <<jobs, processed, nextConsumer, permits, waiting, registryVars, accepted,
                 attempts, completed, failed, timerVars, recurring, stopVars>>

FinishMutant(r, again, js, marks) ==
  /\ running' = running \ {r}
  /\ processing' = processing - 1
  /\ ProcessNextIf(again, js, marks, permits + 1, waiting, granted)

\* The finally block: release the permit or hand it to the first parked run,
\* then look for more work.
Finish(r, again, js, marks) ==
  /\ running' = running \ {r}
  /\ processing' = processing - 1
  /\ IF waiting = << >>
     THEN ProcessNextIf(again, js, marks, permits + 1, waiting, granted)
     ELSE ProcessNextIf(again, js, marks, permits, Tail(waiting),
                        Append(granted, Head(waiting)))

HandlerSucceeds(r) ==
  /\ r \in running
  /\ completed' = completed + 1
  /\ UNCHANGED <<registryVars, accepted, attempts, failed, timerVars, recurring, stopVars>>
  /\ Finish(r, jobs # << >> /\ ~stopped, jobs, processed)

\* A failure with attempts left puts the job back and leaves the next trigger
\* to the retry timer.
HandlerRetries(r) ==
  /\ r \in running /\ attempts[r.job] < r.maxRetries
  /\ attempts' = [attempts EXCEPT ![r.job] = @ + 1]
  /\ backoff' = backoff \cup {r}
  /\ UNCHANGED <<registryVars, accepted, completed, failed, due, startTimers, recurring, stopVars>>
  /\ Finish(r, FALSE, Insert(jobs, r.job),
            [processed EXCEPT ![r.group] = @ \ {IdOf[r.job]}])

HandlerExhaustsMutant(r) ==
  /\ r \in running /\ attempts[r.job] >= r.maxRetries
  /\ failed' = failed + 1
  /\ UNCHANGED <<registryVars, accepted, attempts, completed, timerVars, recurring, stopVars>>
  /\ Finish(r, FALSE, jobs, processed)

HandlerExhausts(r) ==
  /\ r \in running /\ attempts[r.job] >= r.maxRetries
  /\ failed' = failed + 1
  /\ UNCHANGED <<registryVars, accepted, attempts, completed, timerVars, recurring, stopVars>>
  /\ Finish(r, jobs # << >> /\ ~stopped, jobs, processed)

HandlerEnds(r) == HandlerSucceeds(r) \/ HandlerRetries(r) \/ HandlerExhausts(r)

-----------------------------------------------------------------------------
Call ==
  \/ \E j \in Jobs : Enqueue(j)
  \/ \E g \in Groups, m \in RetryLimits : Consume(g, m)
  \/ \E r \in Recurring, j \in Jobs : ScheduleInterval(r, j)
  \/ \E r \in Recurring : ScheduleCron(r) \/ CancelRecurring(r)
  \/ Stop

Timer ==
  \/ \E j \in Jobs : BecomeDue(j) \/ StartTimer(j)
  \/ \E r \in backoff : RetryTimer(r)
  \/ Heartbeat
  \/ \E r \in Recurring, j \in Jobs : RecurringTimer(r, j)
  \/ StopPoll

Work ==
  \/ \E i \in 1..Len(granted) : Begin(i)
  \/ \E r \in running : HandlerEnds(r)

Next == Call \/ Timer \/ Work

Spec == Init /\ [][Next]_vars

\* The event loop runs what is resolved and fires what is due, and handlers
\* return or throw. The caller owes nothing.
Fairness ==
  /\ WF_vars(\E i \in 1..Len(granted) : Begin(i))
  /\ WF_vars(\E r \in running : HandlerEnds(r))
  /\ WF_vars(\E r \in backoff : RetryTimer(r))
  /\ WF_vars(\E j \in Jobs : BecomeDue(j) \/ StartTimer(j))
  /\ WF_vars(StopPoll)
FairSpec == Spec /\ Fairness

-----------------------------------------------------------------------------
(* Properties *)

\* Types of the state of InMemoryQueue; a group exists from its first consumer.
PickTypes ==
  /\ jobs \in Seq(Jobs) /\ processed \in [Groups -> SUBSET Ids]
  /\ nextConsumer \in [Groups -> Nat]
  /\ permits \in Nat /\ waiting \in Seq(Run) /\ granted \in Seq(Run)
RegistryTypes ==
  /\ groups \in Seq(Groups) /\ consumers \in [Groups -> Seq(RetryLimits)]
  /\ \A i \in 1..Len(groups) : consumers[groups[i]] # << >>
TypeOK ==
  /\ PickTypes /\ RegistryTypes
  /\ accepted \subseteq Jobs /\ due \subseteq Jobs /\ startTimers \subseteq Jobs
  /\ attempts \in [Jobs -> Nat]
  /\ running \subseteq Run /\ backoff \subseteq Run
  /\ processing \in Int /\ completed \in Nat /\ failed \in Nat
  /\ recurring \in [Recurring -> {"none", "live", "cancelled"}]
  /\ stopped \in BOOLEAN
  /\ stopCall \in {"none", "immediate", "draining", "returned"}

\* The hand-off in Semaphore.release neither creates nor loses a permit, across
\* the gap between a resolved acquire and processing++, and nobody is parked
\* while a permit is free.
SemaphoreSafe ==
  /\ permits + Len(granted) + processing = Concurrency
  /\ permits > 0 => waiting = << >>

\* From pick to handler return, parked in the semaphore or not, a run keeps its
\* id in its group's processedJobIds, and so no group ever has two runs of one
\* id under way. (Instances of recurring jobs are exempt: cancelling clears the
\* mark of an instance that is listed for another group.)
OneRunPerGroup ==
  \A r \in Active : InstanceOf[r.job] = NoRecurring =>
    /\ IdOf[r.job] \in processed[r.group]
    /\ \A q \in Active : q.group = r.group /\ IdOf[q.job] = IdOf[r.job] => q = r

\* Of all the triggers of processNext (calls, timers, ends of runs), none picks
\* a job once the queue is stopped.
NoPickAfterStop == [][stopped => nextConsumer' = nextConsumer]_vars

\* When stop() had to poll, its return means the queue is quiet for good: no
\* handler is in progress and no run that was parked or granted can start one.
StopDrains == stopCall = "returned" => Active = {}

\* No wake-up is lost, without the heartbeat: with a consumer registered, every
\* listed job is picked by every group until it leaves the list, although
\* processNext picks one job per group and call, and a run that will be retried
\* triggers nothing.
JobsLeave ==
  \A j \in Jobs : (j \in ToSet(jobs) /\ groups # << >>) ~> (j \notin ToSet(jobs) \/ stopped)

\* stop() returns once the handlers do.
StopReturns == stopCall = "draining" ~> stopCall = "returned"
=============================================================================
