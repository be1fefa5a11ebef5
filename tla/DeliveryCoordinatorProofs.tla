--------------------- MODULE DeliveryCoordinatorProofs ---------------------
(***************************************************************************)
(* Theorems about DeliveryCoordinator, for any subscriptions, retries,     *)
(* callers of retryDelivery and failures, and about the EventBus that      *)
(* calls it, for any listeners, groups and events.                         *)
(***************************************************************************)
EXTENDS DeliveryCoordinator, EventBus, SubsequenceFacts, SequenceTheorems, TLAPS

Signalling == {"signalling success", "signalling failure"}
JobSteps == {"queued", "delivering", "delivered", "failing", "deciding", "requeuing"}
              \cup Signalling

\* Types of the state, as far as the proofs need them.
LogType == [status : {"pending", "retrying", "success", "failed"}, attempts : Nat]
JobType == [pc : JobSteps, log : Subscriptions, again : 0..QueueRetries, attempts : Nat]
StateTypes ==
  /\ subscription \in [Subscriptions -> {"enabled", "disabled", "gone"}]
  /\ log \in [Subscriptions -> LogType \cup {None}]
  /\ router \in [pc : {"idle", "inserting", "enqueuing", "done"}, todo : SUBSET Subscriptions,
                 at : Subscriptions \cup {None}]
  /\ router.pc = "enqueuing" <=> router.at # None
  /\ job \in [Jobs -> JobType \cup {Unused}]
  /\ retrier \in [Retriers -> [pc : {"idle"}, log : {None}]
                                \cup [pc : {"resetting", "enqueuing"}, log : Subscriptions]]
  /\ delivered \in [Subscriptions -> Nat]
  /\ upsets \in [Subscriptions -> SUBSET {"lost", "rerun", "overlap", "abandoned"}]

-----------------------------------------------------------------------------
(* Who works on a log *)

JobOn(j, s) == job[j].log = s /\ job[j].pc \notin Signalling

\* Nobody but one job, one retryDelivery or routeEvent is at work on s.
OneActor(s) ==
  /\ \A j, k \in Jobs : JobOn(j, s) /\ JobOn(k, s) => j = k
  /\ \A j \in Jobs, r \in Retriers : ~(JobOn(j, s) /\ retrier[r].log = s)
  /\ \A r, q \in Retriers : retrier[r].log = s /\ retrier[q].log = s => r = q
  /\ router.at = s => /\ \A j \in Jobs : ~JobOn(j, s)
                      /\ \A r \in Retriers : retrier[r].log # s

\* Before routeEvent has come to s there is neither a log of s nor anybody on it.
NotYet(s) ==
  router.pc = "idle" \/ s \in router.todo =>
    /\ log[s] = None /\ router.at # s /\ delivered[s] = 0
    /\ \A j \in Jobs : job[j].log # s
    /\ \A r \in Retriers : retrier[r].log # s

\* After a failure only retryDelivery may take up the log.
FailedAlone(s) ==
  log[s] # None /\ log[s].status = "failed" =>
    /\ router.at # s /\ \A j \in Jobs : ~JobOn(j, s)
    /\ \A r \in Retriers : retrier[r].log = s => retrier[r].pc = "resetting"

\* After a success nobody but the job that had it is at work, until it has told.
DeliveredAlone(s) ==
  delivered[s] > 0 =>
    /\ delivered[s] = 1 /\ router.at # s
    /\ \A j \in Jobs : JobOn(j, s) => job[j].pc = "delivered"
    /\ \A r \in Retriers : retrier[r].log # s
    /\ log[s] # None => log[s].status = "success" \/ \E j \in Jobs : JobOn(j, s)

Handling(s) == OneActor(s) /\ NotYet(s) /\ FailedAlone(s) /\ DeliveredAlone(s)

OneAtATime == \A s \in Subscriptions : Unprotected(s) \/ Handling(s)

\* What is told of a success has happened.
SuccessesReal ==
  /\ \A j \in Jobs : job[j].pc = "delivered" => delivered[job[j].log] > 0
  /\ \A s \in Subscriptions : log[s] # None /\ log[s].status = "success" => delivered[s] > 0

\* Somebody who will settle it is at work on an unsettled log.
WorkedOn(s) ==
  \/ \E j \in Jobs : JobOn(j, s)
  \/ \E r \in Retriers : retrier[r].log = s /\ retrier[r].pc = "enqueuing"
  \/ router.at = s

OpenHeld == \A s \in Subscriptions : Open(s) => WorkedOn(s) \/ "abandoned" \in upsets[s]

-----------------------------------------------------------------------------
(* The jobs of the queue *)

JobMap == [Jobs -> JobType \cup {Unused}]

LEMMA UsedJob ==
  ASSUME StateTypes, NEW j \in Jobs, job[j].pc # "unused"
  PROVE  job[j] \in JobType /\ job[j].log \in Subscriptions
BY DEF StateTypes, JobType, Unused

\* The queue takes a job in a free place.
LEMMA EnqueueEffect ==
  ASSUME NEW jobs \in JobMap, NEW s \in Subscriptions, Enqueue(jobs, s)
  PROVE  job' \in JobMap /\ \E k \in Jobs : /\ jobs[k] = Unused /\ job'[k] = NewJob(s)
                                            /\ \A i \in Jobs \ {k} : job'[i] = jobs[i]
<1>1. PICK k \in Jobs : jobs[k] = Unused /\ job' = [jobs EXCEPT ![k] = NewJob(s)]
  BY DEF Enqueue
<1>2. NewJob(s) \in JobType
  BY BoundAssumption DEF NewJob, JobType, JobSteps
<1> QED
  BY <1>1, <1>2 DEF JobMap

\* A job takes a step, or leaves the queue.
LEMMA MoveEffect ==
  ASSUME StateTypes, NEW j \in Jobs, job[j].pc # "unused", NEW pc \in JobSteps, JobGoes(j, pc)
  PROVE  /\ job' \in JobMap /\ job'[j].pc = pc /\ job'[j].log = job[j].log
         /\ \A i \in Jobs \ {j} : job'[i] = job[i]
<1>1. job[j] \in JobType /\ job \in JobMap
  BY UsedJob DEF StateTypes, JobMap
<1>2. [job[j] EXCEPT !.pc = pc] \in JobType
  BY <1>1 DEF JobType
<1> QED
  BY <1>1, <1>2 DEF JobGoes, JobMap, JobType

\* What befalls a delivery is added to what befell it before.
LEMMA UpsetEffect ==
  ASSUME StateTypes, NEW s \in Subscriptions,
         NEW what \in {"lost", "rerun", "overlap", "abandoned"}, Upset(s, what)
  PROVE  /\ upsets' \in [Subscriptions -> SUBSET {"lost", "rerun", "overlap", "abandoned"}]
         /\ what \in upsets'[s] /\ upsets[s] \subseteq upsets'[s]
         /\ \A t \in Subscriptions \ {s} : upsets'[t] = upsets[t]
BY DEF StateTypes, Upset

\* The queue runs a job again ...
LEMMA RunsAgainEffect ==
  ASSUME StateTypes, NEW j \in Jobs, job[j].pc # "unused", RunsAgain(j)
  PROVE  /\ job' \in JobMap /\ job'[j].pc = "queued" /\ job'[j].log = job[j].log
         /\ \A i \in Jobs \ {j} : job'[i] = job[i]
<1>1. job[j] \in JobType /\ job \in JobMap
  BY UsedJob DEF StateTypes, JobMap
<1>2. PICK n \in 0..QueueRetries : n = job[j].again + 1
  BY <1>1, BoundAssumption DEF JobType, RunsAgain
<1>3. PICK queued \in JobSteps : queued = "queued"
  BY DEF JobSteps
<1> DEFINE next == [job[j] EXCEPT !.pc = queued, !.again = n]
<1>4. next \in JobType /\ next.pc = queued /\ next.log = job[j].log
  BY <1>1 DEF JobType
<1>5. job' = [job EXCEPT ![j] = next]
  BY <1>1, <1>2, <1>3 DEF RunsAgain, JobMap
<1> HIDE DEF next
<1> QED
  BY <1>1, <1>3, <1>4, <1>5 DEF JobMap

\* ... or gives it up.
LEMMA GivesUpEffect ==
  ASSUME StateTypes, NEW j \in Jobs, GivesUp(j)
  PROVE  /\ job' \in JobMap /\ job'[j] = Unused
         /\ \A i \in Jobs \ {j} : job'[i] = job[i]
BY DEF StateTypes, JobMap, GivesUp

LEMMA UpdateLogEffect ==
  ASSUME StateTypes, NEW s \in Subscriptions, NEW new \in LogType, log[s] # None, UpdateLog(s, new)
  PROVE  /\ log' \in [Subscriptions -> LogType \cup {None}] /\ log'[s] = new
         /\ \A t \in Subscriptions \ {s} : log'[t] = log[t]
BY DEF StateTypes, UpdateLog

-----------------------------------------------------------------------------
(* The steps, and the types they keep *)

\* What each step of a job does to the job, its log, the count of successes and what
\* befell the delivery. The rest of the state stays.
Writes(j, status) ==
  LET s == job[j].log IN
  /\ log[s] = None => log' = log
  /\ log[s] # None => log'[s] \in LogType /\ log'[s].status = status
Goes(j, from, to) == job[j].pc = from /\ job'[j].pc = to /\ job'[j].log = job[j].log
Befalls(j, what) == what \in upsets'[job[j].log] /\ upsets[job[j].log] \subseteq upsets'[job[j].log]

Starts(j) ==
  Goes(j, "queued", "delivering") /\ Writes(j, "retrying") /\ UNCHANGED <<delivered, upsets>>
Succeeds(j) ==
  /\ Goes(j, "delivering", "delivered") /\ UNCHANGED <<log, upsets>>
  /\ LET n == delivered[job[j].log] IN delivered'[job[j].log] = IF n < 2 THEN n + 1 ELSE n
Fails(j) ==
  /\ Goes(j, "delivering", "failing") \/ Goes(j, "failing", "deciding")
  /\ UNCHANGED <<log, delivered, upsets>>
TellsSuccess(j) ==
  /\ Goes(j, "delivered", "signalling success") /\ Writes(j, "success")
  /\ UNCHANGED <<delivered, upsets>>
IsLost(j) ==
  /\ Goes(j, "delivered", "failing") \/ Goes(j, "signalling success", "failing")
  /\ Befalls(j, "lost") /\ UNCHANGED <<log, delivered>>
Leaves(j) ==
  job[j].pc \in Signalling /\ job'[j] = Unused /\ UNCHANGED <<log, delivered, upsets>>
IsRerun(j) ==
  Goes(j, "signalling failure", "queued") /\ Befalls(j, "rerun") /\ UNCHANGED <<log, delivered>>
Decides(j) ==
  /\ \/ Goes(j, "deciding", "requeuing") /\ Writes(j, "retrying")
     \/ Goes(j, "deciding", "signalling failure") /\ Writes(j, "failed")
  /\ UNCHANGED <<delivered, upsets>>
IsRejected(j) ==
  /\ job[j].pc \in {"queued", "failing", "deciding", "requeuing"}
  /\ \/ job'[j].pc = "queued" /\ job'[j].log = job[j].log /\ UNCHANGED upsets
     \/ job'[j] = Unused /\ Befalls(j, "abandoned")
  /\ UNCHANGED <<log, delivered>>

ExecuteStep(j) ==
  \/ Starts(j) \/ Succeeds(j) \/ Fails(j) \/ TellsSuccess(j) \/ IsLost(j)
  \/ Leaves(j) \/ IsRerun(j) \/ Decides(j) \/ IsRejected(j)

\* Nothing but job j, its log, its success count and its upsets changes.
Framed(j) ==
  /\ \A i \in Jobs \ {j} : job'[i] = job[i]
  /\ \A t \in Subscriptions \ {job[j].log} :
       log'[t] = log[t] /\ delivered'[t] = delivered[t] /\ upsets'[t] = upsets[t]
  /\ UNCHANGED <<subscription, router, retrier>>

LEMMA ExecuteEffect ==
  ASSUME StateTypes, NEW j \in Jobs, Execute(j), ~Requeue(j)
  PROVE  ExecuteStep(j) /\ Framed(j) /\ StateTypes' /\ job[j].log \in Subscriptions
<1> DEFINE s == job[j].log
<1>0. job[j].pc # "unused" => job[j] \in JobType /\ s \in Subscriptions
  BY UsedJob
<1>1. CASE Attempt(j)
  <2>1. job[j].pc = "queued" /\ s \in Subscriptions
    BY <1>0, <1>1 DEF Attempt
  <2>2. JobGoes(j, "delivering") /\ UNCHANGED <<subscription, router, retrier, delivered, upsets>>
    BY <1>1 DEF Attempt
  <2>3. /\ job' \in JobMap /\ job'[j].pc = "delivering" /\ job'[j].log = s
        /\ \A i \in Jobs \ {j} : job'[i] = job[i]
    BY <2>1, <2>2, MoveEffect DEF JobSteps
  <2>4. /\ log' \in [Subscriptions -> LogType \cup {None}]
        /\ \A t \in Subscriptions \ {s} : log'[t] = log[t]
        /\ log[s] = None => log' = log
        /\ log[s] # None => log'[s] \in LogType /\ log'[s].status = "retrying"
    <3>1. CASE log[s] = None
      BY <1>1, <3>1 DEF Attempt, StateTypes
    <3>2. CASE log[s] # None
      <4>1. log[s].attempts + 1 \in Nat
        BY <2>1, <3>2 DEF StateTypes, LogType
      <4>2. PICK n \in Nat : n = log[s].attempts + 1
        BY <4>1
      <4>3. [status |-> "retrying", attempts |-> n] \in LogType
        BY DEF LogType
      <4>4. UpdateLog(s, [status |-> "retrying", attempts |-> n])
        BY <1>1, <3>2, <4>2 DEF Attempt
      <4> QED
        BY <2>1, <3>2, <4>3, <4>4, UpdateLogEffect
    <3> QED
      BY <3>1, <3>2
  <2>5. ExecuteStep(j)
    BY <2>1, <2>2, <2>3, <2>4 DEF ExecuteStep, Starts, Goes, Writes
  <2>6. Framed(j)
    BY <2>2, <2>3, <2>4 DEF Framed
  <2>7. StateTypes'
    BY <2>2, <2>3, <2>4 DEF StateTypes, JobMap
  <2> QED
    BY <2>1, <2>5, <2>6, <2>7
<1>2. ASSUME NEW pc \in JobSteps, JobGoes(j, pc), job[j].pc # "unused",
             UNCHANGED <<subscription, log, router, retrier, upsets>>,
             delivered' \in [Subscriptions -> Nat],
             \A t \in Subscriptions \ {s} : delivered'[t] = delivered[t]
      PROVE  /\ Framed(j) /\ StateTypes' /\ s \in Subscriptions
             /\ job'[j].pc = pc /\ job'[j].log = s
  <2>1. /\ job' \in JobMap /\ job'[j].pc = pc /\ job'[j].log = s
        /\ \A i \in Jobs \ {j} : job'[i] = job[i]
    BY <1>2, MoveEffect
  <2> QED
    BY <1>0, <1>2, <2>1 DEF Framed, StateTypes, JobMap
<1>3. CASE DeliverSucceeds(j)
  <2>1. /\ job[j].pc = "delivering" /\ JobGoes(j, "delivered") /\ "delivered" \in JobSteps
        /\ UNCHANGED <<subscription, log, router, retrier, upsets>>
        /\ delivered' = [delivered EXCEPT ![s] = IF @ < 2 THEN @ + 1 ELSE @]
    BY <1>3 DEF DeliverSucceeds, JobSteps
  <2>2. delivered[s] \in Nat /\ s \in Subscriptions
    BY <1>0, <2>1 DEF StateTypes
  <2>3. /\ delivered' \in [Subscriptions -> Nat]
        /\ delivered'[s] = IF delivered[s] < 2 THEN delivered[s] + 1 ELSE delivered[s]
        /\ \A t \in Subscriptions \ {s} : delivered'[t] = delivered[t]
    BY <2>1, <2>2 DEF StateTypes
  <2> QED
    BY <1>2, <2>1, <2>2, <2>3 DEF ExecuteStep, Succeeds, Goes
<1>4. CASE DeliverFails(j)
  <2>1. /\ job[j].pc = "delivering" /\ JobGoes(j, "failing") /\ "failing" \in JobSteps
        /\ UNCHANGED <<subscription, log, router, retrier, delivered, upsets>>
    BY <1>4 DEF DeliverFails, JobSteps
  <2> QED
    BY <1>2, <2>1 DEF ExecuteStep, Fails, Goes, StateTypes
<1>5. ASSUME NEW status \in {"retrying", "success", "failed"}, job[j].pc # "unused",
             IF log[s] = None THEN UNCHANGED log
             ELSE UpdateLog(s, [log[s] EXCEPT !.status = status]),
             job' \in JobMap, \A i \in Jobs \ {j} : job'[i] = job[i],
             UNCHANGED <<subscription, router, retrier, delivered, upsets>>
      PROVE  /\ Framed(j) /\ StateTypes' /\ s \in Subscriptions
             /\ log[s] = None => log' = log
             /\ log[s] # None => log'[s] \in LogType /\ log'[s].status = status
  <2>2. /\ log' \in [Subscriptions -> LogType \cup {None}]
        /\ \A t \in Subscriptions \ {s} : log'[t] = log[t]
        /\ log[s] = None => log' = log
        /\ log[s] # None => log'[s] \in LogType /\ log'[s].status = status
    <3>1. CASE log[s] = None
      BY <1>5, <3>1 DEF StateTypes
    <3>2. CASE log[s] # None
      <4> DEFINE new == [log[s] EXCEPT !.status = status]
      <4>1. log[s] \in LogType
        BY <1>0, <1>5, <3>2 DEF StateTypes
      <4>2. new \in LogType /\ new.status = status
        BY <4>1 DEF LogType
      <4> HIDE DEF new
      <4>3. UpdateLog(s, new)
        BY <1>5, <3>2 DEF new
      <4> QED
        BY <1>0, <1>5, <3>2, <4>2, <4>3, UpdateLogEffect
    <3> QED
      BY <3>1, <3>2
  <2> QED
    BY <1>0, <1>5, <2>2 DEF Framed, StateTypes, JobMap
<1>6. CASE MarkSuccess(j)
  <2>1. /\ job[j].pc = "delivered" /\ "signalling success" \in JobSteps
        /\ JobGoes(j, "signalling success")
        /\ IF log[s] = None THEN UNCHANGED log
           ELSE UpdateLog(s, [log[s] EXCEPT !.status = "success"])
        /\ UNCHANGED <<subscription, router, retrier, delivered, upsets>>
    BY <1>6 DEF MarkSuccess, JobSteps, Signalling
  <2>2. /\ job' \in JobMap /\ job'[j].pc = "signalling success" /\ job'[j].log = s
        /\ \A i \in Jobs \ {j} : job'[i] = job[i]
    BY <2>1, MoveEffect
  <2> QED
    BY <1>5, <2>1, <2>2 DEF ExecuteStep, TellsSuccess, Goes, Writes
<1>7. CASE Signal(j)
  <2>1. /\ job[j].pc \in Signalling /\ job' = [job EXCEPT ![j] = Unused]
        /\ UNCHANGED <<subscription, log, router, retrier, delivered, upsets>>
    BY <1>7 DEF Signal, Signalling
  <2> QED
    BY <1>0, <2>1 DEF ExecuteStep, Leaves, Framed, StateTypes, Signalling
<1>8. CASE SuccessFails(j)
  <2>1. /\ job[j].pc \in {"delivered", "signalling success"} /\ "failing" \in JobSteps
        /\ JobGoes(j, "failing") /\ Upset(s, "lost") /\ s \in Subscriptions
        /\ UNCHANGED <<subscription, log, router, retrier, delivered>>
    BY <1>0, <1>8 DEF SuccessFails, JobSteps
  <2>2. /\ job' \in JobMap /\ job'[j].pc = "failing" /\ job'[j].log = s
        /\ \A i \in Jobs \ {j} : job'[i] = job[i]
    BY <2>1, MoveEffect
  <2>3. /\ upsets' \in [Subscriptions -> SUBSET {"lost", "rerun", "overlap", "abandoned"}]
        /\ "lost" \in upsets'[s] /\ upsets[s] \subseteq upsets'[s]
        /\ \A t \in Subscriptions \ {s} : upsets'[t] = upsets[t]
    BY <2>1, UpsetEffect
  <2> QED
    BY <2>1, <2>2, <2>3
       DEF ExecuteStep, IsLost, Goes, Befalls, Framed, StateTypes, JobMap
<1>12. CASE FailureSignalFails(j)
  <2>1. /\ job[j].pc = "signalling failure" /\ s \in Subscriptions
        /\ (RunsAgain(j) /\ Upset(s, "rerun")) \/ (GivesUp(j) /\ UNCHANGED upsets)
        /\ UNCHANGED <<subscription, log, router, retrier, delivered>>
    BY <1>0, <1>12 DEF FailureSignalFails
  <2>2. CASE RunsAgain(j) /\ Upset(s, "rerun")
    <3>1. /\ job' \in JobMap /\ job'[j].pc = "queued" /\ job'[j].log = s
          /\ \A i \in Jobs \ {j} : job'[i] = job[i]
      BY <2>1, <2>2, RunsAgainEffect
    <3>2. /\ upsets' \in [Subscriptions -> SUBSET {"lost", "rerun", "overlap", "abandoned"}]
          /\ "rerun" \in upsets'[s] /\ upsets[s] \subseteq upsets'[s]
          /\ \A t \in Subscriptions \ {s} : upsets'[t] = upsets[t]
      BY <2>1, <2>2, UpsetEffect
    <3> QED
      BY <2>1, <3>1, <3>2
         DEF ExecuteStep, IsRerun, Goes, Befalls, Framed, StateTypes, JobMap
  <2>3. CASE GivesUp(j) /\ UNCHANGED upsets
    <3>1. job' \in JobMap /\ job'[j] = Unused /\ \A i \in Jobs \ {j} : job'[i] = job[i]
      BY <2>3, GivesUpEffect
    <3> QED
      BY <2>1, <2>3, <3>1 DEF ExecuteStep, Leaves, Framed, StateTypes, JobMap, Signalling
  <2> QED
    BY <2>1, <2>2, <2>3
<1>9. CASE ReadAttempts(j)
  <2>1. /\ job[j].pc = "failing" /\ s \in Subscriptions /\ job[j] \in JobType
        /\ UNCHANGED <<subscription, log, router, retrier, delivered, upsets>>
    BY <1>0, <1>9 DEF ReadAttempts
  <2>2. PICK n \in Nat : n = IF log[s] = None THEN 1 ELSE log[s].attempts
    <3>1. log[s] # None => log[s].attempts \in Nat
      BY <2>1 DEF StateTypes, LogType
    <3> QED
      BY <3>1
  <2>3. PICK pc \in JobSteps : pc = "deciding"
    BY DEF JobSteps
  <2> DEFINE next == [job[j] EXCEPT !.pc = pc, !.attempts = n]
  <2>4. next \in JobType /\ next.pc = "deciding" /\ next.log = s
    BY <2>1, <2>3 DEF JobType
  <2>5. job' = [job EXCEPT ![j] = next]
    BY <1>9, <2>2, <2>3 DEF ReadAttempts, StateTypes
  <2> HIDE DEF next
  <2>6. /\ job' \in JobMap /\ job'[j].pc = "deciding" /\ job'[j].log = s
        /\ \A i \in Jobs \ {j} : job'[i] = job[i]
    BY <2>4, <2>5 DEF StateTypes, JobMap
  <2> QED
    BY <2>1, <2>6 DEF ExecuteStep, Fails, Goes, Framed, StateTypes, JobMap
<1>10. CASE Decide(j)
  <2>1. /\ job[j].pc = "deciding" /\ "requeuing" \in JobSteps /\ "signalling failure" \in JobSteps
        /\ UNCHANGED <<subscription, router, retrier, delivered, upsets>>
    BY <1>10 DEF Decide, JobSteps, Signalling
  <2>2. ASSUME NEW pc \in JobSteps, job' = [job EXCEPT ![j].pc = pc, ![j].attempts = 0]
        PROVE  /\ job' \in JobMap /\ job'[j].pc = pc /\ job'[j].log = s
               /\ \A i \in Jobs \ {j} : job'[i] = job[i]
    <3> DEFINE next == [job[j] EXCEPT !.pc = pc, !.attempts = 0]
    <3>1. next \in JobType /\ next.pc = pc /\ next.log = s
      BY <1>0, <2>1 DEF JobType
    <3>2. job' = [job EXCEPT ![j] = next]
      BY <2>2 DEF StateTypes
    <3> HIDE DEF next
    <3> QED
      BY <3>1, <3>2 DEF StateTypes, JobMap
  <2>3. CASE job[j].attempts < MAX_RETRIES
    <3>1. /\ job' = [job EXCEPT ![j].pc = "requeuing", ![j].attempts = 0]
          /\ IF log[s] = None THEN UNCHANGED log
             ELSE UpdateLog(s, [log[s] EXCEPT !.status = "retrying"])
      BY <1>10, <2>3 DEF Decide
    <3>2. /\ job' \in JobMap /\ job'[j].pc = "requeuing" /\ job'[j].log = s
          /\ \A i \in Jobs \ {j} : job'[i] = job[i]
      BY <2>1, <2>2, <3>1
    <3> QED
      BY <1>5, <2>1, <3>1, <3>2 DEF ExecuteStep, Decides, Goes, Writes
  <2>4. CASE ~(job[j].attempts < MAX_RETRIES)
    <3>1. /\ job' = [job EXCEPT ![j].pc = "signalling failure", ![j].attempts = 0]
          /\ IF log[s] = None THEN UNCHANGED log
             ELSE UpdateLog(s, [log[s] EXCEPT !.status = "failed"])
      BY <1>10, <2>4 DEF Decide
    <3>2. /\ job' \in JobMap /\ job'[j].pc = "signalling failure" /\ job'[j].log = s
          /\ \A i \in Jobs \ {j} : job'[i] = job[i]
      BY <2>1, <2>2, <3>1
    <3> QED
      BY <1>5, <2>1, <3>1, <3>2 DEF ExecuteStep, Decides, Goes, Writes
  <2> QED
    BY <2>3, <2>4
<1>11. CASE AttemptFails(j) \/ CatchFails(j)
  <2>1. /\ job[j].pc \in {"queued", "failing", "deciding", "requeuing"} /\ Rejects(j)
        /\ UNCHANGED <<subscription, log, router, retrier, delivered>>
    BY <1>11 DEF AttemptFails, CatchFails
  <2>2. s \in Subscriptions
    BY <1>0, <2>1
  <2>3. CASE RunsAgain(j) /\ UNCHANGED upsets
    <3>1. /\ job' \in JobMap /\ job'[j].pc = "queued" /\ job'[j].log = s
          /\ \A i \in Jobs \ {j} : job'[i] = job[i]
      BY <2>1, <2>3, RunsAgainEffect
    <3> QED
      BY <2>1, <2>2, <2>3, <3>1 DEF ExecuteStep, IsRejected, Framed, StateTypes, JobMap
  <2>4. CASE GivesUp(j) /\ Upset(s, "abandoned")
    <3>1. job' \in JobMap /\ job'[j] = Unused /\ \A i \in Jobs \ {j} : job'[i] = job[i]
      BY <2>4, GivesUpEffect
    <3>2. /\ upsets' \in [Subscriptions -> SUBSET {"lost", "rerun", "overlap", "abandoned"}]
          /\ "abandoned" \in upsets'[s] /\ upsets[s] \subseteq upsets'[s]
          /\ \A t \in Subscriptions \ {s} : upsets'[t] = upsets[t]
      BY <2>2, <2>4, UpsetEffect
    <3> QED
      BY <2>1, <2>2, <3>1, <3>2 DEF ExecuteStep, IsRejected, Befalls, Framed, StateTypes, JobMap
  <2> QED
    BY <2>1, <2>3, <2>4 DEF Rejects
<1> QED
  BY <1>1, <1>3, <1>4, <1>6, <1>7, <1>8, <1>9, <1>10, <1>11, <1>12 DEF Execute

\* A requeued job leaves its place and gets another one, or the same.
LEMMA RequeueEffect ==
  ASSUME StateTypes, NEW j \in Jobs, Requeue(j)
  PROVE  /\ job[j].pc = "requeuing" /\ job[j].log \in Subscriptions /\ job' \in JobMap
         /\ UNCHANGED <<subscription, log, router, retrier, delivered, upsets>>
         /\ \E k \in Jobs : /\ k = j \/ (job[k] = Unused /\ job'[j] = Unused)
                            /\ job'[k] = NewJob(job[j].log)
                            /\ \A i \in Jobs \ {j, k} : job'[i] = job[i]
<1> DEFINE jobs == [job EXCEPT ![j] = Unused]
<1>1. /\ job[j].pc = "requeuing" /\ Enqueue(jobs, job[j].log)
      /\ UNCHANGED <<subscription, log, router, retrier, delivered, upsets>>
  BY DEF Requeue
<1>2. job[j].log \in Subscriptions
  BY <1>1, UsedJob
<1>3. jobs \in JobMap /\ jobs[j] = Unused /\ \A i \in Jobs \ {j} : jobs[i] = job[i]
  BY DEF StateTypes, JobMap
<1> HIDE DEF jobs
<1>4. job' \in JobMap /\ \E k \in Jobs : /\ jobs[k] = Unused /\ job'[k] = NewJob(job[j].log)
                                         /\ \A i \in Jobs \ {k} : job'[i] = jobs[i]
  BY <1>1, <1>2, <1>3, EnqueueEffect
<1> QED
  BY <1>1, <1>2, <1>3, <1>4

\* The first job of a log.
LEMMA EnqueueFirstEffect ==
  ASSUME StateTypes, EnqueueFirst
  PROVE  /\ router.pc = "enqueuing" /\ router.at \in Subscriptions /\ job' \in JobMap
         /\ router'.pc = "inserting" /\ router'.todo = router.todo /\ router'.at = None
         /\ router' \in [pc : {"idle", "inserting", "enqueuing", "done"},
                         todo : SUBSET Subscriptions, at : Subscriptions \cup {None}]
         /\ UNCHANGED <<subscription, log, retrier, delivered, upsets>>
         /\ \E k \in Jobs : /\ job[k] = Unused /\ job'[k] = NewJob(router.at)
                            /\ \A i \in Jobs \ {k} : job'[i] = job[i]
<1>1. /\ router.pc = "enqueuing" /\ Enqueue(job, router.at)
      /\ router' = [router EXCEPT !.pc = "inserting", !.at = None]
      /\ UNCHANGED <<subscription, log, retrier, delivered, upsets>>
  BY DEF EnqueueFirst
<1>2. router.at \in Subscriptions /\ job \in JobMap
  BY <1>1 DEF StateTypes, JobMap
<1>3. /\ router'.pc = "inserting" /\ router'.todo = router.todo /\ router'.at = None
      /\ router' \in [pc : {"idle", "inserting", "enqueuing", "done"},
                      todo : SUBSET Subscriptions, at : Subscriptions \cup {None}]
  <2>1. PICK pc \in {"idle", "inserting", "enqueuing", "done"} : pc = "inserting"
    OBVIOUS
  <2>2. PICK at \in Subscriptions \cup {None} : at = None
    OBVIOUS
  <2>3. router' = [router EXCEPT !.pc = pc, !.at = at]
    BY <1>1, <2>1, <2>2
  <2> QED
    BY <2>1, <2>2, <2>3 DEF StateTypes
<1> QED
  BY <1>1, <1>2, <1>3, EnqueueEffect

\* The job of a retried log.
LEMMA RetryEnqueueEffect ==
  ASSUME StateTypes, NEW r \in Retriers, RetryEnqueue(r)
  PROVE  /\ retrier[r].pc = "enqueuing" /\ retrier[r].log \in Subscriptions /\ job' \in JobMap
         /\ retrier' = [retrier EXCEPT ![r] = [pc |-> "idle", log |-> None]]
         /\ UNCHANGED <<subscription, log, router, delivered, upsets>>
         /\ \E k \in Jobs : /\ job[k] = Unused /\ job'[k] = NewJob(retrier[r].log)
                            /\ \A i \in Jobs \ {k} : job'[i] = job[i]
<1>1. /\ retrier[r].pc = "enqueuing" /\ Enqueue(job, retrier[r].log)
      /\ retrier' = [retrier EXCEPT ![r] = [pc |-> "idle", log |-> None]]
      /\ UNCHANGED <<subscription, log, router, delivered, upsets>>
  BY DEF RetryEnqueue
<1>2. retrier[r].log \in Subscriptions /\ job \in JobMap
  BY <1>1 DEF StateTypes, JobMap
<1> QED
  BY <1>1, <1>2, EnqueueEffect

-----------------------------------------------------------------------------
(* The steps of routeEvent, retryDelivery and the subscription's operations *)

LEMMA InsertLogEffect ==
  ASSUME StateTypes, NEW s \in Subscriptions, InsertLog(s)
  PROVE  /\ router.pc = "inserting" /\ s \in router.todo
         /\ UNCHANGED <<subscription, job, retrier, delivered, upsets>>
         /\ \/ /\ router'.pc = "done" /\ router'.todo = router.todo /\ router'.at = router.at
               /\ log' = log
            \/ /\ router'.pc = "enqueuing" /\ router'.at = s /\ router'.todo = router.todo \ {s}
               /\ log'[s] \in LogType /\ log'[s].status = "pending"
               /\ \A t \in Subscriptions \ {s} : log'[t] = log[t]
         /\ StateTypes'
<1>1. /\ router.pc = "inserting" /\ s \in router.todo
      /\ UNCHANGED <<subscription, job, retrier, delivered, upsets>>
  BY DEF InsertLog
<1>2. CASE router' = [router EXCEPT !.pc = "done"] /\ log' = log
  <2>1. router'.pc = "done" /\ router'.todo = router.todo /\ router'.at = router.at
    BY <1>2 DEF StateTypes
  <2>2. StateTypes'
    BY <1>1, <1>2, <2>1 DEF StateTypes
  <2> QED
    BY <1>1, <1>2, <2>1, <2>2
<1>3. CASE /\ router' = [pc |-> "enqueuing", todo |-> router.todo \ {s}, at |-> s]
           /\ log' = [log EXCEPT ![s] = [status |-> "pending", attempts |-> 0]]
  <2>2. PICK new \in LogType : new = [status |-> "pending", attempts |-> 0]
    BY DEF LogType
  <2>3. /\ log' \in [Subscriptions -> LogType \cup {None}] /\ log'[s] = new
        /\ \A t \in Subscriptions \ {s} : log'[t] = log[t]
    BY <1>3, <2>2 DEF StateTypes
  <2>4. router'.pc = "enqueuing" /\ router'.at = s /\ router'.todo = router.todo \ {s}
    BY <1>3
  <2>5. StateTypes'
    BY <1>1, <1>3, <2>3, BoundAssumption DEF StateTypes
  <2> QED
    BY <1>1, <2>2, <2>3, <2>4, <2>5
<1> QED
  BY <1>2, <1>3 DEF InsertLog

\* What retryDelivery does before it has a job: to itself, to its log, to nothing else.
LEMMA RetryResetEffect ==
  ASSUME StateTypes, NEW r \in Retriers, RetryReset(r)
  PROVE  LET s == retrier[r].log IN
         /\ retrier[r].pc = "resetting" /\ s \in Subscriptions
         /\ UNCHANGED <<subscription, router, job, delivered>>
         /\ upsets'[s] = upsets[s] \ {"abandoned"}
         /\ \A t \in Subscriptions \ {s} : upsets'[t] = upsets[t]
         /\ retrier'[r].pc = "enqueuing" /\ retrier'[r].log = s
         /\ \A q \in Retriers \ {r} : retrier'[q] = retrier[q]
         /\ log[s] = None => log' = log
         /\ log[s] # None => log'[s] \in LogType /\ log'[s].status = "pending"
         /\ \A t \in Subscriptions \ {s} : log'[t] = log[t]
         /\ StateTypes'
<1> DEFINE s == retrier[r].log
<1>1. /\ retrier[r].pc = "resetting"
      /\ UNCHANGED <<subscription, router, job, delivered>>
      /\ upsets' = [upsets EXCEPT ![s] = @ \ {"abandoned"}]
      /\ UpdateLog(s, [status |-> "pending", attempts |-> 0])
      /\ retrier' = [retrier EXCEPT ![r].pc = "enqueuing"]
  BY DEF RetryReset
<1>2. s \in Subscriptions /\ retrier[r] \in [pc : {"resetting", "enqueuing"}, log : Subscriptions]
  BY <1>1 DEF StateTypes
<1>3. [retrier[r] EXCEPT !.pc = "enqueuing"] \in [pc : {"resetting", "enqueuing"}, log : Subscriptions]
  BY <1>2
<1>4. /\ retrier'[r].pc = "enqueuing" /\ retrier'[r].log = s
      /\ \A q \in Retriers \ {r} : retrier'[q] = retrier[q]
      /\ retrier' \in [Retriers -> [pc : {"idle"}, log : {None}]
                                     \cup [pc : {"resetting", "enqueuing"}, log : Subscriptions]]
  BY <1>1, <1>2, <1>3 DEF StateTypes
<1>5. PICK new \in LogType : new = [status |-> "pending", attempts |-> 0]
  BY DEF LogType
<1>6. /\ log' \in [Subscriptions -> LogType \cup {None}]
      /\ log[s] = None => log' = log
      /\ log[s] # None => log'[s] = new
      /\ \A t \in Subscriptions \ {s} : log'[t] = log[t]
  <2>1. CASE log[s] = None
    BY <1>1, <2>1 DEF UpdateLog, StateTypes
  <2>2. CASE log[s] # None
    BY <1>1, <1>2, <1>5, <2>2, UpdateLogEffect
  <2> QED
    BY <2>1, <2>2
<1>8. /\ upsets' \in [Subscriptions -> SUBSET {"lost", "rerun", "overlap", "abandoned"}]
      /\ upsets'[s] = upsets[s] \ {"abandoned"}
      /\ \A t \in Subscriptions \ {s} : upsets'[t] = upsets[t]
  BY <1>1, <1>2 DEF StateTypes
<1>7. StateTypes'
  BY <1>1, <1>4, <1>6, <1>8 DEF StateTypes
<1> QED
  BY <1>1, <1>2, <1>4, <1>5, <1>6, <1>7, <1>8

LEMMA RetryCheckEffect ==
  ASSUME StateTypes, NEW r \in Retriers, NEW s \in Subscriptions, RetryCheck(r, s)
  PROVE  /\ retrier[r].pc = "idle" /\ log[s] # None /\ log[s].status = "failed"
         /\ retrier[r].log = None /\ retrier'[r].pc = "resetting" /\ retrier'[r].log = s
         /\ \A q \in Retriers \ {r} : retrier'[q] = retrier[q]
         /\ UNCHANGED <<subscription, log, router, job, delivered>>
         /\ \A t \in Subscriptions : upsets[t] \subseteq upsets'[t]
         /\ "overlap" \in upsets'[s] \/ \A q \in Retriers \ {r} : retrier[q].log # s
         /\ StateTypes'
<1>1. /\ retrier[r].pc = "idle" /\ log[s] # None /\ log[s].status = "failed"
      /\ retrier' = [retrier EXCEPT ![r] = [pc |-> "resetting", log |-> s]]
      /\ UNCHANGED <<subscription, log, router, job, delivered>>
      /\ \/ (\E q \in Retriers \ {r} : retrier[q].log = s) /\ Upset(s, "overlap")
         \/ (\A q \in Retriers \ {r} : retrier[q].log # s) /\ UNCHANGED upsets
  BY DEF RetryCheck, Checked
<1>2. /\ upsets' \in [Subscriptions -> SUBSET {"lost", "rerun", "overlap", "abandoned"}]
      /\ \A t \in Subscriptions : upsets[t] \subseteq upsets'[t]
      /\ "overlap" \in upsets'[s] \/ \A q \in Retriers \ {r} : retrier[q].log # s
  <2>1. CASE Upset(s, "overlap")
    <3>1. /\ upsets' \in [Subscriptions -> SUBSET {"lost", "rerun", "overlap", "abandoned"}]
          /\ "overlap" \in upsets'[s] /\ upsets[s] \subseteq upsets'[s]
          /\ \A t \in Subscriptions \ {s} : upsets'[t] = upsets[t]
      BY <2>1, UpsetEffect
    <3> QED
      BY <3>1
  <2>2. CASE (\A q \in Retriers \ {r} : retrier[q].log # s) /\ UNCHANGED upsets
    BY <2>2 DEF StateTypes
  <2> QED
    BY <1>1, <2>1, <2>2
<1> QED
  BY <1>1, <1>2 DEF StateTypes

\* A retryDelivery that fails is over; only a refused job leaves the log behind.
LEMMA RetryFailsEffect ==
  ASSUME StateTypes, NEW r \in Retriers, RetryFails(r)
  PROVE  /\ retrier[r].log \in Subscriptions
         /\ retrier' = [retrier EXCEPT ![r] = [pc |-> "idle", log |-> None]]
         /\ UNCHANGED <<subscription, log, router, job, delivered>>
         /\ retrier[r].pc = "enqueuing" => "abandoned" \in upsets'[retrier[r].log]
         /\ \A t \in Subscriptions : upsets[t] \subseteq upsets'[t]
         /\ StateTypes'
<1> DEFINE s == retrier[r].log
<1>1. /\ retrier[r].pc \in {"resetting", "enqueuing"}
      /\ retrier' = [retrier EXCEPT ![r] = [pc |-> "idle", log |-> None]]
      /\ UNCHANGED <<subscription, log, router, job, delivered>>
      /\ \/ retrier[r].pc = "resetting" /\ UNCHANGED upsets
         \/ retrier[r].pc = "enqueuing" /\ Upset(s, "abandoned")
  BY DEF RetryFails
<1>2. s \in Subscriptions
  BY <1>1 DEF StateTypes
<1>3. /\ upsets' \in [Subscriptions -> SUBSET {"lost", "rerun", "overlap", "abandoned"}]
      /\ \A t \in Subscriptions : upsets[t] \subseteq upsets'[t]
      /\ retrier[r].pc = "enqueuing" => "abandoned" \in upsets'[s]
  <2>1. CASE retrier[r].pc = "resetting" /\ UNCHANGED upsets
    BY <2>1 DEF StateTypes
  <2>2. CASE Upset(s, "abandoned")
    <3>1. /\ upsets' \in [Subscriptions -> SUBSET {"lost", "rerun", "overlap", "abandoned"}]
          /\ "abandoned" \in upsets'[s] /\ upsets[s] \subseteq upsets'[s]
          /\ \A t \in Subscriptions \ {s} : upsets'[t] = upsets[t]
      BY <1>2, <2>2, UpsetEffect
    <3> QED
      BY <3>1
  <2> QED
    BY <1>1, <2>1, <2>2
<1> QED
  BY <1>1, <1>2, <1>3 DEF StateTypes

\* The router gives up a log it has no job for.
LEMMA EnqueueFirstFailsEffect ==
  ASSUME StateTypes, EnqueueFirstFails
  PROVE  /\ router.pc = "enqueuing" /\ router.at \in Subscriptions
         /\ router'.pc = "done" /\ router'.at = None /\ router'.todo = router.todo
         /\ UNCHANGED <<subscription, log, job, retrier, delivered>>
         /\ "abandoned" \in upsets'[router.at]
         /\ \A t \in Subscriptions : upsets[t] \subseteq upsets'[t]
         /\ StateTypes'
<1>1. /\ router.pc = "enqueuing" /\ router' = [router EXCEPT !.pc = "done", !.at = None]
      /\ UNCHANGED <<subscription, log, job, retrier, delivered>>
      /\ Upset(router.at, "abandoned")
  BY DEF EnqueueFirstFails
<1>2. PICK pc \in {"idle", "inserting", "enqueuing", "done"} : pc = "done"
  OBVIOUS
<1>3. PICK at \in Subscriptions \cup {None} : at = None
  OBVIOUS
<1>4. router' = [router EXCEPT !.pc = pc, !.at = at]
  BY <1>1, <1>2, <1>3
<1>5. router.at \in Subscriptions
  BY <1>1 DEF StateTypes
<1>6. /\ upsets' \in [Subscriptions -> SUBSET {"lost", "rerun", "overlap", "abandoned"}]
      /\ "abandoned" \in upsets'[router.at] /\ upsets[router.at] \subseteq upsets'[router.at]
      /\ \A t \in Subscriptions \ {router.at} : upsets'[t] = upsets[t]
  BY <1>1, <1>5, UpsetEffect
<1>7. router'.pc = "done" /\ router'.at = None /\ router'.todo = router.todo
  BY <1>2, <1>3, <1>4 DEF StateTypes
<1>8. StateTypes'
  BY <1>1, <1>2, <1>3, <1>4, <1>6 DEF StateTypes
<1> QED
  BY <1>1, <1>5, <1>6, <1>7, <1>8

-----------------------------------------------------------------------------
LEMMA InitTypes == Init => StateTypes
<1> SUFFICES ASSUME Init PROVE StateTypes
  OBVIOUS
<1>1. router \in [pc : {"idle", "inserting", "enqueuing", "done"}, todo : SUBSET Subscriptions,
                  at : Subscriptions \cup {None}]
      /\ router.pc = "idle" /\ router.at = None
  BY DEF Init
<1> QED
  BY <1>1 DEF Init, StateTypes

LEMMA TypesKept ==
  ASSUME StateTypes, [Next]_vars
  PROVE  StateTypes'
<1>1. CASE RouteEvent
  <2>1. /\ router' = [pc |-> "inserting", at |-> None,
                      todo |-> {s \in Subscriptions : subscription[s] = "enabled"}]
        /\ UNCHANGED <<subscription, log, job, retrier, delivered, upsets>>
    BY <1>1 DEF RouteEvent
  <2>2. PICK todo \in SUBSET Subscriptions :
              todo = {s \in Subscriptions : subscription[s] = "enabled"}
    OBVIOUS
  <2> QED
    BY <2>1, <2>2 DEF StateTypes
<1>2. CASE EnqueueFirst
  BY <1>2, EnqueueFirstEffect DEF StateTypes, JobMap
<1>3. CASE EnqueueFirstFails
  BY <1>3, EnqueueFirstFailsEffect
<1>4. CASE RouteEnds
  <2>1. /\ router.pc = "inserting" /\ router' = [router EXCEPT !.pc = "done"]
        /\ UNCHANGED <<subscription, log, job, retrier, delivered, upsets>>
    BY <1>4 DEF RouteEnds
  <2> QED
    BY <2>1 DEF StateTypes
<1>5. CASE \E s \in Subscriptions : InsertLog(s)
  BY <1>5, InsertLogEffect
<1>6. CASE \E j \in Jobs : Execute(j)
  <2> PICK j \in Jobs : Execute(j)
    BY <1>6
  <2>1. CASE Requeue(j)
    BY <2>1, RequeueEffect DEF StateTypes, JobMap
  <2>2. CASE ~Requeue(j)
    BY <2>2, ExecuteEffect
  <2> QED
    BY <2>1, <2>2
<1>7. CASE \E r \in Retriers : RetryReset(r)
  BY <1>7, RetryResetEffect
<1>8. CASE \E r \in Retriers : RetryEnqueue(r)
  BY <1>8, RetryEnqueueEffect DEF StateTypes, JobMap
<1>9. CASE \E r \in Retriers : RetryFails(r)
  BY <1>9, RetryFailsEffect
<1>10. CASE \E r \in Retriers, s \in Subscriptions : RetryCheck(r, s)
  BY <1>10, RetryCheckEffect
<1>11. CASE \E s \in Subscriptions : DeleteSubscription(s)
  BY <1>11 DEF DeleteSubscription, StateTypes
<1>12. CASE \E s \in Subscriptions : ToggleSubscription(s)
  BY <1>12 DEF ToggleSubscription, StateTypes
<1>13. CASE UNCHANGED vars
  BY <1>13 DEF vars, StateTypes
<1> QED
  BY <1>1, <1>2, <1>3, <1>4, <1>5, <1>6, <1>7, <1>8, <1>9, <1>10, <1>11, <1>12, <1>13
     DEF Next, Route, Retry

-----------------------------------------------------------------------------
(* Unsettled logs are worked on *)

LEMMA OpenHeldKept ==
  ASSUME StateTypes, OpenHeld, [Next]_vars
  PROVE  OpenHeld'
<1> SUFFICES ASSUME NEW s \in Subscriptions, Open(s)', "abandoned" \notin upsets'[s]
             PROVE  WorkedOn(s)'
  BY DEF OpenHeld
<1>0. Open(s) => WorkedOn(s) \/ "abandoned" \in upsets[s]
  BY DEF OpenHeld
<1> USE DEF JobOn, WorkedOn, Open
<1>1. CASE RouteEvent
  <2>1. router.at = None
    BY <1>1 DEF RouteEvent, StateTypes
  <2> QED
    BY <1>0, <1>1, <2>1, BoundAssumption DEF RouteEvent
<1>2. CASE EnqueueFirst
  <2> PICK k \in Jobs : job[k] = Unused /\ job'[k] = NewJob(router.at)
                        /\ \A i \in Jobs \ {k} : job'[i] = job[i]
    BY <1>2, EnqueueFirstEffect
  <2>1. router.pc = "enqueuing" /\ UNCHANGED <<log, retrier, upsets>>
    BY <1>2, EnqueueFirstEffect
  <2>2. job[k].log = None /\ job'[k].log = router.at /\ job'[k].pc \notin Signalling
    BY DEF Unused, NewJob, Signalling
  <2> QED
    BY <1>0, <2>1, <2>2, BoundAssumption
<1>3. CASE EnqueueFirstFails
  BY <1>0, <1>3, EnqueueFirstFailsEffect
<1>4. CASE RouteEnds
  BY <1>0, <1>4 DEF RouteEnds, StateTypes
<1>5. CASE \E t \in Subscriptions : InsertLog(t)
  <2>1. router.pc = "inserting" => router.at # s
    BY BoundAssumption DEF StateTypes
  <2> QED
    BY <1>0, <1>5, <2>1, InsertLogEffect
<1>6. CASE \E j \in Jobs : Execute(j)
  <2> PICK j \in Jobs : Execute(j)
    BY <1>6
  <2>1. CASE Requeue(j)
    <3> PICK k \in Jobs : /\ k = j \/ (job[k] = Unused /\ job'[j] = Unused)
                          /\ job'[k] = NewJob(job[j].log)
                          /\ \A i \in Jobs \ {j, k} : job'[i] = job[i]
      BY <2>1, RequeueEffect
    <3>1. UNCHANGED <<log, router, retrier, upsets>>
      BY <2>1, RequeueEffect
    <3>2. /\ k # j => job[k].log = None
          /\ job'[k].log = job[j].log /\ job'[k].pc \notin Signalling
      BY DEF Unused, NewJob, Signalling
    <3> QED
      BY <1>0, <3>1, <3>2, BoundAssumption
  <2>2. CASE ~Requeue(j)
    <3>1. ExecuteStep(j) /\ Framed(j) /\ job[j].log \in Subscriptions
      BY <2>2, ExecuteEffect
    <3>2. CASE job[j].log # s
      BY <1>0, <3>1, <3>2 DEF ExecuteStep, Starts, Succeeds, Fails, TellsSuccess, Leaves,
                              IsLost, IsRerun, Decides, IsRejected, Framed
    <3>3. CASE job[j].log = s
      BY <1>0, <3>1, <3>3 DEF ExecuteStep, Starts, Succeeds, Fails, TellsSuccess, Leaves,
                              IsLost, IsRerun, Decides, IsRejected, Befalls, Goes, Writes, Framed,
                              Signalling
    <3> QED
      BY <3>2, <3>3
  <2> QED
    BY <2>1, <2>2
<1>7. CASE \E r \in Retriers : RetryReset(r)
  BY <1>0, <1>7, RetryResetEffect
<1>8. CASE \E r \in Retriers : RetryEnqueue(r)
  <2> PICK r \in Retriers : RetryEnqueue(r)
    BY <1>8
  <2> PICK k \in Jobs : job[k] = Unused /\ job'[k] = NewJob(retrier[r].log)
                        /\ \A i \in Jobs \ {k} : job'[i] = job[i]
    BY RetryEnqueueEffect
  <2>1. /\ retrier' = [retrier EXCEPT ![r] = [pc |-> "idle", log |-> None]]
        /\ UNCHANGED <<log, router, upsets>>
    BY RetryEnqueueEffect
  <2>2. job[k].log = None /\ job'[k].log = retrier[r].log /\ job'[k].pc \notin Signalling
    BY DEF Unused, NewJob, Signalling
  <2> QED
    BY <1>0, <2>1, <2>2, BoundAssumption DEF StateTypes
<1>9. CASE \E r \in Retriers : RetryFails(r)
  <2> PICK r \in Retriers : RetryFails(r)
    BY <1>9
  <2>1. /\ retrier' = [retrier EXCEPT ![r] = [pc |-> "idle", log |-> None]]
        /\ UNCHANGED <<log, router, job>> /\ upsets[s] \subseteq upsets'[s]
        /\ retrier[r].pc = "enqueuing" => retrier[r].log # s
    BY RetryFailsEffect
  <2> QED
    BY <1>0, <2>1 DEF StateTypes
<1>10. CASE \E r \in Retriers, t \in Subscriptions : RetryCheck(r, t)
  BY <1>0, <1>10, RetryCheckEffect
<1>11. CASE \E t \in Subscriptions : DeleteSubscription(t)
  BY <1>0, <1>11 DEF DeleteSubscription, StateTypes
<1>12. CASE \E t \in Subscriptions : ToggleSubscription(t)
  BY <1>0, <1>12 DEF ToggleSubscription
<1>13. CASE UNCHANGED vars
  BY <1>0, <1>13 DEF vars
<1> QED
  BY <1>1, <1>2, <1>3, <1>4, <1>5, <1>6, <1>7, <1>8, <1>9, <1>10, <1>11, <1>12, <1>13
     DEF Next, Route, Retry

\* At every moment an unsettled log has a job, a retryDelivery or routeEvent at
\* work on it, unless the queue refused or gave up its job (delivery-coordinator.ts).
THEOREM OpenLogsWorkedOnCorrect == Spec => []OpenLogsWorkedOn
<1>1. Init => StateTypes /\ OpenHeld
  BY InitTypes DEF Init, OpenHeld, Open
<1>2. StateTypes /\ OpenHeld /\ [Next]_vars => (StateTypes /\ OpenHeld)'
  BY TypesKept, OpenHeldKept
<1>3. OpenHeld => OpenLogsWorkedOn
  BY DEF OpenHeld, OpenLogsWorkedOn, WorkedOn, JobOn
<1> QED
  BY <1>1, <1>2, <1>3, PTL DEF Spec

-----------------------------------------------------------------------------
(* One at a time *)

LEMMA SuccessesRealKept ==
  ASSUME StateTypes, SuccessesReal, [Next]_vars
  PROVE  SuccessesReal'
<1> USE DEF SuccessesReal
<1>1. CASE RouteEvent \/ EnqueueFirstFails \/ RouteEnds
  BY <1>1 DEF RouteEvent, EnqueueFirstFails, RouteEnds
<1>2. CASE EnqueueFirst
  BY <1>2, EnqueueFirstEffect DEF NewJob
<1>5. CASE \E t \in Subscriptions : InsertLog(t)
  BY <1>5, InsertLogEffect
<1>6. CASE \E j \in Jobs : Execute(j)
  <2> PICK j \in Jobs : Execute(j)
    BY <1>6
  <2>1. CASE Requeue(j)
    <3> PICK k \in Jobs : /\ k = j \/ (job[k] = Unused /\ job'[j] = Unused)
                          /\ job'[k] = NewJob(job[j].log)
                          /\ \A i \in Jobs \ {j, k} : job'[i] = job[i]
      BY <2>1, RequeueEffect
    <3>1. UNCHANGED <<log, delivered>>
      BY <2>1, RequeueEffect
    <3>2. job'[k].pc = "queued" /\ (k # j => job'[j].pc = "unused")
      BY DEF Unused, NewJob
    <3> QED
      BY <3>1, <3>2
  <2>2. CASE ~Requeue(j)
    <3>1. /\ ExecuteStep(j) /\ Framed(j) /\ job[j].log \in Subscriptions
          /\ delivered \in [Subscriptions -> Nat]
      BY <2>2, ExecuteEffect DEF StateTypes
    <3>2. \A t \in Subscriptions : delivered'[t] > 0 \/ delivered[t] = 0
      <4>1. delivered'[job[j].log] = delivered[job[j].log]
            \/ delivered'[job[j].log] = IF delivered[job[j].log] < 2 THEN delivered[job[j].log] + 1
                                       ELSE delivered[job[j].log]
        BY <3>1 DEF ExecuteStep, Starts, Succeeds, Fails, TellsSuccess, Leaves, IsLost,
                    IsRerun, Decides, IsRejected
      <4> QED
        BY <3>1, <4>1 DEF Framed
    <3>3. \A i \in Jobs : job[i].pc = "delivered" => job[i].log \in Subscriptions
      BY UsedJob
    <3>4. ASSUME NEW i \in Jobs, job'[i].pc = "delivered"
          PROVE  delivered'[job'[i].log] > 0
      <4>1. CASE i # j
        BY <3>1, <3>2, <3>3, <3>4, <4>1 DEF Framed
      <4>2. CASE i = j
        <5>0. job'[j] # Unused
          BY <3>4, <4>2 DEF Unused
        <5>1. Succeeds(j)
          BY <3>1, <3>4, <4>2, <5>0 DEF ExecuteStep, Starts, Fails, TellsSuccess, Leaves,
                                        IsLost, IsRerun, Decides, IsRejected, Goes
        <5> QED
          BY <3>1, <4>2, <5>1 DEF Succeeds, Goes
      <4> QED
        BY <4>1, <4>2
    <3>5. ASSUME NEW t \in Subscriptions, log'[t] # None, log'[t].status = "success"
          PROVE  delivered'[t] > 0
      <4>1. CASE t # job[j].log
        BY <3>1, <3>5, <4>1 DEF Framed
      <4>2. CASE t = job[j].log
        <5>1. CASE TellsSuccess(j)
          BY <3>1, <3>2, <4>2, <5>1 DEF TellsSuccess, Goes
        <5>2. CASE ~TellsSuccess(j)
          <6>1. log[t] # None /\ log[t].status = "success"
            BY <3>1, <3>5, <4>2, <5>2 DEF ExecuteStep, Starts, Succeeds, Fails, Leaves,
                                          IsLost, IsRerun, Decides, IsRejected, Writes
          <6> QED
            BY <3>1, <3>2, <4>2, <6>1
        <5> QED
          BY <5>1, <5>2
      <4> QED
        BY <4>1, <4>2
    <3> QED
      BY <3>4, <3>5
  <2> QED
    BY <2>1, <2>2
<1>7. CASE \E r \in Retriers : RetryReset(r)
  BY <1>7, RetryResetEffect
<1>8. CASE \E r \in Retriers : RetryEnqueue(r)
  <2> PICK r \in Retriers : RetryEnqueue(r)
    BY <1>8
  <2> PICK k \in Jobs : job'[k] = NewJob(retrier[r].log) /\ \A i \in Jobs \ {k} : job'[i] = job[i]
    BY RetryEnqueueEffect
  <2>1. UNCHANGED <<log, delivered>> /\ job'[k].pc = "queued"
    BY RetryEnqueueEffect DEF NewJob
  <2> QED
    BY <2>1
<1>9. CASE \E r \in Retriers : RetryFails(r)
  BY <1>9, RetryFailsEffect
<1>10. CASE \E r \in Retriers, t \in Subscriptions : RetryCheck(r, t)
  BY <1>10, RetryCheckEffect
<1>11. CASE \E t \in Subscriptions : DeleteSubscription(t)
  BY <1>11 DEF DeleteSubscription, StateTypes
<1>12. CASE \E t \in Subscriptions : ToggleSubscription(t)
  BY <1>12 DEF ToggleSubscription
<1>13. CASE UNCHANGED vars
  BY <1>13 DEF vars
<1> QED
  BY <1>1, <1>2, <1>5, <1>6, <1>7, <1>8, <1>9, <1>10, <1>11, <1>12, <1>13
     DEF Next, Route, Retry

\* What the code has no protection against stays on record.
LEMMA UnprotectedStays ==
  ASSUME StateTypes, [Next]_vars, NEW s \in Subscriptions, Unprotected(s)
  PROVE  Unprotected(s)'
<1> SUFFICES upsets[s] \ {"abandoned"} \subseteq upsets'[s]
  BY DEF Unprotected
<1>1. CASE RouteEvent \/ RouteEnds \/ UNCHANGED vars
  BY <1>1 DEF RouteEvent, RouteEnds, vars
<1>2. CASE EnqueueFirst \/ EnqueueFirstFails
  BY <1>2, EnqueueFirstEffect, EnqueueFirstFailsEffect
<1>3. CASE \E t \in Subscriptions : InsertLog(t)
  BY <1>3, InsertLogEffect
<1>4. CASE \E j \in Jobs : Execute(j)
  <2> PICK j \in Jobs : Execute(j)
    BY <1>4
  <2>1. CASE Requeue(j)
    BY <2>1, RequeueEffect
  <2>2. CASE ~Requeue(j)
    <3>1. ExecuteStep(j) /\ Framed(j)
      BY <2>2, ExecuteEffect
    <3> QED
      BY <3>1 DEF ExecuteStep, Starts, Succeeds, Fails, TellsSuccess, Leaves, IsLost, IsRerun,
                  Decides, IsRejected, Befalls, Framed
  <2> QED
    BY <2>1, <2>2
<1>5. CASE \E r \in Retriers : RetryReset(r)
  BY <1>5, RetryResetEffect
<1>6. CASE \E r \in Retriers : RetryEnqueue(r) \/ RetryFails(r)
  BY <1>6, RetryEnqueueEffect, RetryFailsEffect
<1>7. CASE \E r \in Retriers, t \in Subscriptions : RetryCheck(r, t)
  BY <1>7, RetryCheckEffect
<1>8. CASE \E t \in Subscriptions : DeleteSubscription(t) \/ ToggleSubscription(t)
  BY <1>8 DEF DeleteSubscription, ToggleSubscription
<1> QED
  BY <1>1, <1>2, <1>3, <1>4, <1>5, <1>6, <1>7, <1>8 DEF Next, Route, Retry

LEMMA HandlingKept ==
  ASSUME StateTypes, [Next]_vars, NEW s \in Subscriptions, ~Unprotected(s)', Handling(s)
  PROVE  Handling(s)'
<1> USE DEF Handling
<1>0. router.pc # "enqueuing" => router.at # s
  BY BoundAssumption DEF StateTypes
<1>1. CASE RouteEvent
  BY <1>0, <1>1, BoundAssumption
     DEF RouteEvent, OneActor, NotYet, FailedAlone, DeliveredAlone, JobOn
<1>2. CASE EnqueueFirst
  <2> PICK k \in Jobs : job[k] = Unused /\ job'[k] = NewJob(router.at)
                        /\ \A i \in Jobs \ {k} : job'[i] = job[i]
    BY <1>2, EnqueueFirstEffect
  <2>1. /\ router.pc = "enqueuing" /\ router.at \in Subscriptions
        /\ router'.pc = "inserting" /\ router'.todo = router.todo /\ router'.at = None
        /\ UNCHANGED <<log, retrier, delivered>>
    BY <1>2, EnqueueFirstEffect
  <2>2. job[k].log # s /\ (job'[k].log = s <=> router.at = s) /\ None # s
        /\ job'[k].pc \notin Signalling
    BY BoundAssumption DEF Unused, NewJob, Signalling
  <2>3. OneActor(s)'
    BY <2>1, <2>2 DEF OneActor, JobOn
  <2>4. NotYet(s)'
    BY <2>1, <2>2 DEF NotYet
  <2>5. FailedAlone(s)'
    BY <2>1, <2>2 DEF FailedAlone, JobOn
  <2>6. DeliveredAlone(s)'
    BY <2>1, <2>2 DEF DeliveredAlone, JobOn
  <2> QED
    BY <2>3, <2>4, <2>5, <2>6
<1>3. CASE EnqueueFirstFails
  <2>1. router'.pc = "done" /\ router'.at # s /\ router'.todo = router.todo
        /\ router.pc = "enqueuing" /\ UNCHANGED <<log, job, retrier, delivered>>
    BY <1>3, EnqueueFirstFailsEffect, BoundAssumption
  <2> QED
    BY <2>1 DEF OneActor, NotYet, FailedAlone, DeliveredAlone, JobOn
<1>4. CASE RouteEnds
  BY <1>0, <1>4 DEF RouteEnds, StateTypes, OneActor, NotYet, FailedAlone,
                    DeliveredAlone, JobOn
<1>5. CASE \E t \in Subscriptions : InsertLog(t)
  <2> PICK t \in Subscriptions : InsertLog(t)
    BY <1>5
  <2>1. router.pc = "inserting" /\ t \in router.todo
        /\ UNCHANGED <<job, retrier, delivered>>
        /\ \/ /\ router'.pc = "done" /\ router'.todo = router.todo /\ router'.at = router.at
              /\ log' = log
           \/ /\ router'.pc = "enqueuing" /\ router'.at = t /\ router'.todo = router.todo \ {t}
              /\ log'[t] \in LogType /\ log'[t].status = "pending"
              /\ \A u \in Subscriptions \ {t} : log'[u] = log[u]
    BY InsertLogEffect
  <2>2. CASE t = s
    BY <1>0, <2>1, <2>2 DEF OneActor, NotYet, FailedAlone, DeliveredAlone, JobOn
  <2>3. CASE t # s
    BY <1>0, <2>1, <2>3 DEF OneActor, NotYet, FailedAlone, DeliveredAlone, JobOn
  <2> QED
    BY <2>2, <2>3
<1>6. CASE \E j \in Jobs : Execute(j)
  <2> PICK j \in Jobs : Execute(j)
    BY <1>6
  <2>1. CASE Requeue(j)
    <3> PICK k \in Jobs : /\ k = j \/ (job[k] = Unused /\ job'[j] = Unused)
                          /\ job'[k] = NewJob(job[j].log)
                          /\ \A i \in Jobs \ {j, k} : job'[i] = job[i]
      BY <2>1, RequeueEffect
    <3>1. /\ job[j].pc = "requeuing" /\ job[j].log \in Subscriptions
          /\ UNCHANGED <<log, router, retrier, delivered>>
      BY <2>1, RequeueEffect
    <3>2. /\ k # j => job[k].log # s /\ job'[j].log # s
          /\ job'[k].log = job[j].log /\ job'[k].pc = "queued" /\ "queued" \notin Signalling
          /\ "requeuing" \notin Signalling /\ JobOn(j, s) = (job[j].log = s)
      BY <3>1, BoundAssumption DEF Unused, NewJob, Signalling, JobOn
    <3>3. OneActor(s)'
      BY <3>1, <3>2 DEF OneActor, JobOn
    <3>4. NotYet(s)'
      BY <3>1, <3>2 DEF NotYet
    <3>5. FailedAlone(s)'
      BY <3>1, <3>2 DEF FailedAlone, JobOn
    <3>6. DeliveredAlone(s)'
      BY <3>1, <3>2 DEF DeliveredAlone, JobOn
    <3> QED
      BY <3>3, <3>4, <3>5, <3>6
  <2>2. CASE ~Requeue(j)
    <3>1. /\ ExecuteStep(j) /\ Framed(j) /\ job[j].log \in Subscriptions
          /\ delivered \in [Subscriptions -> Nat]
      BY <2>2, ExecuteEffect DEF StateTypes
    <3>2. CASE job[j].log # s
      <4>1. /\ log'[s] = log[s] /\ delivered'[s] = delivered[s] /\ UNCHANGED <<router, retrier>>
            /\ job'[j].log # s /\ \A i \in Jobs \ {j} : job'[i] = job[i]
        <5>1. job'[j] = Unused \/ job'[j].log = job[j].log
          BY <3>1 DEF ExecuteStep, Starts, Succeeds, Fails, TellsSuccess, Leaves, IsLost,
                      IsRerun, Decides, IsRejected, Goes
        <5>2. job'[j].log # s
          BY <3>2, <5>1, BoundAssumption DEF Unused
        <5> QED
          BY <3>1, <3>2, <5>2 DEF Framed
      <4> QED
        BY <3>2, <4>1 DEF OneActor, NotYet, FailedAlone, DeliveredAlone, JobOn
    <3>3. CASE job[j].log = s
      <4>1. UNCHANGED <<router, retrier>> /\ \A i \in Jobs \ {j} : job'[i] = job[i]
        BY <3>1 DEF Framed
      <4>2. CASE Starts(j) \/ Fails(j)
        <5>1. OneActor(s)'
          BY <3>1, <3>3, <4>1, <4>2 DEF Starts, Fails, Goes, Writes, Signalling, OneActor, JobOn
        <5>2. NotYet(s)'
          BY <3>1, <3>3, <4>1, <4>2 DEF Starts, Fails, Goes, Writes, Signalling, NotYet
        <5>3. FailedAlone(s)'
          BY <3>1, <3>3, <4>1, <4>2 DEF Starts, Fails, Goes, Writes, Signalling, FailedAlone, JobOn
        <5>4. DeliveredAlone(s)'
          BY <3>1, <3>3, <4>1, <4>2 DEF Starts, Fails, Goes, Writes, Signalling, DeliveredAlone, JobOn
        <5> QED
          BY <5>1, <5>2, <5>3, <5>4
      <4>3. CASE Succeeds(j)
        <5>1. ~(delivered[s] > 0) /\ delivered'[s] = 1
          <6>1. ~(delivered[s] > 0)
            BY <3>3, <4>3 DEF Succeeds, Goes, DeliveredAlone, JobOn, Signalling
          <6>2. delivered[s] \in Nat /\ delivered'[s] = IF delivered[s] < 2 THEN delivered[s] + 1 ELSE delivered[s]
            BY <3>1, <3>3, <4>3 DEF Succeeds
          <6> QED
            BY <6>1, <6>2
        <5>2. OneActor(s)'
          <6>1. \A i \in Jobs : JobOn(i, s)' => JobOn(i, s)
            BY <3>3, <4>1, <4>3 DEF Succeeds, Goes, Signalling, JobOn
          <6> QED
            BY <4>1, <6>1 DEF OneActor
        <5>3. NotYet(s)'
          BY <3>1, <3>3, <4>1, <4>3, <5>1 DEF Succeeds, Goes, Signalling, NotYet
        <5>4. FailedAlone(s)'
          BY <3>1, <3>3, <4>1, <4>3, <5>1 DEF Succeeds, Goes, Signalling, FailedAlone, JobOn
        <5>5. DeliveredAlone(s)'
          <6>1. JobOn(j, s) /\ JobOn(j, s)' /\ job'[j].pc = "delivered"
            BY <3>3, <4>3 DEF Succeeds, Goes, Signalling, JobOn
          <6>2. \A i \in Jobs : JobOn(i, s)' => JobOn(i, s)
            BY <4>1, <6>1 DEF JobOn
          <6>3. /\ \A i \in Jobs : JobOn(i, s) => i = j
                /\ router'.at # s /\ \A r \in Retriers : retrier'[r].log # s
            BY <4>1, <6>1 DEF OneActor
          <6> QED
            BY <5>1, <6>1, <6>2, <6>3 DEF DeliveredAlone
        <5> QED
          BY <5>2, <5>3, <5>4, <5>5
      <4>4. CASE TellsSuccess(j)
        BY <3>1, <3>3, <4>1, <4>4
           DEF TellsSuccess, Goes, Writes, Signalling, OneActor, NotYet, FailedAlone,
               DeliveredAlone, JobOn
      <4>5. CASE Leaves(j)
        <5>1. job'[j].log # s
          BY <4>5, BoundAssumption DEF Leaves, Unused
        <5> QED
          BY <3>1, <3>3, <4>1, <4>5, <5>1
             DEF Leaves, OneActor, NotYet, FailedAlone, DeliveredAlone, JobOn
      <4>6. CASE Decides(j)
        <5>1. /\ JobOn(j, s) /\ job[j].pc = "deciding" /\ job'[j].log = s
              /\ UNCHANGED <<delivered, upsets>>
          BY <3>3, <4>6 DEF Decides, Goes, JobOn, Signalling
        <5>2. delivered[s] = 0 /\ router.at # s /\ \A r \in Retriers : retrier[r].log # s
          BY <3>1, <5>1 DEF DeliveredAlone, OneActor
        <5>3. CASE job'[j].pc = "requeuing" /\ Writes(j, "retrying")
          <6>1. OneActor(s)'
            <7>1. \A i \in Jobs : JobOn(i, s)' => JobOn(i, s)
              BY <4>1, <5>1 DEF JobOn
            <7> QED
              BY <4>1, <7>1 DEF OneActor
          <6>2. NotYet(s)'
            BY <3>3, <4>1, <5>1, <5>2, <5>3 DEF Writes, Signalling, NotYet
          <6>3. FailedAlone(s)'
            BY <3>3, <4>1, <5>1, <5>2, <5>3 DEF Writes, Signalling, FailedAlone, JobOn
          <6>4. DeliveredAlone(s)'
            BY <3>3, <4>1, <5>1, <5>2, <5>3 DEF Writes, Signalling, DeliveredAlone, JobOn
          <6> QED
            BY <6>1, <6>2, <6>3, <6>4
        <5>4. CASE job'[j].pc = "signalling failure"
          BY <3>3, <4>1, <5>1, <5>2, <5>4
             DEF Signalling, OneActor, NotYet, FailedAlone, DeliveredAlone, JobOn
        <5> QED
          BY <4>6, <5>3, <5>4 DEF Decides, Goes
      <4>7. CASE IsRejected(j)
        <5>1. JobOn(j, s)' => job'[j].pc = "queued"
          BY <3>3, <4>7, BoundAssumption DEF IsRejected, JobOn, Unused
        <5>2. UNCHANGED <<log, delivered>> /\ JobOn(j, s) /\ job[j].pc # "delivered"
          BY <3>3, <4>7 DEF IsRejected, JobOn, Signalling
        <5>3. job'[j].log = s => job[j].log = s
          BY <3>3
        <5> QED
          BY <4>1, <5>1, <5>2, <5>3
             DEF OneActor, NotYet, FailedAlone, DeliveredAlone, JobOn
      <4>8. CASE IsLost(j) \/ IsRerun(j)
        BY <3>3, <4>8 DEF IsLost, IsRerun, Befalls, Unprotected
      <4> QED
        BY <3>1, <4>2, <4>3, <4>4, <4>5, <4>6, <4>7, <4>8 DEF ExecuteStep
    <3> QED
      BY <3>2, <3>3
  <2> QED
    BY <2>1, <2>2
<1>7. CASE \E r \in Retriers : RetryReset(r)
  BY <1>7, RetryResetEffect DEF OneActor, NotYet, FailedAlone, DeliveredAlone, JobOn
<1>8. CASE \E r \in Retriers : RetryEnqueue(r)
  <2> PICK r \in Retriers : RetryEnqueue(r)
    BY <1>8
  <2> PICK k \in Jobs : job[k] = Unused /\ job'[k] = NewJob(retrier[r].log)
                        /\ \A i \in Jobs \ {k} : job'[i] = job[i]
    BY RetryEnqueueEffect
  <2>1. /\ retrier[r].pc = "enqueuing" /\ retrier[r].log \in Subscriptions
        /\ retrier' = [retrier EXCEPT ![r] = [pc |-> "idle", log |-> None]]
        /\ UNCHANGED <<log, router, delivered>>
    BY RetryEnqueueEffect
  <2>2. /\ job[k].log # s /\ (job'[k].log = s <=> retrier[r].log = s) /\ job'[k].pc \notin Signalling
        /\ \A q \in Retriers : retrier'[q].log # s \/ (retrier[r].log # s /\ retrier'[q] = retrier[q])
    BY <2>1, BoundAssumption DEF Unused, NewJob, Signalling, StateTypes, OneActor
  <2>3. OneActor(s)'
    BY <2>1, <2>2 DEF OneActor, JobOn
  <2>4. NotYet(s)'
    BY <2>1, <2>2 DEF NotYet
  <2>5. FailedAlone(s)'
    BY <2>1, <2>2 DEF FailedAlone, JobOn
  <2>6. DeliveredAlone(s)'
    BY <2>1, <2>2 DEF DeliveredAlone, JobOn
  <2> QED
    BY <2>3, <2>4, <2>5, <2>6
<1>9. CASE \E r \in Retriers : RetryFails(r)
  <2>1. UNCHANGED <<log, router, job, delivered>>
        /\ \A q \in Retriers : retrier'[q] = retrier[q] \/ retrier'[q].log # s
    BY <1>9, RetryFailsEffect, BoundAssumption DEF StateTypes
  <2> QED
    BY <2>1 DEF OneActor, NotYet, FailedAlone, DeliveredAlone, JobOn
<1>10. CASE \E r \in Retriers, t \in Subscriptions : RetryCheck(r, t)
  <2> PICK r \in Retriers, t \in Subscriptions : RetryCheck(r, t)
    BY <1>10
  <2>1. /\ log[t] # None /\ log[t].status = "failed" /\ UNCHANGED <<log, router, job, delivered>>
        /\ retrier[r].log = None /\ retrier'[r].pc = "resetting" /\ retrier'[r].log = t
        /\ \A q \in Retriers \ {r} : retrier'[q] = retrier[q]
        /\ "overlap" \in upsets'[t] \/ \A q \in Retriers \ {r} : retrier[q].log # t
    BY RetryCheckEffect
  <2>2. CASE t # s
    BY <2>1, <2>2, BoundAssumption DEF OneActor, NotYet, FailedAlone, DeliveredAlone, JobOn
  <2>3. CASE t = s
    <3>1. \A q \in Retriers \ {r} : retrier'[q].log # s
      BY <2>1, <2>3 DEF Unprotected
    <3> QED
      BY <2>1, <2>3, <3>1 DEF OneActor, NotYet, FailedAlone, DeliveredAlone, JobOn
  <2> QED
    BY <2>2, <2>3
<1>11. CASE \E t \in Subscriptions : DeleteSubscription(t)
  BY <1>11 DEF DeleteSubscription, StateTypes, OneActor, NotYet, FailedAlone, DeliveredAlone, JobOn
<1>12. CASE \E t \in Subscriptions : ToggleSubscription(t)
  BY <1>12 DEF ToggleSubscription, OneActor, NotYet, FailedAlone, DeliveredAlone, JobOn
<1>13. CASE UNCHANGED vars
  BY <1>13 DEF vars, OneActor, NotYet, FailedAlone, DeliveredAlone, JobOn
<1> QED
  BY <1>1, <1>2, <1>3, <1>4, <1>5, <1>6, <1>7, <1>8, <1>9, <1>10, <1>11, <1>12, <1>13
     DEF Next, Route, Retry

LEMMA OneAtATimeInductive == Spec => [](StateTypes /\ SuccessesReal /\ OneAtATime)
<1>1. Init => StateTypes /\ SuccessesReal /\ OneAtATime
  <2> SUFFICES ASSUME Init PROVE SuccessesReal /\ OneAtATime
    BY InitTypes
  <2>1. /\ \A s \in Subscriptions : log[s] = None /\ delivered[s] = 0 /\ router.at # s
        /\ \A j \in Jobs : job[j].pc = "unused" /\ job[j].log = None
        /\ \A r \in Retriers : retrier[r].log = None
    BY BoundAssumption DEF Init, Unused
  <2>2. SuccessesReal
    BY <2>1 DEF SuccessesReal
  <2>3. ASSUME NEW s \in Subscriptions
        PROVE  Handling(s)
    <3>1. s # None /\ \A j \in Jobs : ~JobOn(j, s)
      BY <2>1, BoundAssumption DEF JobOn
    <3>2. OneActor(s) /\ NotYet(s)
      BY <2>1, <3>1 DEF OneActor, NotYet
    <3>3. FailedAlone(s) /\ DeliveredAlone(s)
      BY <2>1 DEF FailedAlone, DeliveredAlone
    <3> QED
      BY <3>2, <3>3 DEF Handling
  <2> QED
    BY <2>2, <2>3 DEF OneAtATime
<1>2. ASSUME StateTypes, SuccessesReal, OneAtATime, [Next]_vars
      PROVE  (StateTypes /\ SuccessesReal /\ OneAtATime)'
  <2>1. OneAtATime'
    BY <1>2, HandlingKept, UnprotectedStays DEF OneAtATime
  <2> QED
    BY <1>2, <2>1, TypesKept, SuccessesRealKept
<1> QED
  BY <1>1, <1>2, PTL DEF Spec

\* Whatever statements, enqueues and providers fail, and whoever calls retryDelivery,
\* the provider accepts each delivery at most once, unless one of the three things the
\* code has no protection against has befallen this delivery: until then at most one job
\* is at work on its log, the one that had the success only tells it, and retryDelivery
\* takes the log up only after its failure, when nobody is at work on it
\* (delivery-coordinator.ts).
THEOREM DeliveredOnceCorrect == Spec => []DeliveredOnce
<1>1. StateTypes /\ OneAtATime => DeliveredOnce
  <2> SUFFICES ASSUME StateTypes, OneAtATime, NEW s \in Subscriptions, delivered[s] > 1,
                      ~Unprotected(s)
               PROVE  FALSE
    BY DEF DeliveredOnce
  <2>1. Handling(s) /\ delivered[s] \in Nat
    BY DEF OneAtATime, StateTypes
  <2> QED
    BY <2>1 DEF Handling, DeliveredAlone
<1> QED
  BY <1>1, OneAtATimeInductive, PTL

\* The status of a settled log is what happened to its delivery, whichever of its jobs
\* wrote it: "success" only after deliver() succeeded, always; "failed" only if it never
\* did, but for the same three exceptions (delivery-coordinator.ts).
THEOREM LogTruthfulCorrect == Spec => []LogTruthful
<1>1. StateTypes /\ SuccessesReal /\ OneAtATime => LogTruthful
  <2> SUFFICES ASSUME StateTypes, SuccessesReal, OneAtATime, NEW s \in Subscriptions,
                      log[s] # None, log[s].status = "failed", ~Unprotected(s)
               PROVE  delivered[s] = 0
    BY DEF LogTruthful, SuccessesReal
  <2>1. Handling(s) /\ delivered[s] \in Nat
    BY DEF OneAtATime, StateTypes
  <2> QED
    BY <2>1 DEF Handling, DeliveredAlone, FailedAlone
<1> QED
  BY <1>1, OneAtATimeInductive, PTL

-----------------------------------------------------------------------------
(* EventBus. For any listeners, groups and events. A group is given an event again
   only when a retry has taken it off the group's marks, and then the event's
   attempts have grown: so the invocations never get ahead of the attempts. *)

PickedEvent == [group : Groups, event : Events, listener : Listeners, invoked : BOOLEAN]

\* The list, the marks and the picked events: of their types, and a group has picked an
\* event only if it is marked, and for one listener.
QueueFine(js, marks, picked) ==
  /\ js \in Seq(Events) /\ marks \in [Groups -> SUBSET Events] /\ picked \subseteq PickedEvent
  /\ \A r \in picked : r.group = GroupOf[r.listener] /\ r.event \in marks[r.group]
  /\ \A r, s \in picked : r.group = s.group /\ r.event = s.event => r = s

ConsumersFine(cs) ==
  /\ cs \in [Groups -> Seq(Listeners)]
  /\ \A g \in Groups : \A i \in 1..Len(cs[g]) : GroupOf[cs[g][i]] = g

\* The proxy keeps a subscription of this group.
Kept(g) == stored[g] \in Listeners /\ GroupOf[stored[g]] = g

\* The retries of an event that a group may have had.
Retried(g, tries, e) == IF \E l \in WorkQueue : GroupOf[l] = g THEN tries[e] ELSE 0

\* A group has invoked one listener more than it had retries, or none more if it has the
\* event still before it.
Limited(told, tries, marks, picked) ==
  \A e \in Events, g \in Groups :
    /\ Len(told[e][g]) <= 1 + Retried(g, tries, e)
    /\ e \notin marks[g] \/ (\E r \in picked : r.group = g /\ r.event = e /\ ~r.invoked) =>
         Len(told[e][g]) <= Retried(g, tries, e)

RegistrationFine ==
  /\ listeners \subseteq subscribed /\ subscribed \subseteq Listeners
  /\ workerGroups \subseteq Groups /\ closing \subseteq Listeners
  /\ cached \in BOOLEAN /\ connected \in BOOLEAN /\ stopped \in BOOLEAN /\ down \in BOOLEAN

ProxyFine ==
  /\ stored \in [Groups -> Listeners \cup {Undefined}]
  /\ \A g \in Groups : stored[g] # Undefined => Kept(g)
  /\ replaying # Undefined => \A g \in replaying : g \in Groups /\ Kept(g)

QueueSideFine ==
  /\ ConsumersFine(consumers) /\ nextConsumer \in [Groups -> Nat]
  /\ QueueFine(listed, taken, runs) /\ Limited(calls, attempts, taken, runs)

TallyFine ==
  /\ attempts \in [Events -> 0..MaxRetries] /\ backoff \subseteq Groups \X Events
  /\ calls \in [Events -> [Groups -> Seq(Listeners)]]

BusInv == RegistrationFine /\ ProxyFine /\ QueueSideFine /\ TallyFine

LEMMA PickFirst ==
  ASSUME NEW js \in Seq(Events), NEW seen, Unpicked(js, seen) # {}
  PROVE  js[Min(Unpicked(js, seen))] \in Events \ seen
<1> DEFINE T == Unpicked(js, seen)
<1>1. Len(js) \in Nat /\ \A i \in 1..Len(js) : js[i] \in Events
  BY ElementOfSeq
<1>2. T \in SUBSET Nat /\ T \subseteq 1..Len(js) /\ \A i \in T : js[i] \notin seen
  BY <1>1 DEF Unpicked
<1>3. \E x \in T : \A y \in T : x <= y
  BY <1>2, LeastNumber
<1>4. Min(T) \in T
  BY <1>3 DEF Min
<1> QED
  BY <1>1, <1>2, <1>4

\* What processNext does to the list, the marks and the picked events.
LEMMA PickKeeps ==
  ASSUME NEW js, NEW marks, NEW current, NEW told, NEW tries, NEW go,
         QueueFine(js, marks, current), Limited(told, tries, marks, current),
         ConsumersFine(consumers'), nextConsumer \in [Groups -> Nat],
         ProcessNextIf(go, js, marks, current)
  PROVE  /\ QueueFine(listed', taken', runs') /\ nextConsumer' \in [Groups -> Nat]
         /\ Limited(told, tries, taken', runs')
<1>1. CASE ~go
  <2>1. listed' = js /\ taken' = marks /\ runs' = current /\ nextConsumer' = nextConsumer
    BY <1>1 DEF ProcessNextIf
  <2> QED
    BY <2>1
<1>2. CASE go
  <2> DEFINE known == {g \in Groups : consumers'[g] # << >>}
             picking == {g \in known : Unpicked(js, marks[g]) # {}}
             pick(g) == js[Min(Unpicked(js, marks[g]))]
             marked == [g \in Groups |-> IF g \in picking THEN marks[g] \cup {pick(g)} ELSE marks[g]]
             turn(g) == consumers'[g][(nextConsumer[g] % Len(consumers'[g])) + 1]
             new(g) == [group |-> g, event |-> pick(g), listener |-> turn(g), invoked |-> FALSE]
             left == {i \in 1..Len(js) : \E g \in known : js[i] \notin marked[g]}
  <2>1. /\ taken' = marked
        /\ listed' = IF known = {} THEN js ELSE Subsequence(js, left)
        /\ nextConsumer' = [g \in Groups |-> nextConsumer[g] + (IF g \in picking THEN 1 ELSE 0)]
        /\ runs' = current \cup {new(g) : g \in picking}
    BY <1>2 DEF ProcessNextIf, ProcessNext
  <2>2. js \in Seq(Events) /\ marks \in [Groups -> SUBSET Events]
    BY DEF QueueFine
  <2>3. \A g \in picking : g \in Groups /\ pick(g) \in Events /\ pick(g) \notin marks[g]
    BY <2>2, PickFirst
  <2>4. \A g \in picking : turn(g) \in Listeners /\ GroupOf[turn(g)] = g
    <3> SUFFICES ASSUME NEW g \in picking PROVE turn(g) \in Listeners /\ GroupOf[turn(g)] = g
      OBVIOUS
    <3> DEFINE cs == consumers'[g]
               i == (nextConsumer[g] % Len(cs)) + 1
    <3>1. g \in Groups /\ cs \in Seq(Listeners) /\ cs # << >> /\ nextConsumer[g] \in Nat
      BY DEF ConsumersFine
    <3>2. \A k \in 1..Len(cs) : cs[k] \in Listeners /\ GroupOf[cs[k]] = g
      BY <3>1, ElementOfSeq DEF ConsumersFine
    <3>3. Len(cs) \in Nat \ {0}
      BY <3>1
    <3> HIDE DEF cs
    <3>4. i \in 1..Len(cs)
      BY <3>1, <3>3
    <3> QED
      BY <3>2, <3>4 DEF cs
  <2> HIDE DEF pick, turn
  <2>5. marked \in [Groups -> SUBSET Events]
    BY <2>2, <2>3
  <2>6. listed' \in Seq(Events)
    <3>1. \A i \in 1..Len(js) : js[i] \in Events
      BY <2>2, ElementOfSeq
    <3>2. Subsequence(js, left) \in Seq({js[i] : i \in left \cap (1..Len(js))})
      BY <2>2, SubsequenceType
    <3> HIDE DEF left, known
    <3>3. {js[i] : i \in left \cap (1..Len(js))} \subseteq Events
      BY <3>1
    <3>4. Subsequence(js, left) \in Seq(Events)
      <4> DEFINE s == Subsequence(js, left)
                 T == {js[i] : i \in left \cap (1..Len(js))}
      <4>1. s \in Seq(T) /\ T \subseteq Events
        BY <3>2, <3>3
      <4> HIDE DEF s, T
      <4>2. \A i \in 1..Len(s) : s[i] \in Events
        BY <4>1, ElementOfSeq
      <4>3. s \in Seq(Events)
        BY <4>1, <4>2
      <4> QED
        BY <4>3 DEF s
    <3> QED
      BY <2>1, <2>2, <3>4
  <2> HIDE DEF known
  <2>7. \A g \in picking : /\ new(g) \in PickedEvent /\ new(g).group = g /\ new(g).event = pick(g)
                           /\ new(g).listener = turn(g) /\ new(g).invoked = FALSE
    BY <2>3, <2>4 DEF PickedEvent
  <2>8. \A r \in current : /\ r \in PickedEvent /\ r.group \in Groups /\ r.group = GroupOf[r.listener]
                           /\ r.event \in marks[r.group] /\ r.event \in marked[r.group]
    BY <2>2 DEF QueueFine, PickedEvent
  <2>9. \A r \in runs' : r \in current \/ \E g \in picking : r = new(g)
    BY <2>1
  <2> HIDE DEF new
  <2>10. \A g \in picking : pick(g) \in marked[g]
    BY <2>3
  <2> HIDE DEF marked, picking
  <2>11. \A r \in runs' : r \in PickedEvent /\ r.group = GroupOf[r.listener] /\ r.event \in marked[r.group]
    BY <2>4, <2>7, <2>8, <2>9, <2>10
  <2>12. ASSUME NEW r \in runs', NEW s \in runs', r.group = s.group, r.event = s.event
         PROVE  r = s
    <3>1. CASE r \in current /\ s \in current
      BY <2>12, <3>1 DEF QueueFine
    <3>2. CASE r \in current /\ s \notin current
      BY <2>3, <2>7, <2>8, <2>9, <2>12, <3>2
    <3>3. CASE r \notin current /\ s \in current
      BY <2>3, <2>7, <2>8, <2>9, <2>12, <3>3
    <3>4. CASE r \notin current /\ s \notin current
      BY <2>7, <2>9, <2>12, <3>4
    <3> QED
      BY <3>1, <3>2, <3>3, <3>4
  <2>13. QueueFine(listed', taken', runs')
    BY <2>1, <2>5, <2>6, <2>11, <2>12 DEF QueueFine
  <2>14. Limited(told, tries, taken', runs')
    <3> SUFFICES ASSUME NEW e \in Events, NEW g \in Groups
                 PROVE  /\ Len(told[e][g]) <= 1 + Retried(g, tries, e)
                        /\ e \notin marked[g] \/ (\E r \in runs' : r.group = g /\ r.event = e /\ ~r.invoked) =>
                             Len(told[e][g]) <= Retried(g, tries, e)
      BY <2>1 DEF Limited
    <3>1. /\ Len(told[e][g]) <= 1 + Retried(g, tries, e)
          /\ e \notin marks[g] \/ (\E r \in current : r.group = g /\ r.event = e /\ ~r.invoked) =>
               Len(told[e][g]) <= Retried(g, tries, e)
      BY DEF Limited
    <3>2. e \notin marked[g] => e \notin marks[g]
      BY DEF marked
    <3>3. ASSUME NEW r \in runs', r.group = g, r.event = e, ~r.invoked, r \notin current
          PROVE  e \notin marks[g]
      BY <2>3, <2>7, <2>9, <3>3
    <3> QED
      BY <3>1, <3>2, <3>3
  <2>15. nextConsumer' \in [Groups -> Nat]
    BY <2>1
  <2> QED
    BY <2>13, <2>14, <2>15
<1> QED
  BY <1>1, <1>2

\* Taking a run out, and putting nothing in its place, loses nothing.
LEMMA RunLeaves ==
  ASSUME NEW told, NEW tries, NEW r,
         QueueFine(listed, taken, runs), Limited(told, tries, taken, runs)
  PROVE  QueueFine(listed, taken, runs \ {r}) /\ Limited(told, tries, taken, runs \ {r})
BY DEF QueueFine, Limited

LEMMA RetriesCounted ==
  ASSUME TallyFine, NEW g, NEW e \in Events
  PROVE  Retried(g, attempts, e) \in Nat /\ Retried(g, attempts, e) <= RetriesOf(g)
BY RetryAssumption DEF TallyFine, Retried, RetriesOf

LEMMA BusInitially == BusInit => BusInv
<1> SUFFICES ASSUME BusInit PROVE BusInv
  OBVIOUS
<1> USE DEF BusInit
<1>1. << >> \in Seq(Events) /\ << >> \in Seq(Listeners) /\ Len(<< >>) = 0
  OBVIOUS
<1>2. QueueFine(listed, taken, runs)
  BY <1>1 DEF QueueFine
<1>3. ConsumersFine(consumers) /\ nextConsumer \in [Groups -> Nat]
  BY <1>1 DEF ConsumersFine
<1>4. attempts \in [Events -> 0..MaxRetries] /\ calls \in [Events -> [Groups -> Seq(Listeners)]]
  BY <1>1, RetryAssumption
<1>5. RegistrationFine /\ ProxyFine /\ TallyFine
  BY <1>4 DEF RegistrationFine, ProxyFine, TallyFine
<1>6. \A e \in Events, g \in Groups : Retried(g, attempts, e) \in Nat
  BY <1>5, RetriesCounted
<1>7. \A e \in Events, g \in Groups : Len(calls[e][g]) = 0
  BY <1>1
<1>8. Limited(calls, attempts, taken, runs)
  <2> SUFFICES ASSUME NEW e \in Events, NEW g \in Groups
               PROVE  Len(calls[e][g]) <= 1 + Retried(g, attempts, e)
                      /\ Len(calls[e][g]) <= Retried(g, attempts, e)
    BY DEF Limited
  <2>1. Len(calls[e][g]) = 0 /\ Retried(g, attempts, e) \in Nat
    BY <1>6, <1>7
  <2> QED
    BY <2>1
<1> QED
  BY <1>2, <1>3, <1>5, <1>8 DEF BusInv, QueueSideFine

\* subscribe, unsubscribe, the proxy and shutdown keep their own state in order.
LEMMA RegistrationKept ==
  ASSUME BusInv, BusNext
  PROVE  RegistrationFine' /\ ProxyFine'
<1>1. RegistrationFine /\ ProxyFine
  BY DEF BusInv
<1> USE <1>1
<1>2. CASE Connect
  BY <1>2 DEF Connect, RegistrationFine, ProxyFine, Kept, registrationVars
<1>3. CASE ReplayEnds
  BY <1>3 DEF ReplayEnds, RegistrationFine, ProxyFine, Kept, registrationVars
<1>4. CASE Shutdown
  BY <1>4 DEF Shutdown, RegistrationFine, ProxyFine, Kept, registrationVars
<1>5. ASSUME NEW g \in Groups, Replay(g) PROVE RegistrationFine' /\ ProxyFine'
  BY <1>5 DEF Replay, RegistrationFine, ProxyFine, Kept, registrationVars
<1>6. ASSUME NEW l \in Listeners, Subscribe(l) PROVE RegistrationFine' /\ ProxyFine'
  <2>1. GroupOf[l] \in Groups
    BY ListenerAssumption
  <2>2. RegistrationFine'
    BY <1>6, <2>1 DEF Subscribe, RegistrationFine
  <2>3. ProxyFine'
    BY <1>6, <2>1 DEF Subscribe, ProxyFine, Kept
  <2> QED
    BY <2>2, <2>3
<1>7. ASSUME NEW l \in Listeners, Unsubscribe(l) \/ UnsubscribeLast(l) \/ ChannelStopped(l)
      PROVE  RegistrationFine' /\ ProxyFine'
  BY <1>7 DEF Unsubscribe, UnsubscribeLast, ChannelStopped, Untrack, RegistrationFine, ProxyFine,
              Kept, registrationVars, proxyVars
<1>8. ASSUME NEW e \in Events, Emit(e) PROVE RegistrationFine' /\ ProxyFine'
  BY <1>8 DEF Emit, RegistrationFine, ProxyFine, Kept, registrationVars, proxyVars
<1>9. ASSUME NEW r \in runs, Invoke(r) \/ NoListener(r) \/ ListenerReturns(r) \/ ListenerThrows(r)
      PROVE  RegistrationFine' /\ ProxyFine'
  <2>1. UNCHANGED <<registrationVars, proxyVars, down>>
    BY <1>9 DEF Invoke, NoListener, ListenerReturns, ListenerThrows, Leave
  <2> QED
    BY <2>1 DEF RegistrationFine, ProxyFine, Kept, registrationVars, proxyVars
<1>10. ASSUME NEW b \in backoff, RetryTimer(b) PROVE RegistrationFine' /\ ProxyFine'
  BY <1>10 DEF RetryTimer, RegistrationFine, ProxyFine, Kept, registrationVars, proxyVars
<1> QED
  BY <1>2, <1>3, <1>4, <1>5, <1>6, <1>7, <1>8, <1>9, <1>10 DEF BusNext

\* The queue after a step that leaves the tallies alone and may call processNext.
LEMMA QueueKept ==
  ASSUME BusInv, NEW js, NEW current, NEW go, ConsumersFine(consumers'),
         QueueFine(js, taken, current), Limited(calls, attempts, taken, current),
         ProcessNextIf(go, js, taken, current), UNCHANGED <<calls, attempts>>
  PROVE  QueueSideFine'
<1>1. nextConsumer \in [Groups -> Nat]
  BY DEF BusInv, QueueSideFine
<1>2. /\ QueueFine(listed', taken', runs') /\ nextConsumer' \in [Groups -> Nat]
      /\ Limited(calls, attempts, taken', runs')
  BY <1>1, PickKeeps
<1>3. calls' = calls /\ attempts' = attempts
  OBVIOUS
<1> QED
  BY <1>2, <1>3 DEF QueueSideFine

LEMMA ConsumerAdded ==
  ASSUME BusInv, NEW g \in Groups, NEW l \in Listeners, GroupOf[l] = g,
         consumers' = [consumers EXCEPT ![g] = Append(@, l)]
  PROVE  ConsumersFine(consumers')
<1>1. consumers \in [Groups -> Seq(Listeners)]
      /\ \A h \in Groups : \A i \in 1..Len(consumers[h]) : GroupOf[consumers[h][i]] = h
  BY DEF BusInv, QueueSideFine, ConsumersFine
<1>2. consumers' \in [Groups -> Seq(Listeners)]
  BY <1>1
<1>3. ASSUME NEW h \in Groups, NEW i \in 1..Len(consumers'[h]) PROVE GroupOf[consumers'[h][i]] = h
  <2>1. CASE h # g
    BY <1>1, <1>3, <2>1
  <2>2. CASE h = g
    <3>1. consumers'[h] = Append(consumers[g], l) /\ consumers[g] \in Seq(Listeners)
      BY <1>1, <2>2
    <3>2. i \in 1..Len(consumers[g]) \/ (i = Len(consumers[g]) + 1)
      BY <3>1
    <3> QED
      BY <1>1, <2>2, <3>1, <3>2
  <2> QED
    BY <2>1, <2>2
<1> QED
  BY <1>2, <1>3 DEF ConsumersFine

\* No step makes a group be invoked more often than its retries allow.
LEMMA DeliveryKept ==
  ASSUME BusInv, BusNext
  PROVE  QueueSideFine' /\ TallyFine'
<1>1. RegistrationFine /\ ProxyFine /\ QueueSideFine /\ TallyFine
  BY DEF BusInv
<1>2. /\ ConsumersFine(consumers) /\ QueueFine(listed, taken, runs)
      /\ Limited(calls, attempts, taken, runs) /\ nextConsumer \in [Groups -> Nat]
  BY <1>1 DEF QueueSideFine
<1>3. ASSUME UNCHANGED <<attempts, calls>>, backoff' \subseteq backoff PROVE TallyFine'
  BY <1>1, <1>3 DEF TallyFine
<1>4. ASSUME UNCHANGED <<consumers, pickVars, attempts, backoff, calls>> PROVE QueueSideFine' /\ TallyFine'
  <2>1. QueueSideFine'
    BY <1>1, <1>4 DEF QueueSideFine, pickVars
  <2> QED
    BY <1>3, <1>4, <2>1
<1>5. CASE Connect \/ ReplayEnds \/ Shutdown
  BY <1>4, <1>5 DEF Connect, ReplayEnds, Shutdown, eventVars
<1>6. ASSUME NEW g \in Groups, Replay(g) PROVE QueueSideFine' /\ TallyFine'
  <2>1. Kept(g)
    BY <1>1, <1>6 DEF Replay, ProxyFine
  <2>2. UNCHANGED <<attempts, backoff, calls>> /\ ProcessNextIf(~stopped, listed, taken, runs)
    BY <1>6 DEF Replay, eventVars
  <2>3. ConsumersFine(consumers')
    BY <1>6, <2>1, ConsumerAdded DEF Replay, Kept
  <2> QED
    BY <1>2, <1>3, <2>2, <2>3, QueueKept
<1>7. ASSUME NEW l \in Listeners, Subscribe(l) PROVE QueueSideFine' /\ TallyFine'
  <2>1. /\ UNCHANGED <<attempts, backoff, calls>> /\ ProcessNextIf(ChannelOpen, listed, taken, runs)
        /\ consumers' = IF ChannelOpen THEN [consumers EXCEPT ![GroupOf[l]] = Append(@, l)] ELSE consumers
    BY <1>7 DEF Subscribe, eventVars
  <2>2. GroupOf[l] \in Groups
    BY ListenerAssumption
  <2>3. ConsumersFine(consumers')
    <3>1. CASE ChannelOpen
      BY <2>1, <2>2, <3>1, ConsumerAdded
    <3>2. CASE ~ChannelOpen
      BY <1>2, <2>1, <3>2
    <3> QED
      BY <3>1, <3>2
  <2> QED
    BY <1>2, <1>3, <2>1, <2>3, QueueKept
<1>8. ASSUME NEW l \in Listeners, Unsubscribe(l) \/ UnsubscribeLast(l) \/ ChannelStopped(l)
      PROVE  QueueSideFine' /\ TallyFine'
  BY <1>4, <1>8 DEF Unsubscribe, UnsubscribeLast, ChannelStopped, eventVars
<1>9. ASSUME NEW e \in Events, Emit(e) PROVE QueueSideFine' /\ TallyFine'
  <2>1. UNCHANGED <<attempts, backoff, calls>>
    BY <1>9 DEF Emit
  <2>2. CASE ChannelOpen
    <3>1. consumers' = consumers /\ ProcessNextIf(TRUE, Append(listed, e), taken, runs)
      BY <1>9, <2>2 DEF Emit, ProcessNextIf
    <3>2. QueueFine(Append(listed, e), taken, runs)
      BY <1>2 DEF QueueFine
    <3>3. ConsumersFine(consumers')
      BY <1>2, <3>1
    <3> QED
      BY <1>2, <1>3, <2>1, <3>1, <3>2, <3>3, QueueKept
  <2>3. CASE ~ChannelOpen
    BY <1>4, <1>9, <2>1, <2>3 DEF Emit
  <2> QED
    BY <2>2, <2>3
<1>10. ASSUME NEW b \in backoff, RetryTimer(b) PROVE QueueSideFine' /\ TallyFine'
  <2>1. /\ UNCHANGED <<consumers, attempts, calls>> /\ backoff' \subseteq backoff
        /\ ProcessNextIf(~stopped, listed, taken, runs)
    BY <1>10 DEF RetryTimer, eventVars
  <2>2. ConsumersFine(consumers')
    BY <1>2, <2>1
  <2> QED
    BY <1>2, <1>3, <2>1, <2>2, QueueKept
<1>11. ASSUME NEW r \in runs, Invoke(r) PROVE QueueSideFine' /\ TallyFine'
  <2> DEFINE s == [r EXCEPT !.invoked = TRUE]
  <2>1. /\ ~r.invoked /\ runs' = (runs \ {r}) \cup {s}
        /\ calls' = [calls EXCEPT ![r.event][r.group] = Append(@, r.listener)]
        /\ UNCHANGED <<consumers, listed, taken, nextConsumer, attempts, backoff>>
    BY <1>11 DEF Invoke
  <2>2. r \in PickedEvent /\ r.group = GroupOf[r.listener] /\ r.event \in taken[r.group]
    BY <1>2 DEF QueueFine
  <2>3. /\ s \in PickedEvent /\ s.group = r.group /\ s.event = r.event
        /\ s.listener = r.listener /\ s.invoked = TRUE
    BY <2>2 DEF PickedEvent
  <2> HIDE DEF s
  <2>4. QueueFine(listed', taken', runs')
    <3>1. \A t \in runs' : t = s \/ (t \in runs /\ t # r)
      BY <2>1
    <3>2. runs' \subseteq PickedEvent
      BY <1>2, <2>3, <3>1 DEF QueueFine
    <3>3. \A t \in runs' : t.group = GroupOf[t.listener] /\ t.event \in taken[t.group]
      BY <1>2, <2>2, <2>3, <3>1 DEF QueueFine
    <3>4. \A t, u \in runs' : t.group = u.group /\ t.event = u.event => t = u
      BY <1>2, <2>3, <3>1 DEF QueueFine
    <3>5. listed' = listed /\ taken' = taken
      BY <2>1
    <3> QED
      BY <1>2, <3>2, <3>3, <3>4, <3>5 DEF QueueFine
  <2>5. r.event \in Events /\ r.group \in Groups /\ r.listener \in Listeners
    BY <2>2 DEF PickedEvent
  <2>6. calls \in [Events -> [Groups -> Seq(Listeners)]]
    BY <1>1 DEF TallyFine
  <2>7. calls' \in [Events -> [Groups -> Seq(Listeners)]]
    BY <2>1, <2>5, <2>6
  <2>8. \A e \in Events, g \in Groups :
          calls'[e][g] = IF e = r.event /\ g = r.group THEN Append(calls[e][g], r.listener)
                         ELSE calls[e][g]
    BY <2>1, <2>5, <2>6
  <2>9. Limited(calls', attempts', taken', runs')
    <3> SUFFICES ASSUME NEW e \in Events, NEW g \in Groups
                 PROVE  /\ Len(calls'[e][g]) <= 1 + Retried(g, attempts, e)
                        /\ e \notin taken[g] \/ (\E t \in runs' : t.group = g /\ t.event = e /\ ~t.invoked) =>
                             Len(calls'[e][g]) <= Retried(g, attempts, e)
      BY <2>1 DEF Limited
    <3>1. /\ Len(calls[e][g]) <= 1 + Retried(g, attempts, e)
          /\ e \notin taken[g] \/ (\E t \in runs : t.group = g /\ t.event = e /\ ~t.invoked) =>
               Len(calls[e][g]) <= Retried(g, attempts, e)
      BY <1>2 DEF Limited
    <3>2. \A t \in runs' : t = s \/ t \in runs
      BY <2>1
    <3>3. CASE e = r.event /\ g = r.group
      <4>1. Len(calls[e][g]) <= Retried(g, attempts, e)
        BY <2>1, <3>1, <3>3
      <4>2. Len(calls'[e][g]) = Len(calls[e][g]) + 1 /\ Len(calls[e][g]) \in Nat
        <5>1. calls[e][g] \in Seq(Listeners)
          BY <2>6
        <5>2. calls'[e][g] = Append(calls[e][g], r.listener)
          BY <2>8, <3>3
        <5> QED
          BY <2>5, <5>1, <5>2
      <4>3. Retried(g, attempts, e) \in Nat
        BY RetriesCounted DEF BusInv
      <4>4. e \in taken[g] /\ ~\E t \in runs' : t.group = g /\ t.event = e /\ ~t.invoked
        BY <1>2, <2>1, <2>2, <2>3, <3>3 DEF QueueFine
      <4> QED
        BY <4>1, <4>2, <4>3, <4>4
    <3>4. CASE ~(e = r.event /\ g = r.group)
      BY <2>3, <2>8, <3>1, <3>2, <3>4
    <3> QED
      BY <3>3, <3>4
  <2>10. QueueSideFine'
    BY <1>2, <2>1, <2>4, <2>9 DEF QueueSideFine
  <2>11. TallyFine'
    BY <1>1, <2>1, <2>7 DEF TallyFine
  <2> QED
    BY <2>10, <2>11
<1>12. ASSUME NEW r \in runs, NoListener(r) \/ ListenerReturns(r) PROVE QueueSideFine' /\ TallyFine'
  <2>1. /\ UNCHANGED <<consumers, attempts, backoff, calls>>
        /\ ProcessNextIf(listed # << >> /\ ~stopped, listed, taken, runs \ {r})
    BY <1>12 DEF NoListener, ListenerReturns, Leave
  <2>2. QueueFine(listed, taken, runs \ {r}) /\ Limited(calls, attempts, taken, runs \ {r})
    BY <1>2, RunLeaves
  <2>3. ConsumersFine(consumers')
    BY <1>2, <2>1
  <2> QED
    BY <1>3, <2>1, <2>2, <2>3, QueueKept
<1>13. ASSUME NEW r \in runs, ListenerThrows(r) PROVE QueueSideFine' /\ TallyFine'
  <2>1. r \in PickedEvent /\ r.group = GroupOf[r.listener] /\ r.event \in taken[r.group]
    BY <1>2 DEF QueueFine
  <2>2. r.event \in Events /\ r.group \in Groups /\ r.listener \in Listeners
    BY <2>1 DEF PickedEvent
  <2>3. QueueFine(listed, taken, runs \ {r}) /\ Limited(calls, attempts, taken, runs \ {r})
    BY <1>2, RunLeaves
  <2>4. ConsumersFine(consumers')
    BY <1>2, <1>13 DEF ListenerThrows, Leave
  <2>5. CASE ~(attempts[r.event] < Retries(r.listener))
    <3>1. /\ UNCHANGED <<attempts, backoff, calls>>
          /\ ProcessNextIf(listed # << >> /\ ~stopped, listed, taken, runs \ {r})
      BY <1>13, <2>5 DEF ListenerThrows, Leave
    <3> QED
      BY <1>3, <2>3, <2>4, <3>1, QueueKept
  <2>6. CASE attempts[r.event] < Retries(r.listener)
    <3> DEFINE marks == [taken EXCEPT ![r.group] = @ \ {r.event}]
    <3>1. /\ attempts' = [attempts EXCEPT ![r.event] = @ + 1] /\ calls' = calls
          /\ backoff' = backoff \cup {<<r.group, r.event>>}
          /\ ProcessNextIf(FALSE, Append(listed, r.event), marks, runs \ {r})
      BY <1>13, <2>6 DEF ListenerThrows, Leave
    <3>2. attempts \in [Events -> 0..MaxRetries] /\ taken \in [Groups -> SUBSET Events]
          /\ listed \in Seq(Events)
      BY <1>1, <1>2 DEF TallyFine, QueueFine
    <3>3. r.listener \in WorkQueue /\ attempts[r.event] < MaxRetries
      BY <2>2, <2>6, <3>2, RetryAssumption DEF Retries
    <3>4. attempts' \in [Events -> 0..MaxRetries]
          /\ \A e \in Events : attempts'[e] = IF e = r.event THEN attempts[e] + 1 ELSE attempts[e]
      BY <2>2, <3>1, <3>2, <3>3, RetryAssumption
    <3>5. marks \in [Groups -> SUBSET Events]
          /\ \A g \in Groups : marks[g] = IF g = r.group THEN taken[g] \ {r.event} ELSE taken[g]
      BY <2>2, <3>2
    <3> HIDE DEF marks
    <3>6. QueueFine(Append(listed, r.event), marks, runs \ {r})
      <4>1. \A t \in runs \ {r} : t.event \in marks[t.group]
        <5> SUFFICES ASSUME NEW t \in runs, t # r PROVE t.event \in marks[t.group]
          OBVIOUS
        <5>1. t.event \in taken[t.group] /\ t.group \in Groups
              /\ ~(t.group = r.group /\ t.event = r.event)
          BY <1>2 DEF QueueFine, PickedEvent
        <5> QED
          BY <3>5, <5>1
      <4>2. Append(listed, r.event) \in Seq(Events)
        BY <2>2, <3>2
      <4> QED
        BY <2>3, <3>5, <4>1, <4>2 DEF QueueFine
    <3>7. Limited(calls, attempts', marks, runs \ {r})
      <4> SUFFICES ASSUME NEW e \in Events, NEW g \in Groups
                   PROVE  /\ Len(calls[e][g]) <= 1 + Retried(g, attempts', e)
                          /\ e \notin marks[g]
                             \/ (\E t \in runs \ {r} : t.group = g /\ t.event = e /\ ~t.invoked) =>
                               Len(calls[e][g]) <= Retried(g, attempts', e)
        BY DEF Limited
      <4>1. /\ Len(calls[e][g]) <= 1 + Retried(g, attempts, e)
            /\ e \notin taken[g] \/ (\E t \in runs \ {r} : t.group = g /\ t.event = e /\ ~t.invoked) =>
                 Len(calls[e][g]) <= Retried(g, attempts, e)
        BY <2>3 DEF Limited
      <4>2. Len(calls[e][g]) \in Nat
        BY <1>1 DEF TallyFine
      <4>3. Retried(g, attempts, e) \in Nat /\ Retried(g, attempts', e) \in Nat
            /\ Retried(g, attempts, e) <= Retried(g, attempts', e)
        BY <3>2, <3>4 DEF Retried
      <4>4. CASE e = r.event /\ g = r.group
        <5>1. Retried(g, attempts', e) = Retried(g, attempts, e) + 1
          BY <2>1, <3>3, <3>4, <4>4 DEF Retried
        <5> QED
          BY <4>1, <4>2, <4>3, <5>1
      <4>5. CASE ~(e = r.event /\ g = r.group)
        BY <3>5, <4>1, <4>2, <4>3, <4>5
      <4> QED
        BY <4>4, <4>5
    <3>8. /\ QueueFine(listed', taken', runs') /\ nextConsumer' \in [Groups -> Nat]
          /\ Limited(calls, attempts', taken', runs')
      BY <1>2, <2>4, <3>1, <3>6, <3>7, PickKeeps
    <3>9. QueueSideFine'
      BY <2>4, <3>1, <3>8 DEF QueueSideFine
    <3>10. TallyFine'
      BY <1>1, <2>2, <3>1, <3>4 DEF TallyFine
    <3> QED
      BY <3>9, <3>10
  <2> QED
    BY <2>5, <2>6
<1> QED
  BY <1>5, <1>6, <1>7, <1>8, <1>9, <1>10, <1>11, <1>12, <1>13 DEF BusNext

LEMMA BusStep == BusInv /\ [BusNext]_busVars => BusInv'
<1> SUFFICES ASSUME BusInv, [BusNext]_busVars PROVE BusInv'
  OBVIOUS
<1>1. CASE BusNext
  BY <1>1, RegistrationKept, DeliveryKept DEF BusInv
<1>2. CASE UNCHANGED busVars
  BY <1>2 DEF BusInv, RegistrationFine, ProxyFine, QueueSideFine, TallyFine, Kept, busVars, registrationVars, proxyVars, pickVars, eventVars
<1> QED
  BY <1>1, <1>2

\* The bus is never in an ill-formed state (subscribe, unsubscribe, emit and shutdown of
\* event-bus.ts over the proxy and the in-memory queue), and a consumer is registered in
\* its own group.
THEOREM BusTypesCorrect == BusSpec => []BusTypeOK
<1>1. BusInv => BusTypeOK
  <2> SUFFICES ASSUME BusInv PROVE BusTypeOK
    OBVIOUS
  <2>1. RegistrationFine /\ QueueSideFine /\ TallyFine
    BY DEF BusInv
  <2>2. \A g \in Groups : \A i \in 1..Len(consumers[g]) : GroupOf[consumers[g][i]] = g
    BY <2>1 DEF QueueSideFine, ConsumersFine
  <2>3. /\ listed \in Seq(Events) /\ taken \in [Groups -> SUBSET Events]
        /\ \A r \in runs : r.listener \in Listeners /\ r.group = GroupOf[r.listener]
    BY <2>1 DEF QueueSideFine, QueueFine, PickedEvent
  <2> QED
    BY <2>1, <2>2, <2>3 DEF RegistrationFine, TallyFine, BusTypeOK
<1> QED
  BY BusInitially, BusStep, <1>1, PTL DEF BusSpec

\* A group's listeners are invoked for an event once and once more for each retry the
\* group may have, whatever the other groups do with the list they share (pendingMessages
\* and processedBy of memory-queue.ts), and only while they are registered (the lookup by
\* id in the consumer of event-bus.ts).
THEOREM HandledOncePerGroupCorrect == BusSpec => HandledOncePerGroup
<1> DEFINE Handled == \A e \in Events, g \in Groups : calls'[e][g] # calls[e][g] =>
             /\ Len(calls'[e][g]) <= 1 + RetriesOf(g)
             /\ calls'[e][g][Len(calls'[e][g])] \in listeners
<1>1. BusInv /\ [BusNext]_busVars => [Handled]_busVars
  <2> SUFFICES ASSUME BusInv, [BusNext]_busVars, NEW e \in Events, NEW g \in Groups,
                      calls'[e][g] # calls[e][g]
               PROVE  /\ Len(calls'[e][g]) <= 1 + RetriesOf(g)
                      /\ calls'[e][g][Len(calls'[e][g])] \in listeners
    OBVIOUS
  <2>1. BusInv'
    BY BusStep
  <2>2. PICK r \in runs : Invoke(r)
    BY DEF BusNext, busVars, registrationVars, proxyVars, pickVars, eventVars, Connect, ReplayEnds,
           Shutdown, Replay, Subscribe, Unsubscribe, UnsubscribeLast, ChannelStopped, Emit, NoListener,
           ListenerReturns, ListenerThrows, RetryTimer
  <2>3. Len(calls'[e][g]) <= 1 + RetriesOf(g)
    <3>1. Len(calls'[e][g]) <= 1 + Retried(g, attempts', e) /\ Len(calls'[e][g]) \in Nat
      BY <2>1 DEF BusInv, QueueSideFine, TallyFine, Limited
    <3>2. attempts' = attempts
      BY <2>2 DEF Invoke
    <3>3. Retried(g, attempts, e) \in Nat /\ Retried(g, attempts, e) <= RetriesOf(g)
      BY RetriesCounted DEF BusInv
    <3>4. RetriesOf(g) \in Nat
      BY RetryAssumption DEF RetriesOf
    <3> QED
      BY <3>1, <3>2, <3>3, <3>4
  <2>4. r.event \in Events /\ r.group \in Groups /\ r.listener \in listeners
        /\ calls' = [calls EXCEPT ![r.event][r.group] = Append(@, r.listener)]
    BY <2>2 DEF Invoke, BusInv, QueueSideFine, QueueFine, PickedEvent
  <2>5. calls \in [Events -> [Groups -> Seq(Listeners)]]
    BY DEF BusInv, TallyFine
  <2>6. calls'[e][g] = Append(calls[e][g], r.listener)
    BY <2>4, <2>5
  <2>7. calls[e][g] \in Seq(Listeners)
    BY <2>5
  <2>8. calls'[e][g][Len(calls'[e][g])] = r.listener
    BY <2>6, <2>7
  <2> QED
    BY <2>3, <2>4, <2>8
<1>2. BusSpec => [][Handled]_busVars
  BY BusInitially, BusStep, <1>1, PTL DEF BusSpec
<1> QED
  BY <1>2 DEF HandledOncePerGroup
=============================================================================
