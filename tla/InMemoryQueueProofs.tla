------------------------ MODULE InMemoryQueueProofs ------------------------
(***************************************************************************)
(* Theorems about InMemoryQueue, for any jobs, groups and configuration,   *)
(* and that it implements GroupDelivery.                                   *)
(***************************************************************************)
EXTENDS InMemoryQueueHistory, SubsequenceFacts, SequenceTheorems, FiniteSetTheorems

LEMMA MinType ==
  ASSUME NEW T, T \in SUBSET Nat, T # {}
  PROVE  Min(T) \in T
BY LeastNumber DEF Min

LEMMA SubSeqType ==
  ASSUME NEW S, NEW s \in Seq(S), NEW m \in Nat \ {0}, NEW n \in Int, n <= Len(s)
  PROVE  /\ SubSeq(s, m, n) \in Seq(S)
         /\ Len(SubSeq(s, m, n)) = IF m <= n THEN n - m + 1 ELSE 0
<1>1. \A i \in m..n : s[i] \in S
  OBVIOUS
<1> QED
  BY <1>1, SubSeqProperties

LEMMA InsertType ==
  ASSUME NEW js \in Seq(Jobs), NEW j \in Jobs
  PROVE  Insert(js, j) \in Seq(Jobs)
<1> DEFINE lower == {i \in 1..Len(js) : Prio[js[i]] < Prio[j]}
<1>1. CASE lower = {}
  BY <1>1 DEF Insert
<1>2. CASE lower # {}
  <2> DEFINE n == Min(lower)
  <2>1. n \in 1..Len(js)
    <3>1. lower \in SUBSET Nat
      OBVIOUS
    <3>2. Min(lower) \in lower
      BY <3>1, <1>2, MinType
    <3> QED
      BY <3>2
  <2>2. Insert(js, j) = SubSeq(js, 1, n - 1) \o <<j>> \o SubSeq(js, n, Len(js))
    BY <1>2 DEF Insert, InsertAt
  <2> HIDE DEF n
  <2>3. SubSeq(js, 1, n - 1) \in Seq(Jobs)
    BY <2>1, SubSeqType
  <2>4. SubSeq(js, n, Len(js)) \in Seq(Jobs)
    BY <2>1, SubSeqType
  <2> QED
    BY <2>2, <2>3, <2>4
<1> QED
  BY <1>1, <1>2

\* Positions kept from a list of jobs leave a list of jobs.
LEMMA FilterType ==
  ASSUME NEW js \in Seq(Jobs), NEW positions
  PROVE  Subsequence(js, positions) \in Seq(Jobs)
<1> DEFINE kept == {js[i] : i \in positions \cap (1..Len(js))}
<1>1. Subsequence(js, positions) \in Seq(kept)
  BY SubsequenceType
<1>2. kept \subseteq Jobs
  OBVIOUS
<1> HIDE DEF kept
<1> QED
  BY <1>1, <1>2

-----------------------------------------------------------------------------
(* processNext *)

\* Semaphore.acquire by a list of runs keeps every permit accounted for.
LEMMA AcquireEffect ==
  ASSUME NEW starts \in Seq(Run), NEW free \in Nat,
         NEW parked \in Seq(Run), NEW resolved \in Seq(Run),
         Acquire(starts, free, parked, resolved)
  PROVE  /\ permits' \in Nat /\ waiting' \in Seq(Run) /\ granted' \in Seq(Run)
         /\ permits' + Len(granted') = free + Len(resolved)
         /\ (free > 0 => parked = << >>) => (permits' > 0 => waiting' = << >>)
<1> DEFINE n == IF Len(starts) <= free THEN Len(starts) ELSE free
<1>1. n \in Nat /\ n <= Len(starts) /\ n <= free
  OBVIOUS
<1>2. permits' = free - n
  BY DEF Acquire
<1>3. granted' = resolved \o SubSeq(starts, 1, n)
  BY DEF Acquire
<1>4. waiting' = parked \o SubSeq(starts, n + 1, Len(starts))
  BY DEF Acquire
<1>5. free > n => n = Len(starts)
  OBVIOUS
<1> HIDE DEF n
<1>6. SubSeq(starts, 1, n) \in Seq(Run) /\ Len(SubSeq(starts, 1, n)) = n
  BY <1>1, SubSeqType
<1>7. SubSeq(starts, n + 1, Len(starts)) \in Seq(Run)
  BY <1>1, SubSeqType
<1>8. permits' > 0 => SubSeq(starts, n + 1, Len(starts)) = << >>
  <2> SUFFICES ASSUME permits' > 0
               PROVE  SubSeq(starts, n + 1, Len(starts)) = << >>
    OBVIOUS
  <2>1. Len(starts) < n + 1
    BY <1>1, <1>2, <1>5
  <2> QED
    BY <2>1, <1>1, SubSeqEmpty
<1>9. Len(granted') = Len(resolved) + n
  BY <1>3, <1>6
<1>10. permits' \in Nat /\ waiting' \in Seq(Run) /\ granted' \in Seq(Run)
  BY <1>1, <1>2, <1>3, <1>4, <1>6, <1>7
<1>11. permits' + Len(granted') = free + Len(resolved)
  BY <1>1, <1>2, <1>9
<1>12. (free > 0 => parked = << >>) => (permits' > 0 => waiting' = << >>)
  BY <1>1, <1>2, <1>4, <1>8
<1> QED
  BY <1>10, <1>11, <1>12

\* processNext starts runs of listed jobs in groups that have a consumer.
LEMMA NewRunsType ==
  ASSUME NEW js \in Seq(Jobs), NEW marks \in [Groups -> SUBSET Ids],
         RegistryTypes', nextConsumer \in [Groups -> Nat]
  PROVE  /\ NewRuns(js, marks) \in Seq(Run)
         /\ \A g \in ToSet(Turn(js, marks)) : g \in Groups /\ FirstCandidate(js, marks[g]) \in Jobs
<1> DEFINE ready == {k \in 1..Len(groups') : Candidates(js, marks[groups'[k]]) # {}}
           turn == Turn(js, marks)
           starting == {groups'[k] : k \in ready \cap (1..Len(groups'))}
<1>1. turn \in Seq(starting)
  BY SubsequenceType DEF Turn, RegistryTypes
<1>2. \A g \in starting : /\ g \in Groups
                           /\ Candidates(js, marks[g]) # {}
                           /\ consumers'[g] \in Seq(RetryLimits) /\ consumers'[g] # << >>
  <2> SUFFICES ASSUME NEW k \in 1..Len(groups'), Candidates(js, marks[groups'[k]]) # {}
               PROVE  /\ groups'[k] \in Groups
                      /\ consumers'[groups'[k]] \in Seq(RetryLimits)
                      /\ consumers'[groups'[k]] # << >>
    OBVIOUS
  <2>1. groups' \in Seq(Groups) /\ consumers' \in [Groups -> Seq(RetryLimits)]
    BY DEF RegistryTypes
  <2>2. groups'[k] \in Groups
    BY <2>1
  <2> QED
    BY <2>1, <2>2 DEF RegistryTypes
<1> HIDE DEF starting, turn
<1>3. \A g \in starting : FirstCandidate(js, marks[g]) \in Jobs
  <2> SUFFICES ASSUME NEW g \in starting
               PROVE  FirstCandidate(js, marks[g]) \in Jobs
    OBVIOUS
  <2> DEFINE found == Candidates(js, marks[g])
  <2>1. found \in SUBSET Nat /\ found \subseteq 1..Len(js)
    BY DEF Candidates
  <2>2. found # {}
    BY <1>2
  <2> HIDE DEF found
  <2>3. Min(found) \in 1..Len(js)
    BY <2>1, <2>2, MinType
  <2> QED
    BY <2>3 DEF FirstCandidate, found
<1>4. \A g \in starting : NewRun(js, marks, g) \in Run
  <2> SUFFICES ASSUME NEW g \in starting
               PROVE  NewRun(js, marks, g) \in Run
    OBVIOUS
  <2> DEFINE n == nextConsumer[g] % Len(consumers'[g])
  <2>1. Len(consumers'[g]) \in Nat \ {0}
    BY <1>2
  <2>2. nextConsumer[g] \in Nat
    BY <1>2
  <2>3. n + 1 \in 1..Len(consumers'[g])
    BY <2>1, <2>2
  <2> HIDE DEF n
  <2>4. consumers'[g][n + 1] \in RetryLimits
    BY <1>2, <2>3
  <2> QED
    BY <1>2, <1>3, <2>2, <2>4 DEF NewRun, Run, n
<1>5. \A k \in 1..Len(turn) : turn[k] \in starting
  BY <1>1
<1>6. NewRuns(js, marks) \in Seq(Run)
  <2>1. NewRuns(js, marks) = [k \in 1..Len(turn) |-> NewRun(js, marks, turn[k])]
    BY DEF NewRuns, turn
  <2>2. Len(turn) \in Nat
    BY <1>1
  <2> QED
    BY <2>1, <2>2, <1>4, <1>5
<1>7. ToSet(turn) \subseteq starting
  BY <1>1, <1>5 DEF ToSet
<1> QED
  BY <1>2, <1>3, <1>6, <1>7 DEF turn

\* A call of processNext, or its omission, keeps the types and the permits.
LEMMA PickEffect ==
  ASSUME NEW js \in Seq(Jobs), NEW marks \in [Groups -> SUBSET Ids], NEW free \in Nat,
         NEW parked \in Seq(Run), NEW resolved \in Seq(Run),
         RegistryTypes', nextConsumer \in [Groups -> Nat],
         \/ ProcessNext(js, marks, free, parked, resolved)
         \/ LeaveQueue(js, marks, free, parked, resolved)
  PROVE  /\ PickTypes'
         /\ permits' + Len(granted') = free + Len(resolved)
         /\ (free > 0 => parked = << >>) => (permits' > 0 => waiting' = << >>)
<1>1. CASE LeaveQueue(js, marks, free, parked, resolved)
  BY <1>1 DEF LeaveQueue, PickTypes
<1>2. CASE ProcessNext(js, marks, free, parked, resolved)
  <2> DEFINE starting == ToSet(Turn(js, marks))
             marked == [g \in Groups |->
                          IF g \in starting
                          THEN marks[g] \cup {IdOf[FirstCandidate(js, marks[g])]}
                          ELSE marks[g]]
  <2>1. /\ jobs' = Subsequence(js, Unfinished(js, marked))
        /\ processed' = marked
        /\ nextConsumer' = [g \in Groups |-> nextConsumer[g] + (IF g \in starting THEN 1 ELSE 0)]
        /\ Acquire(NewRuns(js, marks), free, parked, resolved)
    BY <1>2 DEF ProcessNext
  <2>2. NewRuns(js, marks) \in Seq(Run)
    BY NewRunsType
  <2>3. \A g \in starting : FirstCandidate(js, marks[g]) \in Jobs
    BY NewRunsType
  <2>4. marked \in [Groups -> SUBSET Ids]
    BY <2>3, JobAssumption
  <2> HIDE DEF starting, marked
  <2>5. jobs' \in Seq(Jobs)
    BY <2>1, FilterType
  <2>6. nextConsumer' \in [Groups -> Nat]
    BY <2>1
  <2>7. /\ permits' \in Nat /\ waiting' \in Seq(Run) /\ granted' \in Seq(Run)
        /\ permits' + Len(granted') = free + Len(resolved)
        /\ (free > 0 => parked = << >>) => (permits' > 0 => waiting' = << >>)
    BY <2>1, <2>2, AcquireEffect
  <2> QED
    BY <2>1, <2>4, <2>5, <2>6, <2>7 DEF PickTypes
<1> QED
  BY <1>1, <1>2

\* What an action that ends no run does to the semaphore.
SemaphoreKept ==
  /\ permits' + Len(granted') = permits + Len(granted)
  /\ (permits > 0 => waiting = << >>) => (permits' > 0 => waiting' = << >>)

LEMMA EnqueueEffect ==
  ASSUME TypeOK, RegistryTypes', NEW js \in Seq(Jobs), NEW marks \in [Groups -> SUBSET Ids],
         NEW j \in Jobs, EnqueueOn(js, marks, j)
  PROVE  PickTypes' /\ accepted' \subseteq Jobs /\ startTimers' \subseteq Jobs /\ SemaphoreKept
<1> DEFINE accepts == /\ Len(js) < MaxQueueSize
                      /\ \A i \in 1..Len(js) : IdOf[js[i]] # IdOf[j]
           list == IF accepts THEN Insert(js, j) ELSE js
<1>1. list \in Seq(Jobs)
  BY InsertType
<1>2. \/ ProcessNext(list, marks, permits, waiting, granted)
      \/ LeaveQueue(list, marks, permits, waiting, granted)
  BY DEF EnqueueOn, ProcessNextIf
<1>3. accepted' \subseteq Jobs /\ startTimers' \subseteq Jobs
  BY DEF EnqueueOn, TypeOK
<1> HIDE DEF list
<1>4. PickTypes' /\ SemaphoreKept
  BY <1>1, <1>2, PickEffect DEF TypeOK, PickTypes, SemaphoreKept
<1> QED
  BY <1>3, <1>4

LEMMA PurgeType ==
  ASSUME TypeOK, NEW r \in Recurring
  PROVE  /\ WithoutInstances(r) \in Seq(Jobs)
         /\ MarksWithoutInstances(r) \in [Groups -> SUBSET Ids]
BY FilterType DEF WithoutInstances, MarksWithoutInstances, TypeOK, PickTypes

\* The finally block of processJob moves a permit from the ended run to a parked
\* one or back to the semaphore.
LEMMA FinishEffect ==
  ASSUME TypeOK, RegistryTypes', NEW r \in running, NEW again,
         NEW js \in Seq(Jobs), NEW marks \in [Groups -> SUBSET Ids],
         Finish(r, again, js, marks)
  PROVE  /\ PickTypes' /\ running' \subseteq Run /\ processing' = processing - 1
         /\ permits' + Len(granted') = permits + Len(granted) + 1
         /\ (permits > 0 => waiting = << >>) => (permits' > 0 => waiting' = << >>)
<1>1. running' \subseteq Run /\ processing' = processing - 1
  BY DEF Finish, TypeOK
<1>2. CASE waiting = << >>
  <2>1. \/ ProcessNext(js, marks, permits + 1, waiting, granted)
        \/ LeaveQueue(js, marks, permits + 1, waiting, granted)
    BY <1>2 DEF Finish, ProcessNextIf
  <2>2. permits + 1 \in Nat /\ waiting \in Seq(Run) /\ granted \in Seq(Run)
        /\ nextConsumer \in [Groups -> Nat]
    BY DEF TypeOK, PickTypes
  <2>3. /\ PickTypes' /\ permits' + Len(granted') = permits + 1 + Len(granted)
        /\ permits' > 0 => waiting' = << >>
    BY <2>1, <2>2, <1>2, PickEffect
  <2>4. permits \in Nat /\ Len(granted) \in Nat
    BY DEF TypeOK, PickTypes
  <2>5. permits' + Len(granted') = permits + Len(granted) + 1
    BY <2>3, <2>4
  <2> QED
    BY <2>3, <2>5, <1>1
<1>3. CASE waiting # << >>
  <2> DEFINE woken == Append(granted, Head(waiting))
  <2>1. \/ ProcessNext(js, marks, permits, Tail(waiting), woken)
        \/ LeaveQueue(js, marks, permits, Tail(waiting), woken)
    BY <1>3 DEF Finish, ProcessNextIf
  <2>2. permits \in Nat /\ granted \in Seq(Run) /\ nextConsumer \in [Groups -> Nat]
    BY DEF TypeOK, PickTypes
  <2>3. Tail(waiting) \in Seq(Run) /\ Head(waiting) \in Run
    BY <1>3 DEF TypeOK, PickTypes
  <2>4. woken \in Seq(Run) /\ Len(woken) = Len(granted) + 1
    BY <2>2, <2>3
  <2> HIDE DEF woken
  <2>5. /\ PickTypes' /\ permits' + Len(granted') = permits + Len(woken)
        /\ (permits > 0 => Tail(waiting) = << >>) => (permits' > 0 => waiting' = << >>)
    BY <2>1, <2>2, <2>3, <2>4, PickEffect
  <2>6. permits' + Len(granted') = permits + Len(granted) + 1
    BY <2>2, <2>4, <2>5
  <2> QED
    BY <2>2, <2>5, <2>6, <1>1, <1>3
<1> QED
  BY <1>2, <1>3

-----------------------------------------------------------------------------
(* The actions *)

\* What every step does to the semaphore: the sum of free permits, granted runs
\* and handlers in progress stays, and so does the absence of idle permits.
SemaphoreStep ==
  /\ permits' + Len(granted') + processing' = permits + Len(granted) + processing
  /\ (permits > 0 => waiting = << >>) => (permits' > 0 => waiting' = << >>)

LEMMA KeptIsStep ==
  ASSUME TypeOK, PickTypes', SemaphoreKept, processing' = processing
  PROVE  SemaphoreStep
<1>1. permits \in Nat /\ Len(granted) \in Nat /\ permits' \in Nat /\ Len(granted') \in Nat
      /\ processing \in Int
  BY DEF TypeOK, PickTypes
<1> QED
  BY <1>1 DEF SemaphoreKept, SemaphoreStep

\* The actions that call processNext, or leave it out, on the current state.
LEMMA TriggerEffect ==
  ASSUME TypeOK, RegistryTypes', NEW go,
         ProcessNextIf(go, jobs, processed, permits, waiting, granted)
  PROVE  PickTypes' /\ SemaphoreKept
<1>1. \/ ProcessNext(jobs, processed, permits, waiting, granted)
      \/ LeaveQueue(jobs, processed, permits, waiting, granted)
  BY DEF ProcessNextIf
<1> QED
  BY <1>1, PickEffect DEF TypeOK, PickTypes, SemaphoreKept

LEMMA CallEffect ==
  ASSUME TypeOK, Call
  PROVE  TypeOK' /\ SemaphoreStep
<1>1. ASSUME NEW j \in Jobs, Enqueue(j)
      PROVE  TypeOK' /\ SemaphoreStep
  <2>1. RegistryTypes' /\ processing' = processing
    BY <1>1 DEF Enqueue, TypeOK, RegistryTypes, registryVars, counterVars
  <2>2. EnqueueOn(jobs, processed, j)
    BY <1>1 DEF Enqueue
  <2>3. PickTypes' /\ accepted' \subseteq Jobs /\ startTimers' \subseteq Jobs /\ SemaphoreKept
    BY <2>1, <2>2, EnqueueEffect DEF TypeOK, PickTypes
  <2>4. TypeOK'
    BY <1>1, <2>1, <2>3 DEF Enqueue, TypeOK, registryVars, counterVars, stopVars
  <2> QED
    BY <2>1, <2>3, <2>4, KeptIsStep
<1>2. ASSUME NEW g \in Groups, NEW m \in RetryLimits, Consume(g, m)
      PROVE  TypeOK' /\ SemaphoreStep
  <2>1. RegistryTypes'
    <3>1. /\ groups \in Seq(Groups) /\ consumers \in [Groups -> Seq(RetryLimits)]
          /\ groups' = (IF consumers[g] = << >> THEN Append(groups, g) ELSE groups)
          /\ consumers' = [consumers EXCEPT ![g] = Append(consumers[g], m)]
      BY <1>2 DEF Consume, TypeOK, RegistryTypes
    <3>2. groups' \in Seq(Groups) /\ consumers' \in [Groups -> Seq(RetryLimits)]
      BY <3>1
    <3>3. Append(consumers[g], m) # << >>
      BY <3>1
    <3>4. ASSUME NEW i \in 1..Len(groups')
          PROVE  groups'[i] = g \/ (i \in 1..Len(groups) /\ groups'[i] = groups[i])
      BY <3>1
    <3>5. ASSUME NEW i \in 1..Len(groups')
          PROVE  consumers'[groups'[i]] # << >>
      BY <3>1, <3>2, <3>3, <3>4 DEF TypeOK, RegistryTypes
    <3> QED
      BY <3>2, <3>5 DEF RegistryTypes
  <2>2. ProcessNextIf(~stopped, jobs, processed, permits, waiting, granted)
    BY <1>2 DEF Consume
  <2>3. PickTypes' /\ SemaphoreKept
    BY <2>1, <2>2, TriggerEffect
  <2>4. TypeOK' /\ processing' = processing
    BY <1>2, <2>1, <2>3 DEF Consume, TypeOK, counterVars, stopVars, timerVars
  <2> QED
    BY <2>3, <2>4, KeptIsStep
<1>3. ASSUME NEW r \in Recurring, NEW j \in Jobs, ScheduleInterval(r, j)
      PROVE  TypeOK' /\ SemaphoreStep
  <2>1. RegistryTypes' /\ processing' = processing
    BY <1>3 DEF ScheduleInterval, TypeOK, RegistryTypes, registryVars, counterVars
  <2>2. \/ EnqueueOn(jobs, processed, j)
        \/ EnqueueOn(WithoutInstances(r), MarksWithoutInstances(r), j)
    BY <1>3 DEF ScheduleInterval
  <2>3. PickTypes' /\ accepted' \subseteq Jobs /\ startTimers' \subseteq Jobs /\ SemaphoreKept
    BY <2>1, <2>2, EnqueueEffect, PurgeType DEF TypeOK, PickTypes
  <2>4. TypeOK'
    BY <1>3, <2>1, <2>3 DEF ScheduleInterval, TypeOK, registryVars, counterVars, stopVars
  <2> QED
    BY <2>1, <2>3, <2>4, KeptIsStep
<1>4. ASSUME NEW r \in Recurring, ScheduleCron(r) \/ CancelRecurring(r)
      PROVE  TypeOK' /\ SemaphoreStep
  <2>1. \/ jobs' = jobs /\ processed' = processed
        \/ jobs' = WithoutInstances(r) /\ processed' = MarksWithoutInstances(r)
    BY <1>4 DEF ScheduleCron, CancelRecurring, DropInstances, pickVars
  <2>2. /\ UNCHANGED <<nextConsumer, semaphoreVars, registryVars, accepted, attempts, running,
                        counterVars, timerVars, stopVars>>
        /\ \E status \in {"live", "cancelled"} : recurring' = [recurring EXCEPT ![r] = status]
    BY <1>4 DEF ScheduleCron, CancelRecurring, DropInstances, pickVars
  <2>3. PickTypes'
    BY <2>1, <2>2, PurgeType DEF TypeOK, PickTypes, semaphoreVars
  <2>4. TypeOK'
    BY <2>2, <2>3 DEF TypeOK, RegistryTypes, registryVars, counterVars, timerVars, stopVars
  <2> QED
    BY <2>2, <2>4 DEF SemaphoreStep, semaphoreVars, counterVars
<1>5. CASE Stop
  <2>1. TypeOK'
    BY <1>5 DEF Stop, TypeOK, PickTypes, RegistryTypes, pickVars, semaphoreVars, registryVars,
                counterVars, timerVars
  <2> QED
    BY <1>5, <2>1 DEF Stop, SemaphoreStep, pickVars, semaphoreVars, counterVars
<1> QED
  BY <1>1, <1>2, <1>3, <1>4, <1>5 DEF Call

LEMMA TimerEffect ==
  ASSUME TypeOK, Timer
  PROVE  TypeOK' /\ SemaphoreStep
<1>1. ASSUME NEW j \in Jobs, BecomeDue(j)
      PROVE  TypeOK' /\ SemaphoreStep
  <2>1. TypeOK'
    BY <1>1 DEF BecomeDue, TypeOK, PickTypes, RegistryTypes, pickVars, semaphoreVars,
                registryVars, counterVars, stopVars
  <2> QED
    BY <1>1, <2>1 DEF BecomeDue, SemaphoreStep, pickVars, semaphoreVars, counterVars
<1>2. ASSUME NEW j \in Jobs, StartTimer(j)
      PROVE  TypeOK' /\ SemaphoreStep
  <2>1. RegistryTypes' /\ processing' = processing
    BY <1>2 DEF StartTimer, TypeOK, RegistryTypes, registryVars, counterVars
  <2>2. PickTypes' /\ SemaphoreKept
    BY <1>2, <2>1, TriggerEffect DEF StartTimer
  <2>3. TypeOK'
    BY <1>2, <2>1, <2>2 DEF StartTimer, TypeOK, counterVars, stopVars
  <2> QED
    BY <2>1, <2>2, <2>3, KeptIsStep
<1>3. ASSUME NEW r \in backoff, RetryTimer(r)
      PROVE  TypeOK' /\ SemaphoreStep
  <2>1. RegistryTypes' /\ processing' = processing
    BY <1>3 DEF RetryTimer, TypeOK, RegistryTypes, registryVars, counterVars
  <2>2. PickTypes' /\ SemaphoreKept
    BY <1>3, <2>1, TriggerEffect DEF RetryTimer
  <2>3. TypeOK'
    BY <1>3, <2>1, <2>2 DEF RetryTimer, TypeOK, counterVars, stopVars
  <2> QED
    BY <2>1, <2>2, <2>3, KeptIsStep
<1>4. CASE Heartbeat
  <2>1. RegistryTypes' /\ processing' = processing
    BY <1>4 DEF Heartbeat, TypeOK, RegistryTypes, registryVars, counterVars
  <2>2. PickTypes' /\ SemaphoreKept
    BY <1>4, <2>1, TriggerEffect DEF Heartbeat
  <2>3. TypeOK'
    BY <1>4, <2>1, <2>2 DEF Heartbeat, TypeOK, counterVars, timerVars, stopVars
  <2> QED
    BY <2>1, <2>2, <2>3, KeptIsStep
<1>5. ASSUME NEW r \in Recurring, NEW j \in Jobs, RecurringTimer(r, j)
      PROVE  TypeOK' /\ SemaphoreStep
  <2>1. RegistryTypes' /\ processing' = processing
    BY <1>5 DEF RecurringTimer, TypeOK, RegistryTypes, registryVars, counterVars
  <2>2. EnqueueOn(jobs, processed, j)
    BY <1>5 DEF RecurringTimer
  <2>3. PickTypes' /\ accepted' \subseteq Jobs /\ startTimers' \subseteq Jobs /\ SemaphoreKept
    BY <2>1, <2>2, EnqueueEffect DEF TypeOK, PickTypes
  <2>4. TypeOK'
    BY <1>5, <2>1, <2>3 DEF RecurringTimer, TypeOK, counterVars, stopVars
  <2> QED
    BY <2>1, <2>3, <2>4, KeptIsStep
<1>6. CASE StopPoll
  <2>1. TypeOK'
    BY <1>6 DEF StopPoll, TypeOK, PickTypes, RegistryTypes, pickVars, semaphoreVars, registryVars,
                counterVars, timerVars
  <2> QED
    BY <1>6, <2>1 DEF StopPoll, SemaphoreStep, pickVars, semaphoreVars, counterVars
<1> QED
  BY <1>1, <1>2, <1>3, <1>4, <1>5, <1>6 DEF Timer

LEMMA RemoveAtType ==
  ASSUME NEW S, NEW s \in Seq(S), NEW i \in 1..Len(s)
  PROVE  RemoveAt(s, i) \in Seq(S) /\ Len(RemoveAt(s, i)) = Len(s) - 1
<1>1. SubSeq(s, 1, i - 1) \in Seq(S) /\ Len(SubSeq(s, 1, i - 1)) = i - 1
  BY SubSeqType
<1>2. SubSeq(s, i + 1, Len(s)) \in Seq(S) /\ Len(SubSeq(s, i + 1, Len(s))) = Len(s) - i
  BY SubSeqType
<1> DEFINE before == SubSeq(s, 1, i - 1)
           after == SubSeq(s, i + 1, Len(s))
<1>3. RemoveAt(s, i) = before \o after
  BY DEF RemoveAt
<1> HIDE DEF before, after
<1>4. /\ before \in Seq(S) /\ Len(before) = i - 1
      /\ after \in Seq(S) /\ Len(after) = Len(s) - i
  BY <1>1, <1>2 DEF before, after
<1>5. before \o after \in Seq(S) /\ Len(before \o after) = Len(before) + Len(after)
  BY SMTT(20), <1>4
<1>6. (i - 1) + (Len(s) - i) = Len(s) - 1
  OBVIOUS
<1> QED
  BY <1>3, <1>4, <1>5, <1>6

LEMMA FinishIsStep ==
  ASSUME TypeOK, PickTypes', processing' = processing - 1,
         permits' + Len(granted') = permits + Len(granted) + 1,
         (permits > 0 => waiting = << >>) => (permits' > 0 => waiting' = << >>)
  PROVE  SemaphoreStep
<1>1. permits \in Nat /\ Len(granted) \in Nat /\ permits' \in Nat /\ Len(granted') \in Nat
      /\ processing \in Int
  BY DEF TypeOK, PickTypes
<1> QED
  BY <1>1 DEF SemaphoreStep

LEMMA WorkEffect ==
  ASSUME TypeOK, Work
  PROVE  TypeOK' /\ SemaphoreStep
<1>1. ASSUME NEW i \in 1..Len(granted), Begin(i)
      PROVE  TypeOK' /\ SemaphoreStep
  <2>0. granted \in Seq(Run) /\ granted' = RemoveAt(granted, i)
    BY <1>1 DEF Begin, TypeOK, PickTypes
  <2>1. granted' \in Seq(Run) /\ Len(granted') = Len(granted) - 1 /\ granted[i] \in Run
    BY <1>1, <2>0, RemoveAtType
  <2>2. TypeOK'
    BY <1>1, <2>1 DEF Begin, TypeOK, PickTypes, RegistryTypes, registryVars, timerVars, stopVars
  <2>3. permits \in Nat /\ Len(granted) \in Nat /\ processing \in Int
    BY DEF TypeOK, PickTypes
  <2> QED
    BY <1>1, <2>1, <2>2, <2>3 DEF Begin, SemaphoreStep
<1>2. ASSUME NEW r \in running, HandlerSucceeds(r)
      PROVE  TypeOK' /\ SemaphoreStep
  <2>1. RegistryTypes'
    BY <1>2 DEF HandlerSucceeds, TypeOK, RegistryTypes, registryVars
  <2>2. jobs \in Seq(Jobs) /\ processed \in [Groups -> SUBSET Ids]
    BY DEF TypeOK, PickTypes
  <2>3. /\ PickTypes' /\ running' \subseteq Run /\ processing' = processing - 1
        /\ permits' + Len(granted') = permits + Len(granted) + 1
        /\ (permits > 0 => waiting = << >>) => (permits' > 0 => waiting' = << >>)
    BY <1>2, <2>1, <2>2, FinishEffect DEF HandlerSucceeds
  <2>4. TypeOK'
    BY <1>2, <2>1, <2>3 DEF HandlerSucceeds, TypeOK, timerVars, stopVars
  <2> QED
    BY <2>3, <2>4, FinishIsStep
<1>3. ASSUME NEW r \in running, HandlerRetries(r)
      PROVE  TypeOK' /\ SemaphoreStep
  <2>1. RegistryTypes'
    BY <1>3 DEF HandlerRetries, TypeOK, RegistryTypes, registryVars
  <2>2. r \in Run /\ r.job \in Jobs /\ r.group \in Groups
    BY DEF TypeOK, Run
  <2>3. /\ Insert(jobs, r.job) \in Seq(Jobs)
        /\ [processed EXCEPT ![r.group] = @ \ {IdOf[r.job]}] \in [Groups -> SUBSET Ids]
    BY <2>2, InsertType DEF TypeOK, PickTypes
  <2>4. /\ PickTypes' /\ running' \subseteq Run /\ processing' = processing - 1
        /\ permits' + Len(granted') = permits + Len(granted) + 1
        /\ (permits > 0 => waiting = << >>) => (permits' > 0 => waiting' = << >>)
    BY <1>3, <2>1, <2>3, FinishEffect DEF HandlerRetries
  <2>5. TypeOK'
    BY <1>3, <2>1, <2>2, <2>4 DEF HandlerRetries, TypeOK, stopVars
  <2> QED
    BY <2>4, <2>5, FinishIsStep
<1>4. ASSUME NEW r \in running, HandlerExhausts(r)
      PROVE  TypeOK' /\ SemaphoreStep
  <2>1. RegistryTypes'
    BY <1>4 DEF HandlerExhausts, TypeOK, RegistryTypes, registryVars
  <2>2. jobs \in Seq(Jobs) /\ processed \in [Groups -> SUBSET Ids]
    BY DEF TypeOK, PickTypes
  <2>3. /\ PickTypes' /\ running' \subseteq Run /\ processing' = processing - 1
        /\ permits' + Len(granted') = permits + Len(granted) + 1
        /\ (permits > 0 => waiting = << >>) => (permits' > 0 => waiting' = << >>)
    BY <1>4, <2>1, <2>2, FinishEffect DEF HandlerExhausts
  <2>4. TypeOK'
    BY <1>4, <2>1, <2>3 DEF HandlerExhausts, TypeOK, timerVars, stopVars
  <2> QED
    BY <2>3, <2>4, FinishIsStep
<1> QED
  BY <1>1, <1>2, <1>3, <1>4 DEF Work, HandlerEnds

LEMMA StutterEffect ==
  ASSUME TypeOK, UNCHANGED vars
  PROVE  TypeOK' /\ SemaphoreStep
<1>1. TypeOK'
  BY DEF vars, TypeOK, PickTypes, RegistryTypes, pickVars, semaphoreVars, registryVars,
         counterVars, timerVars, stopVars
<1> QED
  BY <1>1 DEF vars, SemaphoreStep, pickVars, semaphoreVars, counterVars

LEMMA StepEffect ==
  ASSUME TypeOK, [Next]_vars
  PROVE  TypeOK' /\ SemaphoreStep
BY CallEffect, TimerEffect, WorkEffect, StutterEffect DEF Next

-----------------------------------------------------------------------------
(* Theorems *)

\* The state of the queue keeps its types, whatever is called, fires or ends.
THEOREM TypeCorrect == Spec => []TypeOK
<1>1. Init => TypeOK
  <2> SUFFICES ASSUME Init PROVE TypeOK
    OBVIOUS
  <2>1. PickTypes
    BY ConfigAssumption DEF Init, PickTypes
  <2>2. RegistryTypes
    BY DEF Init, RegistryTypes
  <2>3. /\ accepted \subseteq Jobs /\ due \subseteq Jobs /\ startTimers \subseteq Jobs
        /\ running \subseteq Run /\ backoff \subseteq Run
    BY DEF Init
  <2>4. attempts \in [Jobs -> Nat]
    BY DEF Init
  <2>5. recurring \in [Recurring -> {"none", "live", "cancelled"}]
    BY DEF Init
  <2>6. processing \in Int /\ completed \in Nat /\ failed \in Nat
    BY DEF Init
  <2>7. stopped \in BOOLEAN
    BY Zenon DEF Init
  <2>8. stopCall \in {"none", "immediate", "draining", "returned"}
    BY DEF Init
  <2> QED
    BY <2>1, <2>2, <2>3, <2>4, <2>5, <2>6, <2>7, <2>8 DEF TypeOK
<1>2. TypeOK /\ [Next]_vars => TypeOK'
  BY StepEffect
<1> QED
  BY <1>1, <1>2, PTL DEF Spec

\* The semaphore bounds the handlers in progress by config.concurrency and leaves
\* nobody parked next to a free permit.
THEOREM SemaphoreCorrect == Spec => []SemaphoreSafe
<1>1. Init => SemaphoreSafe
  BY ConfigAssumption DEF Init, SemaphoreSafe
<1>2. TypeOK /\ SemaphoreSafe /\ [Next]_vars => SemaphoreSafe'
  BY StepEffect DEF SemaphoreStep, SemaphoreSafe
<1> QED
  BY <1>1, <1>2, TypeCorrect, PTL DEF Spec

\* Without the trigger processNext starts nothing.
LEMMA UntriggeredPicksNothing ==
  ASSUME NEW js, NEW marks, NEW free, NEW parked, NEW resolved,
         ProcessNextIf(FALSE, js, marks, free, parked, resolved)
  PROVE  nextConsumer' = nextConsumer /\ waiting' = parked /\ granted' = resolved
BY DEF ProcessNextIf, LeaveQueue

\* In a stopped queue every trigger of processNext is disabled: the ends of runs
\* hand permits to parked runs, and nothing else enters the semaphore.
LEMMA StoppedStep ==
  ASSUME TypeOK, [Next]_vars, stopped
  PROVE  /\ nextConsumer' = nextConsumer /\ stopped'
         /\ \/ waiting' = waiting /\ granted' = granted /\ running' = running
               /\ processing' = processing
            \/ \E i \in 1..Len(granted) : Begin(i)
            \/ \E r \in running : HandlerEnds(r)
<1> DEFINE Quiet == /\ nextConsumer' = nextConsumer /\ stopped'
                    /\ waiting' = waiting /\ granted' = granted /\ running' = running
                    /\ processing' = processing
<1>1. ASSUME NEW j \in Jobs, Enqueue(j) PROVE Quiet
  BY <1>1 DEF Enqueue, EnqueueOn, ProcessNextIf, LeaveQueue, counterVars, stopVars
<1>2. ASSUME NEW g \in Groups, NEW m \in RetryLimits, Consume(g, m) PROVE Quiet
  BY <1>2 DEF Consume, ProcessNextIf, LeaveQueue, counterVars, stopVars
<1>3. ASSUME NEW r \in Recurring, NEW j \in Jobs, ScheduleInterval(r, j) PROVE Quiet
  BY <1>3 DEF ScheduleInterval, EnqueueOn, ProcessNextIf, LeaveQueue, counterVars, stopVars
<1>4. ASSUME NEW r \in Recurring, ScheduleCron(r) PROVE Quiet
  BY <1>4 DEF ScheduleCron, DropInstances, pickVars, semaphoreVars, counterVars, stopVars
<1>5. ASSUME NEW r \in Recurring, CancelRecurring(r) PROVE Quiet
  BY <1>5 DEF CancelRecurring, DropInstances, semaphoreVars, counterVars, stopVars
<1>6. CASE Stop
  BY <1>6 DEF Stop, pickVars, semaphoreVars, counterVars
<1>7. ASSUME NEW j \in Jobs, BecomeDue(j) PROVE Quiet
  BY <1>7 DEF BecomeDue, pickVars, semaphoreVars, counterVars, stopVars
<1>8. ASSUME NEW j \in Jobs, StartTimer(j) PROVE Quiet
  BY <1>8 DEF StartTimer, ProcessNextIf, LeaveQueue, counterVars, stopVars
<1>9. ASSUME NEW r \in backoff, RetryTimer(r) PROVE Quiet
  BY <1>9 DEF RetryTimer, ProcessNextIf, LeaveQueue, counterVars, stopVars
<1>10. ASSUME NEW r \in Recurring, NEW j \in Jobs, RecurringTimer(r, j) PROVE Quiet
  BY <1>10 DEF RecurringTimer
<1>11. CASE StopPoll
  BY <1>11 DEF StopPoll, pickVars, semaphoreVars, counterVars
<1>12. ASSUME NEW i \in 1..Len(granted), Begin(i)
       PROVE  nextConsumer' = nextConsumer /\ stopped'
  BY <1>12 DEF Begin, stopVars
<1>13. ASSUME NEW r \in running, HandlerEnds(r)
       PROVE  nextConsumer' = nextConsumer /\ stopped'
  BY <1>13 DEF HandlerEnds, HandlerSucceeds, HandlerRetries, HandlerExhausts, Finish, ProcessNextIf,
               LeaveQueue, stopVars
<1>14. CASE UNCHANGED vars
  BY <1>14 DEF vars, pickVars, semaphoreVars, counterVars, stopVars
<1>15. CASE Heartbeat
  BY <1>15 DEF Heartbeat
<1> QED
  BY <1>1, <1>2, <1>3, <1>4, <1>5, <1>6, <1>7, <1>8, <1>9, <1>10, <1>11, <1>12, <1>13, <1>14, <1>15
     DEF Next, Call, Timer, Work

\* Once stop() has been called no group picks a job, by any path.
THEOREM NoPickAfterStopCorrect == Spec => NoPickAfterStop
<1>1. TypeOK /\ [Next]_vars => [stopped => nextConsumer' = nextConsumer]_vars
  BY StoppedStep
<1> QED
  BY <1>1, TypeCorrect, PTL DEF Spec, NoPickAfterStop

\* How a step changes the set of handlers in progress and their count.
LEMMA RunningStep ==
  ASSUME [Next]_vars
  PROVE  \/ running' = running /\ processing' = processing
         \/ \E r : running' = running \cup {r} /\ processing' = processing + 1
         \/ \E r \in running : running' = running \ {r} /\ processing' = processing - 1
<1> DEFINE Kept == running' = running /\ processing' = processing
<1>1. CASE Call
  BY <1>1 DEF Call, Enqueue, Consume, ScheduleInterval, ScheduleCron, CancelRecurring, DropInstances,
              Stop, counterVars
<1>2. CASE Timer
  BY <1>2 DEF Timer, BecomeDue, StartTimer, RetryTimer, Heartbeat, RecurringTimer, StopPoll, counterVars
<1>3. ASSUME NEW i \in 1..Len(granted), Begin(i)
      PROVE  running' = running \cup {granted[i]} /\ processing' = processing + 1
  BY <1>3 DEF Begin
<1>4. ASSUME NEW r \in running, HandlerEnds(r)
      PROVE  running' = running \ {r} /\ processing' = processing - 1
  BY <1>4 DEF HandlerEnds, HandlerSucceeds, HandlerRetries, HandlerExhausts, Finish
<1>5. CASE UNCHANGED vars
  BY <1>5 DEF vars, counterVars
<1> QED
  BY <1>1, <1>2, <1>3, <1>4, <1>5 DEF Next, Work

\* How a step moves a call of stop().
LEMMA StopCallStep ==
  ASSUME TypeOK, [Next]_vars
  PROVE  \/ stopCall' = stopCall /\ stopped' = stopped
         \/ stopped' /\ stopCall' \in {"draining", "immediate"}
         \/ StopPoll
<1>1. CASE Call
  BY <1>1, Zenon DEF Call, Enqueue, Consume, ScheduleInterval, ScheduleCron, CancelRecurring,
                     DropInstances, Stop, stopVars
<1>2. CASE Timer
  BY <1>2, Zenon DEF Timer, BecomeDue, StartTimer, RetryTimer, Heartbeat, RecurringTimer, stopVars
<1>3. CASE Work
  BY <1>3, Zenon DEF Work, Begin, HandlerEnds, HandlerSucceeds, HandlerRetries, HandlerExhausts, stopVars
<1>4. CASE UNCHANGED vars
  BY <1>4, Zenon DEF vars, stopVars
<1> QED
  BY <1>1, <1>2, <1>3, <1>4 DEF Next

\* StopDrains is not inductive: that nothing can be parked or granted when the
\* poll sees processing = 0 comes from the semaphore, that no handler is in
\* progress from processing bounding their number, and that the queue stays
\* quiet from stopped.
Drained ==
  /\ IsFiniteSet(running) /\ Cardinality(running) <= processing
  /\ stopCall \in {"draining", "returned"} => stopped
  /\ stopCall = "returned" => waiting = << >> /\ granted = << >> /\ running = {}

LEMMA DrainedStep ==
  ASSUME TypeOK, SemaphoreSafe, Drained, [Next]_vars
  PROVE  Drained'
<1>1. IsFiniteSet(running') /\ Cardinality(running') <= processing'
  <2>0. /\ IsFiniteSet(running) /\ Cardinality(running) <= processing /\ processing \in Int
        /\ Cardinality(running) \in Nat
    BY FS_CardinalityType DEF Drained, TypeOK
  <2>1. CASE running' = running /\ processing' = processing
    BY <2>0, <2>1
  <2>2. ASSUME NEW r, running' = running \cup {r}, processing' = processing + 1
        PROVE  IsFiniteSet(running') /\ Cardinality(running') <= processing'
    <3>1. /\ IsFiniteSet(running \cup {r})
          /\ \/ Cardinality(running \cup {r}) = Cardinality(running)
             \/ Cardinality(running \cup {r}) = Cardinality(running) + 1
      BY <2>0, FS_AddElement
    <3> QED
      BY <2>0, <2>2, <3>1
  <2>3. ASSUME NEW r \in running, running' = running \ {r}, processing' = processing - 1
        PROVE  IsFiniteSet(running') /\ Cardinality(running') <= processing'
    <3>1. IsFiniteSet(running \ {r}) /\ Cardinality(running \ {r}) = Cardinality(running) - 1
      BY <2>0, FS_RemoveElement
    <3> QED
      BY <2>0, <2>3, <3>1
  <2> QED
    BY <2>1, <2>2, <2>3, RunningStep
<1>2. stopCall' \in {"draining", "returned"} => stopped'
  BY StopCallStep DEF Drained, StopPoll
<1>3. ASSUME StopPoll
      PROVE  waiting' = << >> /\ granted' = << >> /\ running' = {}
  <2>1. /\ UNCHANGED <<waiting, granted, running>> /\ granted = << >> /\ processing = 0
    BY <1>3 DEF StopPoll, Macrotask, pickVars, semaphoreVars
  <2>2. waiting = << >>
    BY <2>1, ConfigAssumption DEF SemaphoreSafe, TypeOK, PickTypes
  <2>3. Cardinality(running) = 0
    BY <2>1, FS_CardinalityType DEF Drained
  <2>4. running = {}
    BY <2>3, FS_EmptySet DEF Drained
  <2> QED
    BY <2>1, <2>2, <2>4
<1>4. ASSUME stopCall = "returned"
      PROVE  waiting' = << >> /\ granted' = << >> /\ running' = {}
  <2>1. stopped /\ waiting = << >> /\ granted = << >> /\ running = {}
    BY <1>4 DEF Drained
  <2>2. ~ \E i \in 1..Len(granted) : Begin(i)
    BY <2>1
  <2>3. ~ \E r \in running : HandlerEnds(r)
    BY <2>1
  <2> QED
    BY <2>1, <2>2, <2>3, StoppedStep
<1>5. ASSUME stopCall' = "returned"
      PROVE  StopPoll \/ stopCall = "returned"
  BY <1>5, StopCallStep
<1> QED
  BY <1>1, <1>2, <1>3, <1>4, <1>5 DEF Drained

\* When stop() had to poll, its return means that nothing is in progress, parked
\* or granted, then and ever after.
THEOREM StopDrainsCorrect == Spec => []StopDrains
<1>1. Init => Drained
  BY FS_EmptySet DEF Init, Drained
<1>2. TypeOK /\ SemaphoreSafe /\ Drained /\ [Next]_vars => Drained'
  BY DrainedStep
<1>3. Drained => StopDrains
  BY DEF Drained, StopDrains, Active, ToSet
<1> QED
  BY <1>1, <1>2, <1>3, TypeCorrect, SemaphoreCorrect, PTL DEF Spec

-----------------------------------------------------------------------------
(* Lists in which nothing is twice *)

Distinct(s) == \A i, k \in 1..Len(s) : s[i] = s[k] => i = k

\* Two parts of the semaphore and the runs outside it.
Apart(parked, resolved, others) ==
  /\ Distinct(parked) /\ Distinct(resolved)
  /\ ToSet(parked) \cap ToSet(resolved) = {}
  /\ ToSet(parked) \cap others = {} /\ ToSet(resolved) \cap others = {}

LEMMA ToSetMembers ==
  ASSUME NEW S, NEW s \in Seq(S)
  PROVE  /\ ToSet(s) \subseteq S
         /\ \A i \in 1..Len(s) : s[i] \in ToSet(s)
         /\ \A x \in ToSet(s) : \E i \in 1..Len(s) : x = s[i]
BY DEF ToSet

LEMMA ConcatMembers ==
  ASSUME NEW S, NEW s \in Seq(S), NEW t \in Seq(S)
  PROVE  /\ ToSet(s \o t) = ToSet(s) \cup ToSet(t)
         /\ Distinct(s) /\ Distinct(t) /\ ToSet(s) \cap ToSet(t) = {} => Distinct(s \o t)
<1> DEFINE u == s \o t
<1>1. /\ u \in Seq(S) /\ Len(u) = Len(s) + Len(t) /\ Len(s) \in Nat /\ Len(t) \in Nat
      /\ \A i \in 1..Len(s) : u[i] = s[i]
      /\ \A i \in 1..Len(t) : u[Len(s) + i] = t[i]
  BY ConcatProperties
<1> HIDE DEF u
<1>2. \A i \in 1..Len(u) : i \in 1..Len(s) \/ i - Len(s) \in 1..Len(t)
  BY <1>1
<1>3. \A i \in 1..Len(u) : \/ i \in 1..Len(s) /\ u[i] = s[i]
                           \/ i - Len(s) \in 1..Len(t) /\ u[i] = t[i - Len(s)]
  <2> TAKE i \in 1..Len(u)
  <2>1. i - Len(s) \in 1..Len(t) => u[Len(s) + (i - Len(s))] = t[i - Len(s)]
    BY <1>1
  <2>2. Len(s) + (i - Len(s)) = i
    BY <1>1
  <2> QED
    BY <1>1, <1>2, <2>1, <2>2
<1>4. ToSet(u) = ToSet(s) \cup ToSet(t)
  <2>1. ASSUME NEW x \in ToSet(u) PROVE x \in ToSet(s) \cup ToSet(t)
    <3>1. PICK i \in 1..Len(u) : x = u[i]
      BY <1>1, ToSetMembers
    <3>2. CASE i \in 1..Len(s) /\ x = s[i]
      BY <3>2, ToSetMembers
    <3>3. CASE i - Len(s) \in 1..Len(t) /\ x = t[i - Len(s)]
      BY <3>3, ToSetMembers
    <3> QED
      BY <1>3, <3>1, <3>2, <3>3
  <2>2. ASSUME NEW x \in ToSet(s) PROVE x \in ToSet(u)
    <3>1. PICK i \in 1..Len(s) : x = s[i]
      BY ToSetMembers
    <3>2. i \in 1..Len(u) /\ u[i] = x
      BY <1>1, <3>1
    <3> QED
      BY <1>1, <3>2, ToSetMembers
  <2>3. ASSUME NEW x \in ToSet(t) PROVE x \in ToSet(u)
    <3>1. PICK i \in 1..Len(t) : x = t[i]
      BY ToSetMembers
    <3>2. Len(s) + i \in 1..Len(u) /\ u[Len(s) + i] = x
      BY <1>1, <3>1
    <3> QED
      BY <1>1, <3>2, ToSetMembers
  <2> QED
    BY <2>1, <2>2, <2>3
<1>5. ASSUME Distinct(s), Distinct(t), ToSet(s) \cap ToSet(t) = {}
      PROVE  Distinct(u)
  <2> SUFFICES ASSUME NEW i \in 1..Len(u), NEW k \in 1..Len(u), u[i] = u[k]
               PROVE  i = k
    BY DEF Distinct
  <2>1. CASE i \in 1..Len(s) /\ k \in 1..Len(s)
    BY <2>1, <1>1, <1>5 DEF Distinct
  <2>2. CASE i \in 1..Len(s) /\ k - Len(s) \in 1..Len(t) /\ u[k] = t[k - Len(s)]
    BY ZenonT(30), <2>2, <1>1, <1>5, ToSetMembers
  <2>3. CASE i - Len(s) \in 1..Len(t) /\ u[i] = t[i - Len(s)] /\ k \in 1..Len(s)
    BY ZenonT(30), <2>3, <1>1, <1>5, ToSetMembers
  <2>4. CASE /\ i - Len(s) \in 1..Len(t) /\ u[i] = t[i - Len(s)]
             /\ k - Len(s) \in 1..Len(t) /\ u[k] = t[k - Len(s)]
    <3>1. i - Len(s) = k - Len(s)
      BY <2>4, <1>5 DEF Distinct
    <3> QED
      BY <3>1, <1>1
  <2> QED
    BY <1>3, <2>1, <2>2, <2>3, <2>4
<1> QED
  BY <1>4, <1>5 DEF u

\* The elements of a stretch of a sequence, and those of two that do not overlap.
LEMMA StretchMembers ==
  ASSUME NEW S, NEW s \in Seq(S), NEW m \in 1..(Len(s) + 1), NEW n \in 0..Len(s)
  PROVE  /\ SubSeq(s, m, n) \in Seq(S)
         /\ ToSet(SubSeq(s, m, n)) = {s[i] : i \in m..n}
         /\ Distinct(s) => Distinct(SubSeq(s, m, n))
<1> DEFINE u == SubSeq(s, m, n)
<1>1. /\ u \in Seq(S) /\ Len(u) = IF m <= n THEN n - m + 1 ELSE 0
      /\ \A i \in 1..Len(u) : u[i] = s[m + i - 1]
  <2>1. \A i \in m..n : s[i] \in S
    OBVIOUS
  <2> QED
    BY <2>1, SubSeqProperties
<1> HIDE DEF u
<1>2. ASSUME NEW x \in ToSet(u) PROVE x \in {s[i] : i \in m..n}
  <2>1. PICK i \in 1..Len(u) : x = u[i]
    BY <1>1, ToSetMembers
  <2>2. m + i - 1 \in m..n /\ x = s[m + i - 1]
    BY <1>1, <2>1
  <2> QED
    BY <2>2
<1>3. ASSUME NEW i \in m..n PROVE s[i] \in ToSet(u)
  <2>1. i - m + 1 \in 1..Len(u) /\ m + (i - m + 1) - 1 = i
    BY <1>1
  <2>2. u[i - m + 1] = s[i]
    BY <1>1, <2>1
  <2> QED
    BY <1>1, <2>1, <2>2, ToSetMembers
<1>4. ASSUME Distinct(s) PROVE Distinct(u)
  <2> SUFFICES ASSUME NEW i \in 1..Len(u), NEW k \in 1..Len(u), u[i] = u[k]
               PROVE  i = k
    BY DEF Distinct
  <2>1. m + i - 1 \in 1..Len(s) /\ m + k - 1 \in 1..Len(s)
    BY <1>1
  <2>2. m + i - 1 = m + k - 1
    BY <1>1, <1>4, <2>1 DEF Distinct
  <2> QED
    BY <2>2
<1> QED
  BY <1>1, <1>2, <1>3, <1>4 DEF u

LEMMA RemoveAtMembers ==
  ASSUME NEW S, NEW s \in Seq(S), NEW i \in 1..Len(s), Distinct(s)
  PROVE  ToSet(RemoveAt(s, i)) = ToSet(s) \ {s[i]} /\ Distinct(RemoveAt(s, i))
<1> DEFINE before == SubSeq(s, 1, i - 1)
           after == SubSeq(s, i + 1, Len(s))
<1>1. /\ before \in Seq(S) /\ Distinct(before) /\ ToSet(before) = {s[k] : k \in 1..(i - 1)}
  <2>1. 1 \in 1..(Len(s) + 1) /\ i - 1 \in 0..Len(s)
    OBVIOUS
  <2> QED
    BY <2>1, StretchMembers
<1>2. /\ after \in Seq(S) /\ Distinct(after) /\ ToSet(after) = {s[k] : k \in (i + 1)..Len(s)}
  <2>1. i + 1 \in 1..(Len(s) + 1) /\ Len(s) \in 0..Len(s)
    OBVIOUS
  <2> QED
    BY <2>1, StretchMembers
<1>3. RemoveAt(s, i) = before \o after
  BY DEF RemoveAt
<1> HIDE DEF before, after
<1>4. ToSet(before) \cap ToSet(after) = {}
  BY <1>1, <1>2 DEF Distinct
<1>5. ToSet(before) \cup ToSet(after) = ToSet(s) \ {s[i]}
  <2>1. ToSet(s) = {s[k] : k \in 1..Len(s)}
    BY DEF ToSet
  <2>2. \A k \in 1..Len(s) : s[k] # s[i] => k \in 1..(i - 1) \/ k \in (i + 1)..Len(s)
    OBVIOUS
  <2>3. \A k \in 1..Len(s) : k \in 1..(i - 1) \/ k \in (i + 1)..Len(s) => s[k] # s[i]
    BY DEF Distinct
  <2> QED
    BY <1>1, <1>2, <2>1, <2>2, <2>3
<1>6. ToSet(before \o after) = ToSet(before) \cup ToSet(after) /\ Distinct(before \o after)
  BY ZenonT(30), <1>1, <1>2, <1>4, ConcatMembers
<1> QED
  BY <1>3, <1>5, <1>6

LEMMA TailMembers ==
  ASSUME NEW S, NEW s \in Seq(S), s # << >>, Distinct(s)
  PROVE  ToSet(Tail(s)) = ToSet(s) \ {Head(s)} /\ Distinct(Tail(s)) /\ Head(s) \in ToSet(s)
<1>1. Len(s) \in Nat \ {0}
  BY EmptySeq
<1>2. Tail(s) = SubSeq(s, 2, Len(s)) /\ Head(s) = s[1]
  BY TailIsSubSeq
<1>3. 2 \in 1..(Len(s) + 1) /\ Len(s) \in 0..Len(s)
  BY <1>1
<1>4. ToSet(SubSeq(s, 2, Len(s))) = {s[i] : i \in 2..Len(s)} /\ Distinct(SubSeq(s, 2, Len(s)))
  BY <1>3, StretchMembers
<1>5. \A i \in 2..Len(s) : s[i] # s[1]
  BY <1>1 DEF Distinct
<1>6. ToSet(s) = {s[i] : i \in 1..Len(s)}
  BY DEF ToSet
<1>7. \A i \in 1..Len(s) : s[i] # s[1] => i \in 2..Len(s)
  BY <1>1
<1>8. {s[i] : i \in 2..Len(s)} = ToSet(s) \ {s[1]}
  BY <1>1, <1>5, <1>6, <1>7
<1>9. s[1] \in ToSet(s)
  BY <1>1, <1>6
<1> QED
  BY <1>2, <1>4, <1>8, <1>9

\* Semaphore.acquire by new runs: each is granted or parked, once.
LEMMA AcquireMembers ==
  ASSUME NEW starts \in Seq(Run), NEW free \in Nat, NEW others,
         NEW parked \in Seq(Run), NEW resolved \in Seq(Run),
         Acquire(starts, free, parked, resolved)
  PROVE  /\ ToSet(waiting') \cup ToSet(granted')
              = ToSet(parked) \cup ToSet(resolved) \cup ToSet(starts)
         /\ Apart(parked, resolved, others) /\ Distinct(starts)
            /\ ToSet(starts) \cap (ToSet(parked) \cup ToSet(resolved) \cup others) = {}
              => Apart(waiting', granted', others)
<1> DEFINE n == IF Len(starts) <= free THEN Len(starts) ELSE free
           first == SubSeq(starts, 1, n)
           rest == SubSeq(starts, n + 1, Len(starts))
<1>1. n \in 0..Len(starts) /\ 1 \in 1..(Len(starts) + 1) /\ n + 1 \in 1..(Len(starts) + 1)
      /\ Len(starts) \in 0..Len(starts)
  OBVIOUS
<1>2. granted' = resolved \o first /\ waiting' = parked \o rest
  BY DEF Acquire
<1> HIDE DEF n
<1>3. /\ first \in Seq(Run) /\ ToSet(first) = {starts[i] : i \in 1..n}
      /\ Distinct(starts) => Distinct(first)
  BY <1>1, StretchMembers
<1>4. /\ rest \in Seq(Run) /\ ToSet(rest) = {starts[i] : i \in (n + 1)..Len(starts)}
      /\ Distinct(starts) => Distinct(rest)
  BY <1>1, StretchMembers
<1>5. ToSet(starts) = {starts[i] : i \in 1..Len(starts)}
  BY DEF ToSet
<1>6. \A i \in 1..Len(starts) : i \in 1..n \/ i \in (n + 1)..Len(starts)
  BY <1>1
<1>7. ToSet(first) \cup ToSet(rest) = ToSet(starts)
  <2>1. \A i \in (1..n) \cup ((n + 1)..Len(starts)) : i \in 1..Len(starts)
    BY <1>1
  <2> QED
    BY <1>3, <1>4, <1>5, <1>6, <2>1
<1>8. Distinct(starts) => ToSet(first) \cap ToSet(rest) = {}
  <2>1. \A i \in 1..n, k \in (n + 1)..Len(starts) :
          i # k /\ i \in 1..Len(starts) /\ k \in 1..Len(starts)
    BY <1>1
  <2> SUFFICES ASSUME Distinct(starts), NEW x \in ToSet(first), x \in ToSet(rest)
               PROVE  FALSE
    OBVIOUS
  <2>2. PICK i \in 1..n : x = starts[i]
    BY <1>3
  <2>3. PICK k \in (n + 1)..Len(starts) : x = starts[k]
    BY <1>4
  <2> QED
    BY <2>1, <2>2, <2>3 DEF Distinct
<1> HIDE DEF first, rest
<1>9. /\ ToSet(granted') = ToSet(resolved) \cup ToSet(first)
      /\ ToSet(waiting') = ToSet(parked) \cup ToSet(rest)
  BY <1>2, <1>3, <1>4, ConcatMembers
<1>10. ASSUME Apart(parked, resolved, others), Distinct(starts),
              ToSet(starts) \cap (ToSet(parked) \cup ToSet(resolved) \cup others) = {}
       PROVE  Apart(waiting', granted', others)
  <2>1. Distinct(resolved \o first)
    BY <1>3, <1>7, <1>10, ConcatMembers DEF Apart
  <2>2. Distinct(parked \o rest)
    BY <1>4, <1>7, <1>10, ConcatMembers DEF Apart
  <2> QED
    BY <1>2, <1>7, <1>8, <1>9, <1>10, <2>1, <2>2 DEF Apart
<1>11. ToSet(waiting') \cup ToSet(granted')
         = ToSet(parked) \cup ToSet(resolved) \cup ToSet(starts)
  BY <1>7, <1>9
<1> QED
  BY <1>10, <1>11

-----------------------------------------------------------------------------
(* One run of one id per group *)

\* What processNext does about it: the runs act are those under way, marks the
\* groups' processedJobIds.
OneRun(act, marks) ==
  \A r \in act : InstanceOf[r.job] = NoRecurring =>
    /\ IdOf[r.job] \in marks[r.group]
    /\ \A q \in act : q.group = r.group /\ IdOf[q.job] = IdOf[r.job] => q = r

PicksPast(act, next) == \A r \in act : r.pick < next[r.group]

\* The groups that find a job are visited once each.
LEMMA TurnMembers ==
  ASSUME NEW js, NEW marks, RegistryTypes', Distinct(groups')
  PROVE  /\ Turn(js, marks) \in Seq(Groups) /\ Distinct(Turn(js, marks))
         /\ ToSet(Turn(js, marks)) = {g \in ToSet(groups') : Candidates(js, marks[g]) # {}}
<1> DEFINE ready == {k \in 1..Len(groups') : Candidates(js, marks[groups'[k]]) # {}}
           turn == Subsequence(groups', ready)
<1>0. Turn(js, marks) = turn
  BY DEF Turn
<1>1. groups' \in Seq(Groups)
  BY DEF RegistryTypes
<1>2. Holds(turn, groups', ready, Len(groups'))
  BY <1>1, SubsequenceHolds
<1> HIDE DEF turn
<1>3. turn \in Seq({groups'[i] : i \in ready})
  <2>1. ready \cap (1..Len(groups')) = ready
    OBVIOUS
  <2> QED
    BY <1>2, <2>1 DEF Holds
<1>4. \A i \in ready : \E k \in 1..Len(turn) : turn[k] = groups'[i]
  BY <1>2 DEF Holds
<1>5. Distinct(turn)
  BY <1>2 DEF Holds, Distinct
<1>6. {groups'[i] : i \in ready} \subseteq Groups
  BY <1>1
<1>7. turn \in Seq(Groups)
  <2> DEFINE T == {groups'[i] : i \in ready}
  <2>1. turn \in Seq(T) /\ T \subseteq Groups
    BY <1>3, <1>6
  <2> HIDE DEF T
  <2> QED
    BY <2>1, SeqMonotonic
<1>8. ToSet(turn) = {groups'[i] : i \in ready}
  <2>1. ToSet(turn) \subseteq {groups'[i] : i \in ready}
    BY <1>3, ToSetMembers
  <2>2. ASSUME NEW i \in ready PROVE groups'[i] \in ToSet(turn)
    BY <1>4, <1>7, ToSetMembers
  <2> QED
    BY <2>1, <2>2
<1>9. {groups'[i] : i \in ready} = {g \in ToSet(groups') : Candidates(js, marks[g]) # {}}
  <2>1. ToSet(groups') = {groups'[i] : i \in 1..Len(groups')}
    BY <1>1 DEF ToSet
  <2> QED
    BY <2>1
<1> QED
  BY <1>0, <1>5, <1>7, <1>8, <1>9

\* A group picks a listed job that it has not marked.
LEMMA CandidateFacts ==
  ASSUME NEW js \in Seq(Jobs), NEW marks, Candidates(js, marks) # {}
  PROVE  /\ FirstCandidate(js, marks) \in ToSet(js) /\ FirstCandidate(js, marks) \in Jobs
         /\ IdOf[FirstCandidate(js, marks)] \notin marks
<1> DEFINE found == Candidates(js, marks)
           n == Min(found)
<1>1. found \in SUBSET Nat /\ \A i \in found : i \in 1..Len(js) /\ IdOf[js[i]] \notin marks
  BY DEF Candidates
<1>2. n \in found
  BY <1>1, MinType
<1>3. FirstCandidate(js, marks) = js[n]
  BY DEF FirstCandidate
<1> HIDE DEF n, found
<1>4. n \in 1..Len(js) /\ IdOf[js[n]] \notin marks
  BY <1>1, <1>2
<1> QED
  BY <1>3, <1>4, ToSetMembers

\* The new runs: one for each group whose turn it is.
LEMMA NewRunsMembers ==
  ASSUME NEW js \in Seq(Jobs), NEW marks \in [Groups -> SUBSET Ids],
         RegistryTypes', Distinct(groups'), nextConsumer \in [Groups -> Nat]
  PROVE  /\ Distinct(NewRuns(js, marks))
         /\ ToSet(NewRuns(js, marks)) = {NewRun(js, marks, g) : g \in ToSet(Turn(js, marks))}
<1> DEFINE turn == Turn(js, marks)
           runs == NewRuns(js, marks)
<1>1. turn \in Seq(Groups) /\ Distinct(turn) /\ Len(turn) \in Nat
  BY TurnMembers
<1>2. runs \in Seq(Run)
  BY NewRunsType
<1>3. runs = [k \in 1..Len(turn) |-> NewRun(js, marks, turn[k])]
  BY DEF NewRuns
<1> HIDE DEF turn, runs
<1>4. Len(runs) = Len(turn) /\ \A k \in 1..Len(turn) : runs[k] = NewRun(js, marks, turn[k])
  BY <1>1, <1>3
<1>5. \A g : NewRun(js, marks, g).group = g
  BY DEF NewRun
<1>6. Distinct(runs)
  <2> SUFFICES ASSUME NEW i \in 1..Len(turn), NEW k \in 1..Len(turn), runs[i] = runs[k]
               PROVE  i = k
    BY <1>4 DEF Distinct
  <2>1. turn[i] = turn[k]
    BY <1>4, <1>5
  <2> QED
    BY <1>1, <2>1 DEF Distinct
<1>7. ToSet(runs) = {runs[k] : k \in 1..Len(runs)} /\ ToSet(turn) = {turn[k] : k \in 1..Len(turn)}
  BY <1>1, <1>2 DEF ToSet
<1>8. ToSet(runs) = {NewRun(js, marks, g) : g \in ToSet(turn)}
  BY <1>4, <1>7
<1> QED
  BY <1>6, <1>8 DEF runs, turn

LEMMA PickKeepsOneRun ==
  ASSUME NEW js \in Seq(Jobs), NEW marks \in [Groups -> SUBSET Ids], NEW free \in Nat,
         NEW parked \in Seq(Run), NEW resolved \in Seq(Run), NEW others \in SUBSET Run, NEW go,
         RegistryTypes', Distinct(groups'), nextConsumer \in [Groups -> Nat],
         Apart(parked, resolved, others),
         OneRun(ToSet(parked) \cup ToSet(resolved) \cup others, marks),
         PicksPast(ToSet(parked) \cup ToSet(resolved) \cup others, nextConsumer),
         ProcessNextIf(go, js, marks, free, parked, resolved)
  PROVE  /\ Apart(waiting', granted', others)
         /\ OneRun(ToSet(waiting') \cup ToSet(granted') \cup others, processed')
         /\ PicksPast(ToSet(waiting') \cup ToSet(granted') \cup others, nextConsumer')
<1> DEFINE old == ToSet(parked) \cup ToSet(resolved) \cup others
<1>1. CASE LeaveQueue(js, marks, free, parked, resolved)
  BY <1>1 DEF LeaveQueue
<1>2. CASE ProcessNext(js, marks, free, parked, resolved)
  <2> DEFINE starting == ToSet(Turn(js, marks))
             runs == NewRuns(js, marks)
             new == ToSet(runs)
  <2>1. /\ processed' = [g \in Groups |->
                          IF g \in starting
                          THEN marks[g] \cup {IdOf[FirstCandidate(js, marks[g])]}
                          ELSE marks[g]]
        /\ nextConsumer' = [g \in Groups |-> nextConsumer[g] + (IF g \in starting THEN 1 ELSE 0)]
        /\ Acquire(runs, free, parked, resolved)
    BY <1>2 DEF ProcessNext
  <2>2. runs \in Seq(Run)
    BY NewRunsType
  <2>3. Distinct(runs) /\ new = {NewRun(js, marks, g) : g \in starting}
    BY NewRunsMembers
  <2>4. \A g \in starting : g \in Groups /\ Candidates(js, marks[g]) # {}
    BY ZenonT(30), TurnMembers, NewRunsType
  <2>5. \A g \in starting : /\ FirstCandidate(js, marks[g]) \in Jobs
                            /\ IdOf[FirstCandidate(js, marks[g])] \notin marks[g]
    BY <2>4, CandidateFacts
  <2> HIDE DEF starting
  <2>6. \A r \in new : /\ r \in Run /\ r.group \in starting /\ r.pick = nextConsumer[r.group]
                       /\ r.job = FirstCandidate(js, marks[r.group])
                       /\ r = NewRun(js, marks, r.group)
    <3>1. \A r \in new : r \in Run
      BY <2>2, ToSetMembers
    <3> QED
      BY <2>3, <3>1 DEF NewRun
  <2> HIDE DEF new, runs
  <2>7. old \subseteq Run
    BY ToSetMembers
  <2>8. new \cap old = {}
    <3>1. \A r \in old : r.pick < nextConsumer[r.group]
      BY DEF PicksPast
    <3>2. \A r \in Run : r.group \in Groups /\ r.pick \in Nat
      BY DEF Run
    <3> QED
      BY <2>6, <2>7, <3>1, <3>2
  <2>9. /\ ToSet(waiting') \cup ToSet(granted') \cup others = old \cup new
        /\ Apart(waiting', granted', others)
    <3>1. /\ ToSet(waiting') \cup ToSet(granted') = ToSet(parked) \cup ToSet(resolved) \cup new
          /\ new \cap (ToSet(parked) \cup ToSet(resolved) \cup others) = {}
               => Apart(waiting', granted', others)
      BY <2>1, <2>2, <2>3, AcquireMembers DEF new
    <3> QED
      BY <3>1, <2>8
  <2>10. PicksPast(old \cup new, nextConsumer')
    <3> SUFFICES ASSUME NEW r \in old \cup new PROVE r.pick < nextConsumer'[r.group]
      BY DEF PicksPast
    <3>1. r \in Run /\ r.group \in Groups /\ r.pick \in Nat /\ nextConsumer[r.group] \in Nat
      BY <2>6, <2>7 DEF Run
    <3>2. CASE r \in old
      BY <3>1, <3>2, <2>1 DEF PicksPast
    <3>3. CASE r \in new
      BY <3>1, <3>3, <2>1, <2>6
    <3> QED
      BY <3>2, <3>3
  <2>11. OneRun(old \cup new, processed')
    <3> SUFFICES ASSUME NEW r \in old \cup new, InstanceOf[r.job] = NoRecurring
                 PROVE  /\ IdOf[r.job] \in processed'[r.group]
                        /\ \A q \in old \cup new :
                             q.group = r.group /\ IdOf[q.job] = IdOf[r.job] => q = r
      BY DEF OneRun
    <3>0. \A q \in old \cup new : q.group \in Groups /\ q.job \in Jobs
      BY <2>6, <2>7 DEF Run
    <3>1. CASE r \in old
      <4>1. /\ IdOf[r.job] \in marks[r.group]
            /\ \A q \in old : q.group = r.group /\ IdOf[q.job] = IdOf[r.job] => q = r
        BY <3>1 DEF OneRun
      <4>2. IdOf[r.job] \in processed'[r.group]
        BY <4>1, <3>0, <2>1
      <4>3. ASSUME NEW q \in new, q.group = r.group, IdOf[q.job] = IdOf[r.job]
            PROVE  FALSE
        BY <4>1, <4>3, <2>5, <2>6
      <4> QED
        BY <4>1, <4>2, <4>3
    <3>2. CASE r \in new
      <4>1. IdOf[r.job] \in processed'[r.group]
        BY <3>0, <3>2, <2>1, <2>6
      <4>2. ASSUME NEW q \in old, q.group = r.group, IdOf[q.job] = IdOf[r.job]
            PROVE  FALSE
        <5>1. InstanceOf[q.job] = NoRecurring
          BY <3>0, <4>2, InstanceAssumption
        <5>2. IdOf[q.job] \in marks[q.group]
          BY <5>1 DEF OneRun
        <5> QED
          BY <5>2, <4>2, <3>2, <2>5, <2>6
      <4>3. ASSUME NEW q \in new, q.group = r.group
            PROVE  q = r
        BY <4>3, <3>2, <2>6
      <4> QED
        BY <4>1, <4>2, <4>3
    <3> QED
      BY <3>1, <3>2
  <2> QED
    BY <2>9, <2>10, <2>11
<1> QED
  BY <1>1, <1>2 DEF ProcessNextIf

\* The inductive invariant. That picks are past their group's counter makes a
\* new run differ from the old ones; that the semaphore holds each run once
\* makes the end of a run remove it from Active.
RunsApart ==
  /\ Distinct(groups)
  /\ Apart(waiting, granted, running)
  /\ OneRun(Active, processed)
  /\ PicksPast(Active, nextConsumer)

\* Only the first consumer of a group appends it to the groups.
LEMMA GroupsStep ==
  ASSUME TypeOK, Distinct(groups), [Next]_vars
  PROVE  Distinct(groups')
<1>1. CASE groups' = groups
  BY <1>1 DEF Distinct
<1>2. ASSUME NEW g \in Groups, NEW m \in RetryLimits, Consume(g, m)
      PROVE  Distinct(groups')
  <2>0. groups \in Seq(Groups) /\ \A i \in 1..Len(groups) : consumers[groups[i]] # << >>
    BY DEF TypeOK, RegistryTypes
  <2>1. CASE consumers[g] = << >>
    <3>1. groups' = Append(groups, g)
      BY <1>2, <2>1 DEF Consume
    <3>2. \A i \in 1..Len(groups) : groups[i] # g
      BY <2>0, <2>1
    <3> QED
      BY <2>0, <3>1, <3>2 DEF Distinct
  <2>2. CASE consumers[g] # << >>
    BY <1>1, <1>2, <2>2 DEF Consume
  <2> QED
    BY <2>1, <2>2
<1>3. CASE Call
  BY <1>1, <1>2, <1>3 DEF Call, Enqueue, ScheduleInterval, ScheduleCron, CancelRecurring,
                          DropInstances, Stop, registryVars
<1>4. CASE Timer
  BY <1>1, <1>4 DEF Timer, BecomeDue, StartTimer, RetryTimer, Heartbeat, RecurringTimer, StopPoll,
                    registryVars
<1>5. CASE Work
  BY <1>1, <1>5 DEF Work, Begin, HandlerEnds, HandlerSucceeds, HandlerRetries, HandlerExhausts,
                    registryVars
<1>6. CASE UNCHANGED vars
  BY <1>1, <1>6 DEF vars, registryVars
<1> QED
  BY <1>3, <1>4, <1>5, <1>6 DEF Next

\* Purging the instances of a recurring job unmarks no job of another kind.
LEMMA PurgeKeepsOneRun ==
  ASSUME TypeOK, NEW r \in Recurring, NEW act \in SUBSET Run, OneRun(act, processed)
  PROVE  OneRun(act, MarksWithoutInstances(r))
<1> SUFFICES ASSUME NEW q \in act, InstanceOf[q.job] = NoRecurring
             PROVE  IdOf[q.job] \in MarksWithoutInstances(r)[q.group]
  BY DEF OneRun
<1>1. q.group \in Groups /\ q.job \in Jobs /\ IdOf[q.job] \in processed[q.group]
  BY DEF OneRun, Run
<1>2. ASSUME NEW i \in InstancesListed(r), IdOf[jobs[i]] = IdOf[q.job]
      PROVE  FALSE
  <2>1. jobs[i] \in Jobs /\ InstanceOf[jobs[i]] = r
    BY DEF InstancesListed, TypeOK, PickTypes
  <2> QED
    BY <1>1, <1>2, <2>1, InstanceAssumption
<1> QED
  BY <1>1, <1>2 DEF MarksWithoutInstances

\* A trigger of processNext, on given lists and marks, while no run ends.
LEMMA TriggerKeepsOneRun ==
  ASSUME TypeOK, RegistryTypes', Distinct(groups'), running' = running, RunsApart, NEW go,
         NEW js \in Seq(Jobs), NEW marks \in [Groups -> SUBSET Ids], OneRun(Active, marks),
         ProcessNextIf(go, js, marks, permits, waiting, granted)
  PROVE  RunsApart'
<1>1. /\ permits \in Nat /\ waiting \in Seq(Run) /\ granted \in Seq(Run)
      /\ running \in SUBSET Run /\ nextConsumer \in [Groups -> Nat]
  BY DEF TypeOK, PickTypes
<1>2. /\ Apart(waiting', granted', running)
      /\ OneRun(ToSet(waiting') \cup ToSet(granted') \cup running, processed')
      /\ PicksPast(ToSet(waiting') \cup ToSet(granted') \cup running, nextConsumer')
  BY <1>1, PickKeepsOneRun DEF RunsApart, Active
<1> QED
  BY <1>2 DEF RunsApart, Active

LEMMA ActiveTypes ==
  ASSUME TypeOK
  PROVE  Active \subseteq Run
BY ToSetMembers DEF TypeOK, PickTypes, Active

LEMMA EnqueueKeepsOneRun ==
  ASSUME TypeOK, RegistryTypes', Distinct(groups'), running' = running, RunsApart,
         NEW js \in Seq(Jobs), NEW marks \in [Groups -> SUBSET Ids], OneRun(Active, marks),
         NEW j \in Jobs, EnqueueOn(js, marks, j)
  PROVE  RunsApart'
<1> DEFINE accepts == /\ Len(js) < MaxQueueSize
                      /\ \A i \in 1..Len(js) : IdOf[js[i]] # IdOf[j]
           list == IF accepts THEN Insert(js, j) ELSE js
<1>1. list \in Seq(Jobs)
  BY InsertType
<1>2. ProcessNextIf(accepts /\ j \notin Delayed /\ ~stopped, list, marks, permits, waiting, granted)
  BY DEF EnqueueOn
<1> HIDE DEF list, accepts
<1> QED
  BY <1>1, <1>2, TriggerKeepsOneRun

\* The end of a run: it leaves Active, and what its group then unmarks is its own id.
LEMMA FinishKeepsOneRun ==
  ASSUME TypeOK, RegistryTypes', Distinct(groups'), RunsApart, NEW r \in running, NEW again,
         NEW js \in Seq(Jobs), NEW marks \in [Groups -> SUBSET Ids],
         marks \in {processed, [processed EXCEPT ![r.group] = @ \ {IdOf[r.job]}]},
         Finish(r, again, js, marks)
  PROVE  RunsApart'
<1> DEFINE left == Active \ {r}
<1>0. /\ permits \in Nat /\ waiting \in Seq(Run) /\ granted \in Seq(Run)
      /\ running \in SUBSET Run /\ nextConsumer \in [Groups -> Nat]
      /\ processed \in [Groups -> SUBSET Ids]
  BY DEF TypeOK, PickTypes
<1>1. running' = running \ {r}
  BY DEF Finish
<1>2. /\ Apart(waiting, granted, running) /\ r \notin ToSet(waiting) /\ r \notin ToSet(granted)
  BY DEF RunsApart, Apart
<1>3. left = ToSet(waiting) \cup ToSet(granted) \cup running'
  BY <1>1, <1>2 DEF Active
<1>4. PicksPast(left, nextConsumer)
  BY DEF RunsApart, PicksPast
<1>5. OneRun(left, marks)
  <2> SUFFICES ASSUME NEW q \in left, InstanceOf[q.job] = NoRecurring
               PROVE  IdOf[q.job] \in marks[q.group]
    BY DEF OneRun, RunsApart
  <2>1. /\ q \in Active /\ q # r /\ r \in Active
        /\ IdOf[q.job] \in processed[q.group]
        /\ r.group = q.group /\ IdOf[r.job] = IdOf[q.job] => r = q
    BY DEF OneRun, RunsApart, Active
  <2>2. q.group \in Groups /\ r.group \in Groups
    BY <2>1, ActiveTypes DEF Run
  <2> QED
    BY <1>0, <2>1, <2>2
<1> HIDE DEF left
<1>6. CASE waiting = << >>
  <2>1. ProcessNextIf(again, js, marks, permits + 1, waiting, granted)
    BY <1>6 DEF Finish
  <2>2. Apart(waiting, granted, running')
    BY <1>1, <1>2 DEF Apart
  <2>3. /\ Apart(waiting', granted', running')
        /\ OneRun(ToSet(waiting') \cup ToSet(granted') \cup running', processed')
        /\ PicksPast(ToSet(waiting') \cup ToSet(granted') \cup running', nextConsumer')
    <3>1. permits + 1 \in Nat /\ running' \in SUBSET Run
      BY <1>0, <1>1
    <3>2. /\ OneRun(ToSet(waiting) \cup ToSet(granted) \cup running', marks)
          /\ PicksPast(ToSet(waiting) \cup ToSet(granted) \cup running', nextConsumer)
      BY <1>3, <1>4, <1>5
    <3> QED
      BY <1>0, <2>1, <2>2, <3>1, <3>2, PickKeepsOneRun
  <2> QED
    BY <2>3 DEF RunsApart, Active
<1>7. CASE waiting # << >>
  <2> DEFINE parked == Tail(waiting)
             woken == Append(granted, Head(waiting))
  <2>1. ProcessNextIf(again, js, marks, permits, parked, woken)
    BY <1>7 DEF Finish
  <2>2. /\ parked \in Seq(Run) /\ Head(waiting) \in Run
        /\ ToSet(parked) = ToSet(waiting) \ {Head(waiting)} /\ Distinct(parked)
        /\ Head(waiting) \in ToSet(waiting)
    BY <1>0, <1>2, <1>7, TailMembers, HeadTailProperties DEF Apart
  <2>3. /\ woken \in Seq(Run) /\ Distinct(woken)
        /\ ToSet(woken) = ToSet(granted) \cup {Head(waiting)}
    <3> DEFINE one == <<Head(waiting)>>
    <3>1. woken = granted \o one /\ one \in Seq(Run) /\ woken \in Seq(Run)
      BY <1>0, <2>2, AppendIsConcat
    <3>2. ToSet(one) = {Head(waiting)} /\ Distinct(one)
      BY DEF ToSet, Distinct
    <3>3. Distinct(granted) /\ Head(waiting) \notin ToSet(granted)
      BY <1>2, <2>2 DEF Apart
    <3> HIDE DEF woken, one
    <3>4. ToSet(granted) \cap ToSet(one) = {}
      BY <3>2, <3>3
    <3>5. ToSet(granted \o one) = ToSet(granted) \cup ToSet(one) /\ Distinct(granted \o one)
      BY <1>0, <3>1, <3>2, <3>3, <3>4, ConcatMembers
    <3> QED
      BY <3>1, <3>2, <3>5
  <2> HIDE DEF parked, woken
  <2>4. Apart(parked, woken, running')
    BY <1>1, <1>2, <2>2, <2>3 DEF Apart
  <2>5. ToSet(parked) \cup ToSet(woken) \cup running' = left
    BY <1>3, <2>2, <2>3
  <2>6. /\ Apart(waiting', granted', running')
        /\ OneRun(ToSet(waiting') \cup ToSet(granted') \cup running', processed')
        /\ PicksPast(ToSet(waiting') \cup ToSet(granted') \cup running', nextConsumer')
    <3>1. running' \in SUBSET Run
      BY <1>0, <1>1
    <3>2. /\ OneRun(ToSet(parked) \cup ToSet(woken) \cup running', marks)
          /\ PicksPast(ToSet(parked) \cup ToSet(woken) \cup running', nextConsumer)
      BY <1>4, <1>5, <2>5
    <3> QED
      BY <1>0, <2>1, <2>2, <2>3, <2>4, <3>1, <3>2, PickKeepsOneRun
  <2> QED
    BY <2>6 DEF RunsApart, Active
<1> QED
  BY <1>6, <1>7

LEMMA RunsApartStep ==
  ASSUME TypeOK, RunsApart, [Next]_vars
  PROVE  RunsApart'
<1>0. /\ TypeOK' /\ RegistryTypes' /\ Distinct(groups')
      /\ jobs \in Seq(Jobs) /\ processed \in [Groups -> SUBSET Ids]
      /\ OneRun(Active, processed) /\ Active \subseteq Run
  BY StepEffect, GroupsStep, ActiveTypes DEF RunsApart, TypeOK, PickTypes
<1>1. ASSUME NEW j \in Jobs, Enqueue(j) PROVE RunsApart'
  BY <1>0, <1>1, EnqueueKeepsOneRun DEF Enqueue
<1>2. ASSUME NEW g \in Groups, NEW m \in RetryLimits, Consume(g, m) PROVE RunsApart'
  BY <1>0, <1>2, TriggerKeepsOneRun DEF Consume
<1>3. ASSUME NEW r \in Recurring, NEW j \in Jobs, ScheduleInterval(r, j) PROVE RunsApart'
  <2>1. /\ WithoutInstances(r) \in Seq(Jobs)
        /\ MarksWithoutInstances(r) \in [Groups -> SUBSET Ids]
        /\ OneRun(Active, MarksWithoutInstances(r))
    BY <1>0, PurgeType, PurgeKeepsOneRun
  <2>2. running' = running
    BY <1>3 DEF ScheduleInterval
  <2>5. \/ EnqueueOn(jobs, processed, j)
        \/ EnqueueOn(WithoutInstances(r), MarksWithoutInstances(r), j)
    BY <1>3 DEF ScheduleInterval
  <2>3. CASE EnqueueOn(jobs, processed, j)
    BY <1>0, <2>2, <2>3, EnqueueKeepsOneRun
  <2>4. CASE EnqueueOn(WithoutInstances(r), MarksWithoutInstances(r), j)
    BY <1>0, <2>1, <2>2, <2>4, EnqueueKeepsOneRun
  <2> QED
    BY <2>3, <2>4, <2>5
<1>4. ASSUME waiting' = waiting, granted' = granted, running' = running,
             nextConsumer' = nextConsumer, OneRun(Active, processed')
      PROVE  RunsApart'
  BY <1>0, <1>4 DEF RunsApart, Active
<1>5. ASSUME NEW r \in Recurring, DropInstances(r) PROVE RunsApart'
  <2>1. OneRun(Active, MarksWithoutInstances(r))
    BY <1>0, PurgeKeepsOneRun
  <2> QED
    BY <1>4, <1>5, <2>1 DEF DropInstances, semaphoreVars
<1>6. ASSUME NEW r \in Recurring, ScheduleCron(r) \/ CancelRecurring(r) PROVE RunsApart'
  BY <1>0, <1>4, <1>5, <1>6 DEF ScheduleCron, CancelRecurring, pickVars, semaphoreVars
<1>7. CASE Stop \/ StopPoll \/ \E j \in Jobs : BecomeDue(j)
  BY <1>0, <1>4, <1>7 DEF Stop, StopPoll, BecomeDue, pickVars, semaphoreVars
<1>8. ASSUME NEW j \in Jobs, StartTimer(j) PROVE RunsApart'
  BY <1>0, <1>8, TriggerKeepsOneRun DEF StartTimer
<1>9. ASSUME NEW r \in backoff, RetryTimer(r) PROVE RunsApart'
  BY <1>0, <1>9, TriggerKeepsOneRun DEF RetryTimer
<1>10. CASE Heartbeat
  BY <1>0, <1>10, TriggerKeepsOneRun DEF Heartbeat
<1>11. ASSUME NEW r \in Recurring, NEW j \in Jobs, RecurringTimer(r, j) PROVE RunsApart'
  BY <1>0, <1>11, EnqueueKeepsOneRun DEF RecurringTimer
<1>12. ASSUME NEW i \in 1..Len(granted), Begin(i) PROVE RunsApart'
  <2>1. granted \in Seq(Run) /\ Distinct(granted) /\ granted[i] \in ToSet(granted)
    BY ToSetMembers DEF TypeOK, PickTypes, RunsApart, Apart
  <2>2. ToSet(granted') = ToSet(granted) \ {granted[i]} /\ Distinct(granted')
    BY <1>12, <2>1, RemoveAtMembers DEF Begin
  <2>3. /\ running' = running \cup {granted[i]}
        /\ UNCHANGED <<waiting, processed, nextConsumer>>
    BY <1>12 DEF Begin
  <2>4. Apart(waiting', granted', running')
    BY <2>1, <2>2, <2>3 DEF RunsApart, Apart
  <2>5. Active' = Active
    BY <2>1, <2>2, <2>3 DEF Active
  <2> QED
    BY <1>0, <2>3, <2>4, <2>5 DEF RunsApart
<1>13. ASSUME NEW r \in running, HandlerEnds(r) PROVE RunsApart'
  <2>1. CASE HandlerSucceeds(r) \/ HandlerExhausts(r)
    <3>1. \E again : Finish(r, again, jobs, processed)
      BY <2>1 DEF HandlerSucceeds, HandlerExhausts
    <3> QED
      BY <1>0, <3>1, FinishKeepsOneRun
  <2>2. CASE HandlerRetries(r)
    <3> DEFINE marks == [processed EXCEPT ![r.group] = @ \ {IdOf[r.job]}]
    <3>1. r \in Run /\ r.job \in Jobs /\ r.group \in Groups
      BY DEF TypeOK, Run
    <3>2. Insert(jobs, r.job) \in Seq(Jobs) /\ marks \in [Groups -> SUBSET Ids]
      BY <1>0, <3>1, InsertType
    <3>3. Finish(r, FALSE, Insert(jobs, r.job), marks)
      BY <2>2 DEF HandlerRetries
    <3> QED
      BY <1>0, <3>2, <3>3, FinishKeepsOneRun
  <2> QED
    BY <1>13, <2>1, <2>2 DEF HandlerEnds
<1>14. CASE UNCHANGED vars
  BY <1>0, <1>4, <1>14 DEF vars, pickVars, semaphoreVars
<1> QED
  BY <1>1, <1>2, <1>3, <1>6, <1>7, <1>8, <1>9, <1>10, <1>11, <1>12, <1>13, <1>14
     DEF Next, Call, Timer, Work

\* However runs are parked, resumed, retried and purged, no group ever has two
\* runs of one id under way (instances of recurring jobs excepted).
THEOREM OneRunPerGroupCorrect == Spec => []OneRunPerGroup
<1>1. Init => RunsApart
  <2>1. ToSet(<< >>) = {}
    BY DEF ToSet
  <2> QED
    BY <2>1 DEF Init, RunsApart, Distinct, Apart, OneRun, PicksPast, Active
<1>2. TypeOK /\ RunsApart /\ [Next]_vars => RunsApart'
  BY RunsApartStep
<1>3. RunsApart => OneRunPerGroup
  BY DEF RunsApart, OneRun, OneRunPerGroup
<1> QED
  BY <1>1, <1>2, <1>3, TypeCorrect, PTL DEF Spec

-----------------------------------------------------------------------------
(* What one group sees of one job *)

\* StateOf on given values of the list, the marks, the runs under way and the groups.
Sight(js, marks, act, gs, g, j) ==
  IF \E r \in act : r.group = g /\ r.job = j THEN "taken"
  ELSE IF IdOf[j] \in marks[g] THEN "finished"
  ELSE IF j \in ToSet(js) /\ g \in ToSet(gs) THEN "offered" ELSE "unknown"

LEMMA SightIsState ==
  ASSUME NEW g, NEW j
  PROVE  StateOf(g, j) = Sight(jobs, processed, Active, groups, g, j)
BY DEF StateOf, Sight

\* Each job has an id of its own, and none is an instance of a recurring job.
OwnJobs ==
  /\ \A j, k \in Jobs : IdOf[j] = IdOf[k] => j = k
  /\ \A j \in Jobs : InstanceOf[j] = NoRecurring

LEMMA InsertMembers ==
  ASSUME NEW js \in Seq(Jobs), NEW j \in Jobs
  PROVE  ToSet(Insert(js, j)) = ToSet(js) \cup {j}
<1> DEFINE lower == {i \in 1..Len(js) : Prio[js[i]] < Prio[j]}
           one == <<j>>
<1>0. one \in Seq(Jobs) /\ ToSet(one) = {j}
  BY DEF ToSet
<1> HIDE DEF one
<1>1. CASE lower = {}
  <2>1. Insert(js, j) = js \o one
    BY <1>1, AppendIsConcat DEF Insert, one
  <2> QED
    BY <1>0, <2>1, ConcatMembers
<1>2. CASE lower # {}
  <2> DEFINE n == Min(lower)
             before == SubSeq(js, 1, n - 1)
             after == SubSeq(js, n, Len(js))
  <2>1. n \in 1..Len(js)
    <3>1. lower \in SUBSET Nat
      OBVIOUS
    <3>2. Min(lower) \in lower
      BY <3>1, <1>2, MinType
    <3> QED
      BY <3>2
  <2>2. Insert(js, j) = before \o one \o after
    BY <1>2 DEF Insert, InsertAt, one
  <2> HIDE DEF n
  <2>3. n - 1 \in 0..Len(js) /\ n \in 1..(Len(js) + 1) /\ Len(js) \in 0..Len(js) /\ 1 \in 1..(Len(js) + 1)
    BY <2>1
  <2>4. before \in Seq(Jobs) /\ ToSet(before) = {js[i] : i \in 1..(n - 1)}
    BY <2>3, StretchMembers
  <2>5. after \in Seq(Jobs) /\ ToSet(after) = {js[i] : i \in n..Len(js)}
    BY <2>3, StretchMembers
  <2>6. ToSet(js) = {js[i] : i \in 1..Len(js)}
    BY DEF ToSet
  <2>7. \A i : i \in 1..Len(js) <=> i \in 1..(n - 1) \/ i \in n..Len(js)
    BY <2>1
  <2>8. ToSet(before) \cup ToSet(after) = ToSet(js)
    BY <2>4, <2>5, <2>6, <2>7
  <2> HIDE DEF before, after
  <2>9. before \o one \in Seq(Jobs) /\ ToSet(before \o one) = ToSet(before) \cup {j}
    BY <1>0, <2>4, ConcatMembers, ConcatProperties
  <2> DEFINE upTo == before \o one
  <2>10. upTo \in Seq(Jobs) /\ ToSet(upTo) = ToSet(before) \cup {j} /\ Insert(js, j) = upTo \o after
    BY <2>2, <2>9
  <2> HIDE DEF upTo
  <2>11. ToSet(upTo \o after) = ToSet(upTo) \cup ToSet(after)
    BY <2>5, <2>10, ConcatMembers
  <2> QED
    BY <2>8, <2>10, <2>11
<1> QED
  BY <1>1, <1>2

\* Filtering a list of jobs keeps those at a position kept.
LEMMA FilterMembers ==
  ASSUME NEW js \in Seq(Jobs), NEW positions
  PROVE  ToSet(Subsequence(js, positions)) = {js[i] : i \in positions \cap (1..Len(js))}
<1> DEFINE T == {js[i] : i \in positions \cap (1..Len(js))}
           u == Subsequence(js, positions)
<1>1. u \in Seq(T) /\ \A i \in positions \cap (1..Len(js)) : \E k \in 1..Len(u) : u[k] = js[i]
  BY SubsequenceHolds DEF Holds
<1> HIDE DEF u
<1>2. ToSet(u) \subseteq T
  BY <1>1, ToSetMembers
<1>3. ASSUME NEW i \in positions \cap (1..Len(js)) PROVE js[i] \in ToSet(u)
  BY <1>1, ToSetMembers
<1> QED
  BY <1>2, <1>3 DEF u

PickStep(before, after) == after = before \/ (before = "offered" /\ after = "taken")

\* A call of processNext offers nothing and takes nothing back: for each group and
\* job it either changes nothing or takes a job that was offered.
LEMMA PickDelivers ==
  ASSUME OwnJobs,
         NEW js \in Seq(Jobs), NEW marks \in [Groups -> SUBSET Ids], NEW free \in Nat,
         NEW parked \in Seq(Run), NEW resolved \in Seq(Run), NEW go,
         RegistryTypes', Distinct(groups'), nextConsumer \in [Groups -> Nat],
         NEW old, old = ToSet(parked) \cup ToSet(resolved) \cup running', running' \subseteq Run,
         OneRun(old, marks), \A r \in old : r.group \in ToSet(groups'),
         ProcessNextIf(go, js, marks, free, parked, resolved)
  PROVE  /\ \A r \in Active' : r.group \in ToSet(groups')
         /\ \A g \in Groups, j \in Jobs :
              PickStep(Sight(js, marks, old, groups', g, j),
                       Sight(jobs', processed', Active', groups', g, j))
<1> DEFINE before(g, j) == Sight(js, marks, old, groups', g, j)
           after(g, j) == Sight(jobs', processed', Active', groups', g, j)
<1>1. CASE LeaveQueue(js, marks, free, parked, resolved)
  BY <1>1 DEF LeaveQueue, PickStep, Active
<1>2. CASE ProcessNext(js, marks, free, parked, resolved)
  <2> DEFINE starting == ToSet(Turn(js, marks))
             runs == NewRuns(js, marks)
             new == ToSet(runs)
             pick(g) == FirstCandidate(js, marks[g])
             marked == [g \in Groups |-> IF g \in starting THEN marks[g] \cup {IdOf[pick(g)]}
                                         ELSE marks[g]]
  <2>1. /\ processed' = marked
        /\ jobs' = Subsequence(js, Unfinished(js, marked))
        /\ Acquire(runs, free, parked, resolved)
    BY <1>2 DEF ProcessNext
  <2>2. runs \in Seq(Run)
    BY NewRunsType
  <2>3. new = {NewRun(js, marks, g) : g \in starting}
    BY NewRunsMembers
  <2>4. \A g \in starting : /\ g \in Groups /\ g \in ToSet(groups') /\ Candidates(js, marks[g]) # {}
    <3>1. \A g \in starting : g \in ToSet(groups') /\ Candidates(js, marks[g]) # {}
      BY TurnMembers
    <3>2. \A g \in starting : g \in Groups
      BY NewRunsType
    <3> QED
      BY <3>1, <3>2
  <2>5. \A g \in starting : /\ pick(g) \in Jobs /\ pick(g) \in ToSet(js)
                            /\ IdOf[pick(g)] \notin marks[g]
    BY <2>4, CandidateFacts
  <2>6. Active' = old \cup new
    <3>1. ToSet(waiting') \cup ToSet(granted') = ToSet(parked) \cup ToSet(resolved) \cup new
      BY <2>1, <2>2, AcquireMembers
    <3> QED
      BY <3>1 DEF Active
  <2> HIDE DEF starting
  <2>7. \A g : NewRun(js, marks, g).group = g /\ NewRun(js, marks, g).job = pick(g)
    BY DEF NewRun
  <2>8. ToSet(jobs') = {js[i] : i \in Unfinished(js, marked) \cap (1..Len(js))}
    BY <2>1, FilterMembers
  <2>9. ToSet(jobs') \subseteq ToSet(js)
    <3>1. \A i \in 1..Len(js) : js[i] \in ToSet(js)
      BY ToSetMembers
    <3> QED
      BY <2>8, <3>1
  <2> HIDE DEF new, runs, marked, pick
  <2>10. \A r \in Active' : r.group \in ToSet(groups')
    BY <2>3, <2>4, <2>6, <2>7
  <2>11. ASSUME NEW g \in Groups, NEW j \in Jobs, IdOf[j] \notin marked[g],
                g \in ToSet(groups'), j \in ToSet(js)
         PROVE  j \in ToSet(jobs')
    <3>1. PICK i \in 1..Len(js) : j = js[i]
      BY <2>11, ToSetMembers
    <3>2. groups' \in Seq(Groups)
      BY DEF RegistryTypes
    <3>3. PICK k \in 1..Len(groups') : g = groups'[k]
      BY <2>11, <3>2, ToSetMembers
    <3>4. i \in Unfinished(js, marked)
      BY <2>11, <3>1, <3>3 DEF Unfinished
    <3> QED
      BY <2>8, <3>1, <3>4
  <2>12. ASSUME NEW g \in Groups, NEW j \in Jobs, g \in starting, j = pick(g)
         PROVE  before(g, j) = "offered" /\ after(g, j) = "taken"
    <3>1. NewRun(js, marks, g) \in Active'
      BY <2>3, <2>6, <2>12
    <3>2. after(g, j) = "taken"
      BY <2>7, <2>12, <3>1 DEF Sight
    <3>3. ~ \E r \in old : r.group = g /\ r.job = j
      BY <2>5, <2>12 DEF OneRun, OwnJobs
    <3>4. IdOf[j] \notin marks[g] /\ j \in ToSet(js) /\ g \in ToSet(groups')
      BY <2>4, <2>5, <2>12
    <3> QED
      BY <3>2, <3>3, <3>4 DEF Sight
  <2>13. ASSUME NEW g \in Groups, NEW j \in Jobs, ~(g \in starting /\ j = pick(g))
         PROVE  after(g, j) = before(g, j)
    <3>1. (\E r \in Active' : r.group = g /\ r.job = j) <=> (\E r \in old : r.group = g /\ r.job = j)
      BY <2>3, <2>6, <2>7, <2>13
    <3>2. IdOf[j] \in marked[g] <=> IdOf[j] \in marks[g]
      BY <2>5, <2>13 DEF marked, OwnJobs
    <3>3. CASE IdOf[j] \in marked[g]
      BY <2>1, <3>1, <3>2, <3>3 DEF Sight
    <3>4. CASE IdOf[j] \notin marked[g]
      <4>1. g \in ToSet(groups') => (j \in ToSet(jobs') <=> j \in ToSet(js))
        BY <2>9, <2>11, <3>4
      <4> QED
        BY <2>1, <3>1, <3>2, <3>4, <4>1 DEF Sight
    <3> QED
      BY <3>3, <3>4
  <2> QED
    BY <2>10, <2>12, <2>13 DEF PickStep
<1> QED
  BY <1>1, <1>2 DEF ProcessNextIf

-----------------------------------------------------------------------------
(* The refinement *)

GroupsKnown == \A r \in Active : r.group \in ToSet(groups)

\* What a step of the queue does to what a group sees of a job: nothing, or one
\* of the transitions of GroupDelivery.
SightStep(before, after) ==
  \/ after = before
  \/ before = "unknown" /\ after = "offered"
  \/ before \in {"unknown", "offered"} /\ after = "taken"
  \/ before = "taken" /\ after \in {"offered", "finished"}

Seen(g, j) == Sight(jobs, processed, Active, groups, g, j)

SeenStep == \A g \in Groups, j \in Jobs : SightStep(Seen(g, j), Seen(g, j)')

\* A trigger of processNext while no run ends: whatever the action changed before
\* it may make a job offered, and nothing else.
LEMMA TriggerDelivers ==
  ASSUME OwnJobs, TypeOK, RunsApart, GroupsKnown, RegistryTypes', Distinct(groups'),
         ToSet(groups) \subseteq ToSet(groups'), running' = running, NEW go,
         NEW js \in Seq(Jobs), ToSet(jobs) \subseteq ToSet(js),
         ProcessNextIf(go, js, processed, permits, waiting, granted)
  PROVE  GroupsKnown' /\ SeenStep
<1>1. /\ permits \in Nat /\ waiting \in Seq(Run) /\ granted \in Seq(Run)
      /\ running \in SUBSET Run /\ nextConsumer \in [Groups -> Nat]
      /\ processed \in [Groups -> SUBSET Ids]
  BY DEF TypeOK, PickTypes
<1>2. OneRun(Active, processed) /\ \A r \in Active : r.group \in ToSet(groups')
  BY DEF RunsApart, GroupsKnown
<1> DEFINE between(g, j) == Sight(js, processed, Active, groups', g, j)
<1>3. Active' = ToSet(waiting') \cup ToSet(granted') \cup running
  BY DEF Active
<1>4. /\ \A r \in Active' : r.group \in ToSet(groups')
      /\ \A g \in Groups, j \in Jobs :
           PickStep(between(g, j), Sight(jobs', processed', Active', groups', g, j))
  <2>1. Active = ToSet(waiting) \cup ToSet(granted) \cup running' /\ running' \subseteq Run
    BY <1>1 DEF Active
  <2> QED
    BY <1>1, <1>2, <2>1, PickDelivers
<1>5. \A g \in Groups, j \in Jobs :
        \/ between(g, j) = Seen(g, j)
        \/ Seen(g, j) = "unknown" /\ between(g, j) = "offered"
  BY DEF Sight, Seen
<1> QED
  BY <1>4, <1>5 DEF GroupsKnown, SeenStep, SightStep, Seen, PickStep

\* The end of a run: its group has finished the job, or is offered it again.
LEMMA FinishDelivers ==
  ASSUME OwnJobs, TypeOK, RunsApart, GroupsKnown, RegistryTypes', groups' = groups,
         NEW r \in running, NEW again, NEW js \in Seq(Jobs), NEW marks \in [Groups -> SUBSET Ids],
         \/ js = jobs /\ marks = processed
         \/ js = Insert(jobs, r.job) /\ marks = [processed EXCEPT ![r.group] = @ \ {IdOf[r.job]}],
         Finish(r, again, js, marks)
  PROVE  GroupsKnown' /\ SeenStep
<1> DEFINE left == Active \ {r}
           between(g, j) == Sight(js, marks, left, groups, g, j)
<1>0. /\ permits \in Nat /\ waiting \in Seq(Run) /\ granted \in Seq(Run)
      /\ running \in SUBSET Run /\ nextConsumer \in [Groups -> Nat]
      /\ processed \in [Groups -> SUBSET Ids] /\ jobs \in Seq(Jobs) /\ Distinct(groups')
  BY DEF TypeOK, PickTypes, RunsApart
<1>1. running' = running \ {r} /\ r \in Active /\ Active \subseteq Run
  BY ActiveTypes DEF Finish, Active
<1>2. /\ Apart(waiting, granted, running) /\ r \notin ToSet(waiting) /\ r \notin ToSet(granted)
  BY DEF RunsApart, Apart
<1>3. left = ToSet(waiting) \cup ToSet(granted) \cup running'
  BY <1>1, <1>2 DEF Active
<1>4. \A q \in Active : /\ IdOf[q.job] \in processed[q.group]
                        /\ q.group = r.group /\ q.job = r.job => q = r
  <2>1. \A q \in Active : q.job \in Jobs
    BY <1>1 DEF Run
  <2> QED
    BY <1>1, <2>1 DEF RunsApart, OneRun, OwnJobs
<1>5. r.group \in Groups /\ r.job \in Jobs /\ r.group \in ToSet(groups)
  BY <1>1 DEF Run, GroupsKnown
<1>6. OneRun(left, marks)
  <2> SUFFICES ASSUME NEW q \in left
               PROVE  IdOf[q.job] \in marks[q.group]
    BY DEF OneRun, RunsApart
  <2>1. q \in Active /\ q # r /\ q.group \in Groups /\ q.job \in Jobs
    BY <1>1 DEF Run
  <2>2. IdOf[q.job] \in processed[q.group] /\ ~(q.group = r.group /\ q.job = r.job)
    BY <1>4, <2>1
  <2> QED
    BY <1>0, <1>5, <2>1, <2>2 DEF OwnJobs
<1>7. \A q \in left : q.group \in ToSet(groups')
  BY DEF GroupsKnown
<1>8. ASSUME NEW g \in Groups, NEW j \in Jobs
      PROVE  SightStep(Seen(g, j), between(g, j)) /\ (Seen(g, j) = "unknown" => between(g, j) # "taken")
  <2>1. CASE g = r.group /\ j = r.job
    <3>1. Seen(g, j) = "taken"
      BY <1>1, <2>1 DEF Seen, Sight
    <3>2. ~ \E q \in left : q.group = g /\ q.job = j
      BY <1>4, <2>1
    <3>3. CASE js = jobs /\ marks = processed
      BY <1>1, <1>4, <2>1, <3>1, <3>2, <3>3 DEF Sight, SightStep
    <3>4. CASE js = Insert(jobs, r.job) /\ marks = [processed EXCEPT ![r.group] = @ \ {IdOf[r.job]}]
      <4>1. j \in ToSet(js) /\ g \in ToSet(groups) /\ IdOf[j] \notin marks[g]
        BY <1>0, <1>5, <2>1, <3>4, InsertMembers
      <4> QED
        BY <3>1, <3>2, <4>1 DEF Sight, SightStep
    <3> QED
      BY <3>3, <3>4
  <2>2. CASE ~(g = r.group /\ j = r.job)
    <3>1. (\E q \in left : q.group = g /\ q.job = j) <=> (\E q \in Active : q.group = g /\ q.job = j)
      BY <2>2
    <3>2. IdOf[j] \in marks[g] <=> IdOf[j] \in processed[g]
      BY <1>0, <1>5, <2>2 DEF OwnJobs
    <3>3. ToSet(jobs) \subseteq ToSet(js)
      BY <1>0, <1>5, InsertMembers
    <3> QED
      BY <3>1, <3>2, <3>3 DEF Sight, SightStep, Seen
  <2> QED
    BY <2>1, <2>2
<1> HIDE DEF left
<1>9. ASSUME NEW go, NEW free \in Nat, NEW parked \in Seq(Run), NEW resolved \in Seq(Run),
             ToSet(parked) \cup ToSet(resolved) \cup running' = left,
             ProcessNextIf(go, js, marks, free, parked, resolved)
      PROVE  GroupsKnown' /\ SeenStep
  <2>1. Active' = ToSet(waiting') \cup ToSet(granted') \cup running'
    BY DEF Active
  <2>2. /\ \A q \in Active' : q.group \in ToSet(groups')
        /\ \A g \in Groups, j \in Jobs :
             PickStep(Sight(js, marks, left, groups', g, j),
                      Sight(jobs', processed', Active', groups', g, j))
    <3>1. running' \in SUBSET Run
      BY <1>0, <1>1
    <3> QED
      BY <1>0, <1>6, <1>7, <1>9, <2>1, <3>1, PickDelivers
  <2>3. \A g \in Groups, j \in Jobs :
          Seen(g, j)' = between(g, j) \/ (between(g, j) = "offered" /\ Seen(g, j)' = "taken")
    BY <2>2 DEF Seen, PickStep
  <2>4. SeenStep
    BY <1>8, <2>3 DEF SeenStep, SightStep
  <2> QED
    BY <2>2, <2>4 DEF GroupsKnown
<1>10. CASE waiting = << >>
  <2>1. ProcessNextIf(again, js, marks, permits + 1, waiting, granted)
    BY <1>10 DEF Finish
  <2>2. permits + 1 \in Nat
    BY <1>0
  <2> QED
    BY <1>0, <1>3, <1>9, <2>1, <2>2
<1>11. CASE waiting # << >>
  <2> DEFINE parked == Tail(waiting)
             woken == Append(granted, Head(waiting))
             one == <<Head(waiting)>>
  <2>1. ProcessNextIf(again, js, marks, permits, parked, woken)
    BY <1>11 DEF Finish
  <2>2. /\ parked \in Seq(Run) /\ Head(waiting) \in Run
        /\ ToSet(parked) = ToSet(waiting) \ {Head(waiting)} /\ Head(waiting) \in ToSet(waiting)
    BY <1>0, <1>2, <1>11, TailMembers, HeadTailProperties DEF Apart
  <2>3. woken = granted \o one /\ one \in Seq(Run) /\ woken \in Seq(Run) /\ ToSet(one) = {Head(waiting)}
    BY <1>0, <2>2, AppendIsConcat DEF ToSet
  <2> HIDE DEF one
  <2>4. ToSet(granted \o one) = ToSet(granted) \cup ToSet(one)
    BY <1>0, <2>3, ConcatMembers
  <2>5. ToSet(woken) = ToSet(granted) \cup {Head(waiting)}
    BY <2>3, <2>4
  <2> HIDE DEF parked, woken
  <2>6. ToSet(parked) \cup ToSet(woken) \cup running' = left
    BY <1>3, <2>2, <2>5
  <2> QED
    BY <1>0, <1>9, <2>1, <2>2, <2>3, <2>6
<1> QED
  BY <1>10, <1>11

\* A step that leaves the list (but for its order), the marks and the runs alone.
LEMMA QuietDelivers ==
  ASSUME GroupsKnown, ToSet(jobs') = ToSet(jobs), processed' = processed, groups' = groups,
         Active' = Active
  PROVE  GroupsKnown' /\ SeenStep
BY DEF GroupsKnown, SeenStep, SightStep, Seen, Sight

LEMMA DeliveryStep ==
  ASSUME OwnJobs, TypeOK, RunsApart, GroupsKnown, [Next]_vars
  PROVE  GroupsKnown' /\ SeenStep
<1> DEFINE Goal == GroupsKnown' /\ SeenStep
<1>0. /\ RegistryTypes' /\ Distinct(groups')
      /\ jobs \in Seq(Jobs) /\ processed \in [Groups -> SUBSET Ids]
  BY StepEffect, GroupsStep DEF RunsApart, TypeOK, PickTypes
<1>1. ASSUME NEW j \in Jobs, Enqueue(j) PROVE Goal
  <2> DEFINE accepts == /\ Len(jobs) < MaxQueueSize
                        /\ \A i \in 1..Len(jobs) : IdOf[jobs[i]] # IdOf[j]
             list == IF accepts THEN Insert(jobs, j) ELSE jobs
  <2>1. list \in Seq(Jobs) /\ ToSet(jobs) \subseteq ToSet(list)
    BY <1>0, InsertType, InsertMembers
  <2>2. ProcessNextIf(accepts /\ j \notin Delayed /\ ~stopped, list, processed, permits, waiting, granted)
    BY <1>1 DEF Enqueue, EnqueueOn
  <2>3. groups' = groups /\ running' = running
    BY <1>1 DEF Enqueue, registryVars
  <2> HIDE DEF list, accepts
  <2> QED
    BY <1>0, <2>1, <2>2, <2>3, TriggerDelivers
<1>2. ASSUME NEW g \in Groups, NEW m \in RetryLimits, Consume(g, m) PROVE Goal
  <2>1. groups \in Seq(Groups)
    BY DEF TypeOK, RegistryTypes
  <2>2. ToSet(groups) \subseteq ToSet(groups')
    <3> DEFINE one == <<g>>
    <3>1. one \in Seq(Groups) /\ Append(groups, g) = groups \o one
      BY <2>1, AppendIsConcat
    <3> HIDE DEF one
    <3>2. ToSet(groups \o one) = ToSet(groups) \cup ToSet(one)
      BY <2>1, <3>1, ConcatMembers
    <3> QED
      BY <1>2, <3>1, <3>2 DEF Consume
  <2>3. running' = running /\ ProcessNextIf(~stopped, jobs, processed, permits, waiting, granted)
    BY <1>2 DEF Consume
  <2> QED
    BY <1>0, <2>2, <2>3, TriggerDelivers
<1>3. ASSUME NEW go, ProcessNextIf(go, jobs, processed, permits, waiting, granted),
             groups' = groups, running' = running
      PROVE  Goal
  BY <1>0, <1>3, TriggerDelivers
<1>4. ASSUME NEW r \in Recurring, NEW j \in Jobs, ScheduleInterval(r, j) \/ RecurringTimer(r, j)
      PROVE  Goal
  <2>1. InstanceOf[j] = r
    BY <1>4 DEF ScheduleInterval, RecurringTimer
  <2> QED
    BY <2>1, InstanceAssumption DEF OwnJobs
<1>5. ASSUME jobs' = jobs, processed' = processed, groups' = groups,
             waiting' = waiting, granted' = granted, running' = running
      PROVE  Goal
  BY <1>5, QuietDelivers DEF Active
<1>6. ASSUME NEW r \in Recurring, DropInstances(r) PROVE Goal
  <2>1. InstancesListed(r) = {}
    BY <1>0, InstanceAssumption DEF InstancesListed, OwnJobs
  <2>2. processed' = processed
    BY <1>0, <1>6, <2>1 DEF DropInstances, MarksWithoutInstances
  <2>3. ToSet(jobs') = ToSet(jobs)
    <3>1. ToSet(jobs') = {jobs[i] : i \in ((1..Len(jobs)) \ InstancesListed(r)) \cap (1..Len(jobs))}
      BY <1>0, <1>6, FilterMembers DEF DropInstances, WithoutInstances
    <3>2. ToSet(jobs) = {jobs[i] : i \in 1..Len(jobs)}
      BY <1>0 DEF ToSet
    <3> QED
      BY <2>1, <3>1, <3>2
  <2>4. groups' = groups /\ Active' = Active
    BY <1>6 DEF DropInstances, semaphoreVars, registryVars, Active
  <2> QED
    BY <2>2, <2>3, <2>4, QuietDelivers
<1>7. ASSUME NEW r \in Recurring, ScheduleCron(r) \/ CancelRecurring(r) PROVE Goal
  BY <1>5, <1>6, <1>7 DEF ScheduleCron, CancelRecurring, pickVars, semaphoreVars, registryVars
<1>8. CASE Stop \/ StopPoll \/ \E j \in Jobs : BecomeDue(j)
  BY <1>5, <1>8 DEF Stop, StopPoll, BecomeDue, pickVars, semaphoreVars, registryVars
<1>9. ASSUME NEW j \in Jobs, StartTimer(j) PROVE Goal
  BY <1>3, <1>9 DEF StartTimer, registryVars
<1>10. ASSUME NEW r \in backoff, RetryTimer(r) PROVE Goal
  BY <1>3, <1>10 DEF RetryTimer, registryVars
<1>11. CASE Heartbeat
  BY <1>3, <1>11 DEF Heartbeat, registryVars
<1>12. ASSUME NEW i \in 1..Len(granted), Begin(i) PROVE Goal
  <2>1. granted \in Seq(Run) /\ Distinct(granted) /\ granted[i] \in ToSet(granted)
    BY ToSetMembers DEF TypeOK, PickTypes, RunsApart, Apart
  <2>2. ToSet(granted') = ToSet(granted) \ {granted[i]}
    BY <1>12, <2>1, RemoveAtMembers DEF Begin
  <2>3. Active' = Active
    BY <1>12, <2>1, <2>2 DEF Begin, Active
  <2> QED
    BY <1>12, <2>3, QuietDelivers DEF Begin, registryVars
<1>13. ASSUME NEW r \in running, HandlerEnds(r) PROVE Goal
  <2>0. groups' = groups
    BY <1>13 DEF HandlerEnds, HandlerSucceeds, HandlerRetries, HandlerExhausts, registryVars
  <2>1. CASE HandlerSucceeds(r) \/ HandlerExhausts(r)
    <3>1. \E again : Finish(r, again, jobs, processed)
      BY <2>1 DEF HandlerSucceeds, HandlerExhausts
    <3> QED
      BY <1>0, <2>0, <3>1, FinishDelivers
  <2>2. CASE HandlerRetries(r)
    <3> DEFINE marks == [processed EXCEPT ![r.group] = @ \ {IdOf[r.job]}]
               list == Insert(jobs, r.job)
    <3>1. r \in Run /\ r.job \in Jobs /\ r.group \in Groups
      BY DEF TypeOK, Run
    <3>2. list \in Seq(Jobs) /\ marks \in [Groups -> SUBSET Ids]
      BY <1>0, <3>1, InsertType
    <3>3. Finish(r, FALSE, list, marks)
      BY <2>2 DEF HandlerRetries
    <3>4. list = Insert(jobs, r.job) /\ marks = [processed EXCEPT ![r.group] = @ \ {IdOf[r.job]}]
      OBVIOUS
    <3> HIDE DEF list, marks
    <3> QED
      BY <1>0, <2>0, <3>2, <3>3, <3>4, FinishDelivers
  <2> QED
    BY <1>13, <2>1, <2>2 DEF HandlerEnds
<1>14. CASE UNCHANGED vars
  BY <1>5, <1>14 DEF vars, pickVars, semaphoreVars, registryVars
<1> QED
  BY <1>1, <1>2, <1>4, <1>7, <1>8, <1>9, <1>10, <1>11, <1>12, <1>13, <1>14 DEF Next, Call, Timer, Work

\* The states that the queue shows to its groups, as GroupDelivery sees them.
sights == [g \in Groups |-> [j \in Jobs |-> StateOf(g, j)]]

LEMMA SeenStepRefines ==
  ASSUME SeenStep
  PROVE  [Delivery!Next]_sights
<1>1. \A g \in Groups, j \in Jobs : sights[g][j] = Seen(g, j) /\ sights'[g][j] = Seen(g, j)'
  BY DEF sights, StateOf, Seen, Sight
<1> QED
  BY <1>1 DEF SeenStep, SightStep, Delivery!Next, Delivery!Offer, Delivery!Take, Delivery!Return,
              Delivery!Finish, sights

\* The queue implements GroupDelivery for jobs with ids of their own: whatever the
\* interleaving of calls, timers and handlers, no group is passed over, none is
\* given a job again that it has finished, and each has back what its handler failed.
THEOREM DeliversCorrect ==
  ASSUME OwnJobs
  PROVE  HSpec => DeliversToEveryGroup
<1>1. HInit => Init
  BY DEF HInit
<1>2. [HNext]_hvars => [Next]_vars
  BY DEF HNext, hvars
<1>3. HSpec => Spec
  BY <1>1, <1>2, PTL DEF HSpec, Spec
<1>4. Init => RunsApart /\ GroupsKnown /\ Delivery!Init
  <2>1. ToSet(<< >>) = {}
    BY DEF ToSet
  <2> QED
    BY <2>1 DEF Init, RunsApart, GroupsKnown, Delivery!Init, StateOf, Distinct, Apart, OneRun,
                PicksPast, Active
<1>5. TypeOK /\ RunsApart /\ GroupsKnown /\ [Next]_vars
        => RunsApart' /\ GroupsKnown' /\ [Delivery!Next]_sights
  BY RunsApartStep, DeliveryStep, SeenStepRefines
<1>6. Spec => Delivery!Init /\ [][Delivery!Next]_sights
  BY <1>4, <1>5, TypeCorrect, PTL DEF Spec
<1>7. Delivery!Init /\ [][Delivery!Next]_sights => DeliversToEveryGroup
  BY DEF DeliversToEveryGroup, Delivery!Spec, sights
<1> QED
  BY <1>3, <1>6, <1>7, PTL
=============================================================================
