-------------------------- MODULE HealthAggregates --------------------------
(***************************************************************************)
(* The tiers of run data of one system and health check:                   *)
(* incrementHourlyAggregate (core/healthcheck-backend/src/                 *)
(* realtime-aggregation.ts) adds each stored run to the bucket of its      *)
(* hour; the daily retention job (retention-job.ts) deletes old raw runs,  *)
(* rolls old hourly buckets up into daily ones and deletes old daily ones. *)
(* Every statement is awaited and none shares a transaction with another,  *)
(* so an action is one statement. Of the latency figures the minimum is    *)
(* kept: the maximum, the t-digest and the collectors' aggregates are read *)
(* and written with it; the run count stands for the status counts and the *)
(* latency sum, which SQL increments too.                                  *)
(***************************************************************************)
EXTENDS Integers, FiniteSets, FiniteSetsExt

\* Definitions named ...Mutant are plausible bugs, used only to show that the
\* properties can fail.
CONSTANTS
  Runs,      \* bound: the executions of the check
  Latencies, \* what they measure
  HoursPerDay, rawRetentionDays, hourlyRetentionDays, dailyRetentionDays,
  MaxHour,           \* bound: the clock
  MaxExecutionHours, \* bound: from storing a run to counting it
  MaxFailures,       \* bound: crashes and failed statements
  Hazards,   \* what may happen: a subset of {"overlap", "crash", "error", "disassociate"}
  None

ASSUME HierarchyAssumption ==
  /\ {rawRetentionDays, hourlyRetentionDays, dailyRetentionDays} \subseteq Nat
  /\ 0 < rawRetentionDays /\ rawRetentionDays < hourlyRetentionDays
  /\ hourlyRetentionDays < dailyRetentionDays

ASSUME BoundAssumption ==
  /\ Latencies \subseteq Nat /\ None \notin Nat
  /\ None \notin [runs : Nat, min : Latencies \cup {None}]
  /\ HoursPerDay \in Nat \ {0} /\ MaxHour \in Nat /\ MaxFailures \in Nat
  /\ MaxExecutionHours \in Nat /\ MaxExecutionHours <= rawRetentionDays * HoursPerDay
  /\ Hazards \subseteq {"overlap", "crash", "error", "disassociate"}

VARIABLES
  now,      \* the hour
  assigned, \* the row of systemHealthChecks exists
  run,      \* each run: where it is, the hour it was stored at and the one it is
            \* counted in, its latency and the minimum it will write
  raw,      \* healthCheckRuns
  hourly, daily, \* healthCheckAggregates, by bucketSize and bucketStart
  job,      \* the retention job
  lastJob,  \* the day it last started
  failures, \* how many there were
  overlapped \* history: a run was stored while another was being counted

historyVars == <<failures, overlapped>>
vars == <<now, assigned, run, raw, hourly, daily, job, lastJob, historyVars>>

Hours == 0..MaxHour
Day(h) == h \div HoursPerDay
Days == 0..Day(MaxHour)
HoursOf(d) == {h \in Hours : Day(h) = d}

IdleJob == [pc |-> "idle", old |-> [h \in Hours |-> None], days |-> {}, doomed |-> {}]

Init ==
  /\ now = 0
  /\ assigned = TRUE
  /\ run = [r \in Runs |-> [pc |-> "waiting", at |-> 0, hour |-> 0, latency |-> None, min |-> None]]
  /\ raw = {}
  /\ hourly = [h \in Hours |-> None]
  /\ daily = [d \in Days |-> None]
  /\ job = IdleJob
  /\ lastJob = None
  /\ failures = 0
  /\ overlapped = FALSE

Counting(r) == run[r].pc \in {"stored", "read"}

-----------------------------------------------------------------------------
(* A run is stored and counted *)

StoreRun(r) ==
  /\ run[r].pc = "waiting" /\ assigned
  /\ overlapped' = (overlapped \/ \E s \in Runs : Counting(s))
  /\ overlapped' => "overlap" \in Hazards
  /\ \E l \in Latencies \cup {None} :
       run' = [run EXCEPT ![r].pc = "stored", ![r].at = now, ![r].hour = now, ![r].latency = l]
  /\ raw' = raw \cup {r}
  /\ UNCHANGED <<now, assigned, hourly, daily, job, lastJob, failures>>

\* The least of some values that may be missing.
Least(S) == IF S \ {None} = {} THEN None ELSE Min(S \ {None})

\* The existing bucket is read, and the new minimum computed from it.
ReadBucket(r) ==
  /\ run[r].pc = "stored"
  /\ LET existing == IF hourly[now] = None THEN None ELSE hourly[now].min
     IN run' = [run EXCEPT ![r].pc = "read", ![r].hour = now,
                           ![r].min = IF run[r].latency = None THEN None
                                      ELSE Least({existing, run[r].latency})]
  /\ UNCHANGED <<now, assigned, raw, hourly, daily, job, lastJob, historyVars>>

\* INSERT ... ON CONFLICT DO UPDATE: SQL increments the count, but the minimum
\* is the one computed before.
Upsert(row, r) ==
  IF row = None THEN [runs |-> 1, min |-> run[r].min]
  ELSE [runs |-> row.runs + 1,
        min |-> IF run[r].latency = None THEN row.min ELSE run[r].min]

WriteBucket(r) ==
  /\ run[r].pc = "read"
  /\ hourly' = [hourly EXCEPT ![run[r].hour] = Upsert(@, r)]
  /\ run' = [run EXCEPT ![r].pc = "counted"]
  /\ UNCHANGED <<now, assigned, raw, daily, job, lastJob, historyVars>>

-----------------------------------------------------------------------------
(* The retention job *)

JobAt(pc) == job' = [job EXCEPT !.pc = pc]

\* The recurring job fires once a day. It looks only at assignments that exist.
StartJob ==
  /\ job.pc = "idle" /\ lastJob # Day(now)
  /\ lastJob' = Day(now)
  /\ IF assigned THEN JobAt("raw") ELSE UNCHANGED job
  /\ UNCHANGED <<now, assigned, run, raw, hourly, daily, historyVars>>

\* The cutoff lies within an hour, and parts the runs of that hour.
DeleteExpiredRawRuns ==
  /\ job.pc = "raw"
  /\ LET cutoff == now - rawRetentionDays * HoursPerDay
     IN \E rest \in SUBSET {r \in raw : run[r].at = cutoff} :
          raw' = {r \in raw : run[r].at > cutoff} \cup rest
  /\ JobAt("select")
  /\ UNCHANGED <<now, assigned, run, hourly, daily, lastJob, historyVars>>

\* The cutoff of the roll-up is off by more than a day.
OldHourMutant(h) == Day(h) <= Day(now)

\* The cutoff is rounded to a day.
OldHour(h) == Day(h) < Day(now) - hourlyRetentionDays

ReadOldHourly ==
  /\ job.pc = "select"
  /\ LET old == {h \in Hours : hourly[h] # None /\ OldHour(h)}
     IN job' = [pc |-> IF old = {} THEN "expire" ELSE "insert",
                old |-> [h \in Hours |-> IF h \in old THEN hourly[h] ELSE None],
                days |-> {Day(h) : h \in old}, doomed |-> {}]
  /\ UNCHANGED <<now, assigned, run, raw, hourly, daily, lastJob, historyVars>>

RunsOf(row) == IF row = None THEN 0 ELSE row.runs
RunsIn(rows, hours) == MapThenSumSet(LAMBDA h : RunsOf(rows[h]), hours)

\* The daily row for the hourly rows read.
RollUp(hours) ==
  [runs |-> RunsIn(job.old, hours),
   min |-> Least({job.old[h].min : h \in hours})]

\* The daily row of a day rolled up before is replaced.
InsertDailyMutant ==
  /\ job.pc = "insert"
  /\ \E d \in job.days :
       LET hours == {h \in HoursOf(d) : job.old[h] # None}
       IN /\ daily' = [daily EXCEPT ![d] = RollUp(hours)]
          /\ job' = [job EXCEPT !.pc = "delete", !.days = @ \ {d}, !.doomed = hours]
  /\ UNCHANGED <<now, assigned, run, raw, hourly, lastJob, historyVars>>

\* A plain insert: the unique index rejects a second row for a day, and the
\* error ends the job for this assignment.
InsertDaily ==
  /\ job.pc = "insert"
  /\ \E d \in job.days :
       IF daily[d] # None
       THEN job' = IdleJob /\ UNCHANGED daily
       ELSE LET hours == {h \in HoursOf(d) : job.old[h] # None}
            IN /\ daily' = [daily EXCEPT ![d] = RollUp(hours)]
               /\ job' = [job EXCEPT !.pc = "delete", !.days = @ \ {d}, !.doomed = hours]
  /\ UNCHANGED <<now, assigned, run, raw, hourly, lastJob, historyVars>>

\* Only one of the old buckets of a day is deleted.
DeleteHourlyMutant ==
  /\ job.pc = "delete"
  /\ \E h \in job.doomed :
       /\ hourly' = [hourly EXCEPT ![h] = None]
       /\ job' = [job EXCEPT !.doomed = {},
                             !.pc = IF job.days # {} THEN "insert" ELSE "expire"]
  /\ UNCHANGED <<now, assigned, run, raw, daily, lastJob, historyVars>>

DeleteHourly ==
  /\ job.pc = "delete"
  /\ \E h \in job.doomed :
       /\ hourly' = [hourly EXCEPT ![h] = None]
       /\ job' = [job EXCEPT !.doomed = @ \ {h},
                             !.pc = IF job.doomed # {h} THEN "delete"
                                    ELSE IF job.days # {} THEN "insert" ELSE "expire"]
  /\ UNCHANGED <<now, assigned, run, raw, daily, lastJob, historyVars>>

\* This cutoff is not rounded.
ExpiredDay(d) == d * HoursPerDay < now - dailyRetentionDays * HoursPerDay

DeleteExpiredAggregates ==
  /\ job.pc = "expire"
  /\ daily' = [d \in Days |-> IF ExpiredDay(d) THEN None ELSE daily[d]]
  /\ job' = IdleJob
  /\ UNCHANGED <<now, assigned, run, raw, hourly, lastJob, historyVars>>

-----------------------------------------------------------------------------
(* The environment *)

\* Time passes: a run is counted, and a job ends, in time.
Tick ==
  /\ now < MaxHour
  /\ \A r \in Runs : Counting(r) => now + 1 - run[r].at <= MaxExecutionHours
  /\ job.pc # "idle" => Day(now + 1) <= lastJob + 1
  /\ now' = now + 1
  /\ UNCHANGED <<assigned, run, raw, hourly, daily, job, lastJob, historyVars>>

\* The process dies. When it is back, the retention job is scheduled anew and
\* runs at once.
Crash ==
  /\ "crash" \in Hazards /\ failures < MaxFailures
  /\ failures' = failures + 1
  /\ run' = [r \in Runs |-> IF Counting(r) THEN [run[r] EXCEPT !.pc = "lost"] ELSE run[r]]
  /\ job' = IdleJob
  /\ lastJob' = None
  /\ UNCHANGED <<now, assigned, raw, hourly, daily, overlapped>>

\* A statement of the job fails: the error is logged.
JobFails ==
  /\ "error" \in Hazards /\ job.pc # "idle" /\ failures < MaxFailures
  /\ failures' = failures + 1
  /\ job' = IdleJob
  /\ UNCHANGED <<now, assigned, run, raw, hourly, daily, lastJob, overlapped>>

\* disassociateSystem: the runs and aggregates stay.
DisassociateSystem ==
  /\ "disassociate" \in Hazards /\ assigned
  /\ assigned' = FALSE
  /\ UNCHANGED <<now, run, raw, hourly, daily, job, lastJob, historyVars>>

Count == \E r \in Runs : ReadBucket(r) \/ WriteBucket(r)
Store == \E r \in Runs : StoreRun(r)
JobStep ==
  \/ DeleteExpiredRawRuns \/ ReadOldHourly \/ InsertDaily \/ DeleteHourly
  \/ DeleteExpiredAggregates

Next ==
  \/ Store \/ Count \/ StartJob \/ JobStep \/ Tick
  \/ Crash \/ JobFails \/ DisassociateSystem

Spec == Init /\ [][Next]_vars

-----------------------------------------------------------------------------
(* Properties *)

Rows == [runs : Nat, min : Latencies \cup {None}] \cup {None}

\* Types of the variables.
TypeOK ==
  /\ now \in Hours /\ assigned \in BOOLEAN /\ raw \subseteq Runs
  /\ run \in [Runs -> [pc : {"waiting", "stored", "read", "counted", "lost"}, at : Hours, hour : Hours,
                       latency : Latencies \cup {None}, min : Latencies \cup {None}]]
  /\ hourly \in [Hours -> Rows] /\ daily \in [Days -> Rows]
  /\ job \in [pc : {"idle", "raw", "select", "insert", "delete", "expire"},
              old : [Hours -> Rows], days : SUBSET Days, doomed : SUBSET Hours]
  /\ lastJob \in Days \cup {None} /\ failures \in 0..MaxFailures /\ overlapped \in BOOLEAN

CountedIn(d) == {r \in Runs : run[r].pc = "counted" /\ Day(run[r].hour) = d}

\* No run is lost or counted twice by the tiers, as long as the job runs to its
\* end: until a day expires, its daily row and those of its hourly rows not being
\* deleted add up to the runs counted, however the runs overlap.
CountsConserved ==
  failures = 0 => \A d \in Days :
    \/ ExpiredDay(d)
    \/ RunsOf(daily[d]) + RunsIn(hourly, HoursOf(d) \ job.doomed) = Cardinality(CountedIn(d))

\* Whatever fails, none is lost: the rows of a day add up to at least its runs.
CountsNotLost ==
  \A d \in Days :
    \/ ExpiredDay(d)
    \/ RunsOf(daily[d]) + RunsIn(hourly, HoursOf(d)) >= Cardinality(CountedIn(d))

\* A raw run is deleted only after it was counted.
RawUntilCounted == \A r \in Runs : Counting(r) => r \in raw

\* The minimum of a bucket is the least latency of the runs counted in it, through
\* the roll-up and failures of the job too, if the runs do not overlap.
MinOfRuns(row, runs) == row = None \/ row.min = Least({run[r].latency : r \in runs})
MinTracksRuns ==
  ~overlapped =>
    /\ \A h \in Hours : MinOfRuns(hourly[h], {r \in CountedIn(Day(h)) : run[r].hour = h})
    /\ \A d \in Days : MinOfRuns(daily[d], CountedIn(d))

-----------------------------------------------------------------------------
(* What the documentation promises and the code does not keep (README.md) *)

\* docs/backend/healthcheck-data-management.md:129, "Deletes daily aggregates older
\* than `dailyRetentionDays`.": the same of the daily buckets, with crashes, of a
\* job that has run since the last one (a crash makes lastJob None).
ExpiredDailyDeleted ==
  assigned /\ job.pc = "idle" /\ lastJob = Day(now) =>
    \A d \in Days : d < Day(now) - dailyRetentionDays => daily[d] = None
=============================================================================
