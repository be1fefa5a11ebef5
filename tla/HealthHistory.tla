---------------------------- MODULE HealthHistory ----------------------------
(***************************************************************************)
(* What the charts and the availability figures show of the runs that      *)
(* HealthAggregates keeps: getAggregatedHistory and getAvailabilityStats   *)
(* (core/healthcheck-backend/src/service.ts) with mergeTieredBuckets and   *)
(* reaggregateBuckets (aggregation-utils.ts). A question reads the tiers   *)
(* in separate statements, while runs are stored and counted and the       *)
(* retention job moves them from tier to tier. The range of a chart ends   *)
(* in the present; its start, its width of points and the period of an     *)
(* availability figure play no part until the answer is put together, so   *)
(* they are parameters of the answer and not of the state. The run count   *)
(* stands for the other figures of a bucket, as in HealthAggregates.       *)
(***************************************************************************)
EXTENDS HealthAggregates

CONSTANTS
  QuestionHours,       \* bound: when questions are asked
  ChartStarts,         \* startDate of a chart
  PointWidths,         \* of a chart's points, in hours: (endDate - startDate) / targetPoints
  AvailabilityPeriods  \* in days

ASSUME HistoryAssumption ==
  ChartStarts \subseteq Nat /\ PointWidths \subseteq Nat \ {0} /\ AvailabilityPeriods \subseteq Nat

VARIABLE
  question \* one in progress, and what it has read

askVars == <<vars, question>>

Tiers == {"raw", "hourly", "daily"}

NotAsking ==
  [pc |-> "idle", read |-> {}, raw |-> {}, hourly |-> [h \in Hours |-> None],
   daily |-> [d \in Days |-> None], counted |-> {}, torn |-> FALSE]

RollingUp == job.pc \in {"insert", "delete"}

HistoryInit == Init /\ question = NotAsking

-----------------------------------------------------------------------------
(* The statements *)

BeginQuestion(kind) ==
  /\ question.pc = "idle" /\ now \in QuestionHours
  /\ question' = [NotAsking EXCEPT !.pc = kind, !.torn = RollingUp,
                                   !.counted = {r \in Runs : run[r].pc = "counted"}]
  /\ UNCHANGED vars

\* A chart's three statements are sent at once and served in any order.
ReadRaw ==
  /\ question.pc = "chart" /\ "raw" \notin question.read
  /\ question' = [question EXCEPT !.read = @ \cup {"raw"}, !.raw = raw]
  /\ UNCHANGED vars

ReadHourly ==
  /\ question.pc # "idle" /\ "hourly" \notin question.read
  /\ question' = [question EXCEPT !.read = @ \cup {"hourly"}, !.hourly = hourly]
  /\ UNCHANGED vars

\* The availability figures read the daily rows after the hourly ones.
ReadDaily ==
  /\ question.pc # "idle" /\ "daily" \notin question.read
  /\ question.pc = "availability" => "hourly" \in question.read
  /\ question' = [question EXCEPT !.read = @ \cup {"daily"}, !.daily = daily]
  /\ UNCHANGED vars

AllRead ==
  \/ question.pc = "chart" /\ question.read = Tiers
  \/ question.pc = "availability" /\ question.read = Tiers \ {"raw"}

EndQuestion ==
  /\ AllRead
  /\ question' = NotAsking
  /\ UNCHANGED vars

\* A step of HealthAggregates while a question may be in progress. Its statements
\* take no hour, and it ends with the process.
Meanwhile ==
  \/ /\ \/ Store \/ Count \/ StartJob \/ JobStep \/ JobFails \/ DisassociateSystem
        \/ Tick /\ question.pc = "idle"
     /\ question' = IF question.pc = "idle" THEN question
                    ELSE [question EXCEPT !.torn = @ \/ RollingUp']
  \/ Crash /\ question' = NotAsking

HistoryNext ==
  \/ Meanwhile
  \/ \E kind \in {"chart", "availability"} : BeginQuestion(kind)
  \/ ReadRaw \/ ReadHourly \/ ReadDaily \/ EndQuestion

HistorySpec == HistoryInit /\ [][HistoryNext]_askVars

-----------------------------------------------------------------------------
(* A chart *)

\* The runs that the raw statement returned for a chart from this start.
RawFrom(start) == {r \in question.raw : run[r].at >= start}

Bucket(tier, start, length, runs) ==
  [tier |-> tier, start |-> start, end |-> start + length, runs |-> runs]

\* Raw runs are put into buckets of the width of a point, aligned with the start.
RawBuckets(start, width) ==
  LET index(r) == (run[r].at - start) \div width
  IN {Bucket("raw", start + i * width, width, Cardinality({r \in RawFrom(start) : index(r) = i}))
        : i \in {index(r) : r \in RawFrom(start)}}

HourlyBuckets(start) ==
  {Bucket("hourly", h, 1, question.hourly[h].runs)
     : h \in {x \in Hours : x >= start /\ question.hourly[x] # None}}

DailyBuckets(start) ==
  {Bucket("daily", d * HoursPerDay, HoursPerDay, question.daily[d].runs)
     : d \in {x \in Days : x * HoursPerDay >= start /\ question.daily[x] # None}}

Overlaps(b, others) ==
  \E c \in others : b.start < c.end /\ c.start < b.end

\* A raw bucket replaces only the hourly one of the same start.
MergeTieredBucketsMutant(raws, hours, days) ==
  raws \cup {b \in hours : \A c \in raws : c.start # b.start}
       \cup {b \in days : ~Overlaps(b, raws) /\ ~Overlaps(b, hours)}

\* Hourly buckets fill the gaps between raw ones, daily buckets those between both;
\* an hourly bucket that raw runs hide still hides a daily one.
MergeTieredBuckets(raws, hours, days) ==
  raws \cup {b \in hours : ~Overlaps(b, raws)}
       \cup {b \in days : ~Overlaps(b, raws) /\ ~Overlaps(b, hours)}

CombineBuckets(buckets) == MapThenSumSet(LAMBDA b : b.runs, buckets)

\* Each merged bucket goes to the point its start lies in.
ReaggregateBuckets(buckets, start, width) ==
  LET index(b) == (b.start - start) \div width
  IN [i \in {index(b) : b \in buckets} |-> CombineBuckets({b \in buckets : index(b) = i})]

Chart(start, width) ==
  ReaggregateBuckets(MergeTieredBuckets(RawBuckets(start, width), HourlyBuckets(start),
                                        DailyBuckets(start)),
                     start, width)

RunsInChart(start, width) ==
  LET points == Chart(start, width)
  IN MapThenSumSet(LAMBDA i : points[i], DOMAIN points)

-----------------------------------------------------------------------------
(* The availability figures *)

\* The cutoff of the wrong tier.
AfterHourlyCutoffMutant(hour) == hour > now - rawRetentionDays * HoursPerDay

\* A row starts on the hour and the cutoff within one.
AfterHourlyCutoff(hour) == hour > now - hourlyRetentionDays * HoursPerDay

Within(period, hour) == hour > now - period * HoursPerDay

RunsInPeriod(period) ==
  LET hours == {h \in Hours : question.hourly[h] # None /\ AfterHourlyCutoff(h) /\ Within(period, h)}
      days == {d \in Days : LET start == d * HoursPerDay IN
                 question.daily[d] # None /\ ~AfterHourlyCutoff(start) /\ Within(period, start)}
  IN RunsIn(question.hourly, hours) + RunsIn(question.daily, days)

-----------------------------------------------------------------------------
(* Properties *)

\* Types of what a question has read.
QuestionTypeOK ==
  question \in [pc : {"idle", "chart", "availability"}, read : SUBSET Tiers,
                raw : SUBSET Runs, hourly : [Hours -> Rows], daily : [Days -> Rows],
                counted : SUBSET Runs, torn : BOOLEAN]

\* The day of a run has been rolled up, and its row is gone from the hourly tier.
DayRolledUp(r) == question.daily[Day(run[r].hour)] # None

\* A run that raw data stands before: its raw row is deleted, or out of the range, and
\* there are others in the point that hides its hour, or its day.
HiddenByRaw(r, start, width) ==
  LET d == Day(run[r].hour)
      row == IF DayRolledUp(r)
             THEN [start |-> d * HoursPerDay, end |-> (d + 1) * HoursPerDay]
             ELSE [start |-> run[r].hour, end |-> run[r].hour + 1]
  IN r \notin RawFrom(start) /\ Overlaps(row, RawBuckets(start, width))

InChart(r, start) ==
  IF DayRolledUp(r) THEN Day(run[r].hour) * HoursPerDay >= start ELSE run[r].hour >= start

\* docs/backend/healthcheck-data-management.md:164, "Raw data takes priority over
\* hourly, which takes priority over daily": a chart shows no run twice, unless it was
\* counted in another hour than it was stored in, whatever has failed and whatever
\* moves between the tiers while they are read; and it shows all that had been counted
\* before, unless they have expired, the roll-up was going on or has failed, or raw
\* data stands before them.
ChartShowsEachRun ==
  [][AllRead /\ question.pc = "chart" =>
       \A start \in ChartStarts, width \in PointWidths :
         LET shown == RunsInChart(start, width) IN
         /\ shown <= Cardinality({r \in Runs : run[r].pc # "waiting" /\ run[r].hour >= start})
                       + Cardinality({r \in Runs : run[r].pc = "counted" /\ run[r].at # run[r].hour})
         /\ failures = 0 /\ ~question.torn =>
              shown >= Cardinality({r \in question.counted :
                         /\ InChart(r, start) /\ ~HiddenByRaw(r, start, width)
                         /\ ~ExpiredDay(Day(run[r].hour))})]_question

\* core/healthcheck-backend/src/service.ts:935, "hourly aggregates are always
\* up-to-date": the figures count no run twice, whatever has failed and whatever the
\* retention job does between the two statements; and when it has run today, each run
\* that had been counted before, but for those of the cutoff's own day before it.
AvailabilityCountsEachRun ==
  [][AllRead /\ question.pc = "availability" =>
       \A period \in AvailabilityPeriods :
         LET total == RunsInPeriod(period) IN
         /\ total <= Cardinality({r \in Runs : run[r].pc = "counted" /\ Within(period, run[r].hour)})
         /\ failures = 0 /\ ~question.torn /\ job.pc = "idle" /\ lastJob = Day(now) /\ assigned =>
              total >= Cardinality({r \in question.counted :
                \/ /\ run[r].hour > now - hourlyRetentionDays * HoursPerDay
                   /\ Within(period, run[r].hour)
                \/ /\ Day(run[r].hour) < Day(now) - hourlyRetentionDays
                   /\ Within(period, Day(run[r].hour) * HoursPerDay)
                   /\ ~ExpiredDay(Day(run[r].hour))})]_question
=============================================================================
