-------------------------- MODULE CollectorFigures --------------------------
(***************************************************************************)
(* What the charts show of the collectors' own results. Each run merges    *)
(* what its collectors measured into the row of its hour                   *)
(* (realtime-aggregation.ts); a chart computes a point anew from raw runs, *)
(* or combines the rows of its hours (aggregation-utils.ts,                *)
(* aggregated-result.ts). The figures are those of                         *)
(* core/backend-api/src/incremental-aggregation.ts: an average, a rate, a  *)
(* counter and the extremes, here of one measure; each collector takes     *)
(* some of them. A failed collector stores an error and no measure.        *)
(* Executions of a check may overlap; how rows and hours come apart is     *)
(* told in HealthAggregates, so the hour does not turn within one here.    *)
(***************************************************************************)
EXTENDS Integers, FiniteSets, SequencesExt, Subsequences

CONSTANTS
  Collectors,        \* entries of the check's configuration, by their uuid
  Measures,          \* what a collector may measure
  Successes,         \* the measures that mean success
  MaxRuns,           \* bound: executions of the check
  MaxAtOnce,         \* bound: of them that overlap
  LastHour           \* bound

ASSUME FiguresAssumption == Measures \subseteq Int /\ LastHour \in Nat /\ MaxRuns \in Nat /\ MaxAtOnce \in Nat

VARIABLES
  hour,
  stored,    \* raw runs, in the order of their timestamps
  row,       \* of each hour: what is aggregated of each collector
  checkRun,  \* executions: where they are, and the row they have read
  merged,      \* history: of each hour, its executions in the order they were merged
  overwritten  \* history: hours in whose row one execution wrote over another's

figuresVars == <<hour, stored, row, checkRun, merged, overwritten>>

ChartHours == 0 .. LastHour

\* Numbered as they store their runs.
CheckRuns == 1 .. MaxRuns

\* undefined, or a number.
Readings == {{}} \cup {{m} : m \in Measures}

Measured(reading) == CHOOSE m \in reading : TRUE

\* A run stores a reading for each collector that was there; none if no connection was made.
RunData == UNION {[cs -> Readings] : cs \in SUBSET Collectors}

NoData == [c \in {} |-> {}]

-----------------------------------------------------------------------------
(* The figures *)

\* Math.round of a quotient.
Rounded(n, d) == (2 * n + d) \div (2 * d)

Counter(count) == [count |-> count]
\* avg has one decimal place, so it is counted in tenths.
Average(sum, count) ==
  [sum |-> sum, count |-> count, avg |-> IF count > 0 THEN Rounded(10 * sum, count) ELSE 0]
Rate(success, total) ==
  [success |-> success, total |-> total, rate |-> IF total > 0 THEN Rounded(100 * success, total) ELSE 0]
Extremes(min, max) == [min |-> min, max |-> max]

Lower(a, b) == IF a <= b THEN a ELSE b
Higher(a, b) == IF a >= b THEN a ELSE b

\* errorCount: a reading without a measure is an error.
MergeCounter(old, reading) == Counter(old.count + IF reading = {} THEN 1 ELSE 0)

MergeAverage(old, reading) ==
  IF reading = {} THEN old
  ELSE Average(old.sum + Measured(reading), old.count + 1)

MergeRate(old, reading) ==
  IF reading = {} THEN old
  ELSE Rate(old.success + (IF reading \subseteq Successes THEN 1 ELSE 0), old.total + 1)

FirstExtremes(reading) ==
  IF reading = {} THEN Extremes(0, 0)
  ELSE Extremes(Measured(reading), Measured(reading))

MergeMinMax(old, reading) ==
  IF reading = {} THEN old
  ELSE Extremes(Lower(old.min, Measured(reading)), Higher(old.max, Measured(reading)))

\* A collector's mergeResult, without and with an aggregate to add to.
FirstResult(reading) ==
  [errors |-> MergeCounter(Counter(0), reading), average |-> MergeAverage(Average(0, 0), reading),
   rate |-> MergeRate(Rate(0, 0), reading), extremes |-> FirstExtremes(reading)]
MergeResult(old, reading) ==
  [errors |-> MergeCounter(old.errors, reading), average |-> MergeAverage(old.average, reading),
   rate |-> MergeRate(old.rate, reading), extremes |-> MergeMinMax(old.extremes, reading)]

MergeCounterStates(a, b) == Counter(a.count + b.count)

\* A mean of means.
MergeAverageStatesMutant(a, b) ==
  [Average(a.sum + b.sum, a.count + b.count) EXCEPT !.avg = Rounded(a.avg + b.avg, 2)]
MergeAverageStates(a, b) == Average(a.sum + b.sum, a.count + b.count)

MergeRateStates(a, b) == Rate(a.success + b.success, a.total + b.total)

MergeMinMaxStates(a, b) == Extremes(Lower(a.min, b.min), Higher(a.max, b.max))

MergeAggregatedStates(a, b) ==
  [errors |-> MergeCounterStates(a.errors, b.errors), average |-> MergeAverageStates(a.average, b.average),
   rate |-> MergeRateStates(a.rate, b.rate), extremes |-> MergeMinMaxStates(a.extremes, b.extremes)]

-----------------------------------------------------------------------------
(* All collectors of a check *)

\* Collectors without a reading keep what they have.
MergeCollectorResults(existing, data) ==
  [c \in DOMAIN existing \cup DOMAIN data |->
     IF c \notin DOMAIN data THEN existing[c]
     ELSE IF c \notin DOMAIN existing THEN FirstResult(data[c])
     ELSE MergeResult(existing[c], data[c])]

AggregateCollectorData(results) == FoldLeft(MergeCollectorResults, NoData, results)

\* Collectors that one of two rows lacks keep what the other has.
MergeRows(a, b) ==
  [c \in DOMAIN a \cup DOMAIN b |->
     IF c \notin DOMAIN b THEN a[c]
     ELSE IF c \notin DOMAIN a THEN b[c]
     ELSE MergeAggregatedStates(a[c], b[c])]

MergeAggregatedBucketResults(results) == FoldLeft(MergeRows, NoData, results)

-----------------------------------------------------------------------------
(* Executions *)

NotRunning == [pc |-> "idle", data |-> NoData, read |-> NoData]
Ended == [NotRunning EXCEPT !.pc = "ended"]

FiguresInit ==
  /\ hour = 0 /\ stored = <<>> /\ overwritten = {}
  /\ row = [h \in ChartHours |-> NoData] /\ merged = [h \in ChartHours |-> <<>>]
  /\ checkRun = [e \in CheckRuns |-> NotRunning]

StoreResult(e) ==
  /\ checkRun[e].pc = "idle" /\ e = Len(stored) + 1
  /\ Cardinality({f \in CheckRuns : checkRun[f].pc \in {"read", "upsert"}}) < MaxAtOnce
  /\ \E data \in RunData :
       /\ stored' = Append(stored, [hour |-> hour, data |-> data])
       /\ checkRun' = [checkRun EXCEPT ![e].pc = "read", ![e].data = data]
  /\ UNCHANGED <<hour, row, merged, overwritten>>

\* incrementHourlyAggregate reads the row, merges, and upserts it.
ReadRow(e) ==
  /\ checkRun[e].pc = "read"
  /\ checkRun' = [checkRun EXCEPT ![e].pc = "upsert", ![e].read = row[hour]]
  /\ overwritten' = IF \E f \in CheckRuns : checkRun[f].pc = "upsert"
                    THEN overwritten \cup {hour} ELSE overwritten
  /\ UNCHANGED <<hour, stored, row, merged>>

\* Nothing is written to the column if there is nothing to write.
UpsertRow(e) ==
  /\ checkRun[e].pc = "upsert"
  /\ LET result == MergeCollectorResults(checkRun[e].read, checkRun[e].data)
     IN row' = IF result = NoData THEN row ELSE [row EXCEPT ![hour] = result]
  /\ merged' = [merged EXCEPT ![hour] = Append(@, e)]
  /\ checkRun' = [checkRun EXCEPT ![e] = Ended]
  /\ UNCHANGED <<hour, stored, overwritten>>

NextHour ==
  /\ hour < LastHour /\ \A e \in CheckRuns : checkRun[e].pc \in {"idle", "ended"}
  /\ hour' = hour + 1
  /\ UNCHANGED <<stored, row, checkRun, merged, overwritten>>

FiguresNext == NextHour \/ \E e \in CheckRuns : StoreResult(e) \/ ReadRow(e) \/ UpsertRow(e)

FiguresSpec == FiguresInit /\ [][FiguresNext]_figuresVars

-----------------------------------------------------------------------------
(* Properties *)

\* Types.
FiguresTypeOK ==
  /\ hour \in ChartHours /\ overwritten \subseteq ChartHours
  /\ stored \in Seq([hour : ChartHours, data : RunData])
  /\ \A h \in ChartHours : DOMAIN row[h] \subseteq Collectors
  /\ \A e \in CheckRuns : checkRun[e].pc \in {"idle", "read", "upsert", "ended"}

\* The runs of some hours; in the order in which they are read; and their data.
StoredIn(hours) == {e \in DOMAIN stored : stored[e].hour \in hours}
ReadRuns(hours) == Subsequence([e \in DOMAIN stored |-> e], StoredIn(hours))
DataOf(order) == [i \in DOMAIN order |-> stored[order[i]].data]

\* The runs among these that a collector took part in, and what it measured in them.
TakenPart(c, these) == {e \in these : c \in DOMAIN stored[e].data}
MeasuredIn(c, these) == {e \in TakenPart(c, these) : stored[e].data[c] # {}}
MeasuresOf(c, these) == [e \in MeasuredIn(c, these) |-> Measured(stored[e].data[c])]

\* In this order of runs, the collector's first reading is a failure.
StartsFailed(c, order) ==
  \E i \in DOMAIN order :
    /\ order[i] \in TakenPart(c, DOMAIN stored) \ MeasuredIn(c, DOMAIN stored)
    /\ \A j \in 1 .. i - 1 : order[j] \notin TakenPart(c, DOMAIN stored)

\* The figures of a collector are those of all it measured in these runs; the
\* extremes, if none of the orders in which the runs were merged starts with a failure.
TrueTo(figures, c, these, orders) ==
  LET m == MeasuresOf(c, these)
      n == Cardinality(DOMAIN m)
      successes == Cardinality({e \in DOMAIN m : m[e] \in Successes})
  IN /\ figures.errors.count = Cardinality(TakenPart(c, these) \ DOMAIN m)
     /\ n = 0 => figures.average.avg = 0 /\ figures.rate.rate = 0
     /\ n > 0 => /\ 2 * figures.average.avg * n - 20 * SumFunction(m) \in 1 - n .. n
                 /\ 2 * figures.rate.rate * n - 200 * successes \in 1 - n .. n
     /\ n > 0 /\ (\A order \in orders : ~StartsFailed(c, order)) =>
          figures.extremes = Extremes(Min(Range(m)), Max(Range(m)))

\* core/backend-api/src/incremental-aggregation.test.ts:63, "skips undefined values
\* without affecting count": a point of a chart shows the same of a collector, and what
\* it has measured, whether it is computed from the raw runs of some hours or combined
\* from their rows, whichever collectors failed, were missing or came later; unless
\* executions have overlapped in one of the hours, or are not counted yet.
FiguresMatchRuns ==
  \A from, to \in ChartHours :
    from <= to /\ to <= hour
      /\ (to = hour => \A e \in CheckRuns : checkRun[e].pc \in {"idle", "ended"}) =>
      LET these == StoredIn(from .. to)
          order == ReadRuns(from .. to)
          raw == AggregateCollectorData(DataOf(order))
          rows == MergeAggregatedBucketResults([i \in 1 .. to - from + 1 |-> row[from + i - 1]])
      IN \A c \in Collectors :
           TakenPart(c, these) # {} =>
             /\ c \in DOMAIN raw /\ TrueTo(raw[c], c, these, {order})
             /\ overwritten \cap (from .. to) = {} =>
                  c \in DOMAIN rows /\ TrueTo(rows[c], c, these, {merged[h] : h \in from .. to})
=============================================================================
