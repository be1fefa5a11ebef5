SPECIFICATION HistorySpec
CONSTANTS
  Runs = {r1, r2}
  Latencies = {}
  HoursPerDay = 2
  rawRetentionDays = 1
  hourlyRetentionDays = 2
  dailyRetentionDays = 3
  MaxHour = 7
  MaxExecutionHours = 1
  MaxFailures = 1
  Hazards = {"overlap", "crash", "error", "disassociate"}
  QuestionHours = {2, 6, 7}
  ChartStarts = {0, 1}
  PointWidths = {1, 3}
  AvailabilityPeriods = {1, 3}
  None = None
SYMMETRY RunSymmetry
CHECK_DEADLOCK FALSE
INVARIANTS CountsConserved CountsNotLost
PROPERTIES ChartShowsEachRun AvailabilityCountsEachRun
