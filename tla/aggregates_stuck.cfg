SPECIFICATION HistorySpec
CONSTANTS
  Runs = {r1}
  Latencies = {1, 2}
  HoursPerDay = 2
  rawRetentionDays = 1
  hourlyRetentionDays = 2
  dailyRetentionDays = 3
  MaxHour = 8
  MaxExecutionHours = 1
  MaxFailures = 1
  Hazards = {"crash"}
  QuestionHours = {}
  ChartStarts = {}
  PointWidths = {}
  AvailabilityPeriods = {}
  None = None
CHECK_DEADLOCK FALSE
INVARIANTS ExpiredDailyDeleted
