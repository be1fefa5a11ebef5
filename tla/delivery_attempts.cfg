SPECIFICATION FairSpec
CONSTANTS
  Subscriptions = {s1}
  MAX_RETRIES = 3
  QueueRetries = 1
  Retriers = {r1, r2}
  MaxResets = 1
  Jobs = {1, 2, 3}
  MaxMishaps = 2
  None = None
CHECK_DEADLOCK FALSE
INVARIANTS DeliveredOnce LogTruthful OpenLogsWorkedOn
PROPERTIES DeliveriesSettle
