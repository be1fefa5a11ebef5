SPECIFICATION Spec
CONSTANTS
  Jobs = {"first", "second", "i1"}
  Ids = {"same", "i1"}
  IdOf <- SharedIds
  Prio <- FirstHigh
  Delayed = {"first"}
  Groups = {"a"}
  RetryLimits = {0, 1}
  MaxConsumers = 2
  Concurrency = 2
  MaxQueueSize = 2
  HeartbeatOn = TRUE
  Recurring = {"interval", "cron"}
  Cron = {"cron"}
  NoRecurring = NoRecurring
  InstanceOf <- Instances
CHECK_DEADLOCK FALSE
INVARIANTS OneRunPerGroup StopDrains
