SPECIFICATION HFairSpec
CONSTANTS
  Jobs = {"low", "high"}
  Ids = {"low", "high"}
  IdOf <- OwnIds
  Prio <- HighFirst
  Delayed = {"high"}
  Groups = {"a", "b"}
  RetryLimits = {1}
  MaxConsumers = 1
  Concurrency = 1
  MaxQueueSize = 2
  HeartbeatOn = FALSE
  Recurring = {}
  Cron = {}
  NoRecurring = NoRecurring
  InstanceOf <- NotRecurring
CHECK_DEADLOCK FALSE
INVARIANTS SemaphoreSafe
PROPERTIES DeliversToEveryGroup JobsLeave
