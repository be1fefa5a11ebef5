SPECIFICATION FairSpec
CONSTANTS
  i1 = i1
  i2 = i2
  q1 = q1
  q2 = q2
  t1 = t1
  t2 = t2
  Instances = {i1, i2}
  Names = {q1, q2}
  Plugins = {"memory", "bullmq"}
  Configs = {"default", "other"}
  Targets <- Forth
  Shared = {"bullmq"}
  Ticks = {t1, t2}
  MaxCalls = 2
  Limits <- Cases
  None = None
CHECK_DEADLOCK FALSE
INVARIANTS QueuesFollowBackend VersionIdentifiesSetting
PROPERTIES InstancesConverge
