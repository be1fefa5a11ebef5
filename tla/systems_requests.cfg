SPECIFICATION SystemsSpec
CONSTANTS
  Systems = {s1}
  Groups = {g1}
  Editors = {k1, k2}
  Servers = {i1}
  Cleaners = {"healthcheck", "incident"}
  CheckedSystems = {s1}
  Configs = {c1}
  Schedulers = {k1}
  Instances = {i1, i2}
  Deployments <- OwnOrShared
  AllIncidents = {n1}
  LinkedSystems = {s1}
  Reporters = {k1, k2}
  MaxRequests <- PerPart
  Parts = {"catalog", "healthcheck", "incident"}
  MaxCrashes = 1
INVARIANTS GroupsMatchEntities EnabledChecksScheduled AnswerWasDue DeletedSystemsForgotten
CHECK_DEADLOCK FALSE
