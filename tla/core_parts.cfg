SPECIFICATION PartsSpec
CONSTANTS
  c1 = c1
  c2 = c2
  c3 = c3
  g1 = g1
  g2 = g2
  Consumers = {c1, c2, c3}
  GroupOf <- TwoGroups
  Groups = {g1, g2}
  Ops = {o1, o2}
  Callers = {k1, k2}
  CallKinds = {"switch", "reload"}
  MaxQueues = 3
  None = None
  Signers = {s1, s2}
  Rotation = 1
  Grace = 2
  Life = 1
  MaxCall = 1
  MaxTime = 6
  MaxKeys = 3
  Plugins = {core, p1}
  BuiltIn = {core}
  IsDefault = {p1}
  IsPublic = {core}
  CustomRoles = {r1}
  Hosts = {i1, i2}
  Administrators = {a1}
  NamedAlike = {p1}
  MaxLifecycleEvents = 3
  PluginCount = 3
  PluginServices = {s1}
  Backends = {i1, i2}
  Pages = {b1}
  MaxSockets = 3
  MaxCrashes = 1
  MaxEffects = 1
  MaxSignals = 1
  Components = {"proxy", "keys", "plugins", "startup", "signals"}
INVARIANTS SubscriptionsReplayed TokensVerify RemovalsStick RunningPluginsHaveRules DependenciesFirst
           SignalsHeardOnce
PROPERTIES StopSettlesOperations
CHECK_DEADLOCK FALSE
