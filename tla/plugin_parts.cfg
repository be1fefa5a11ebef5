SPECIFICATION PartsSpec
CONSTANTS
  Resources = {res1}
  Teams = {t1, t2}
  Members = {m1}
  Connections = {c1, c2}
  Stores = {i1, i2}
  Integrators = {a1, a2}
  Users = {u1}
  Channels = {ch1}
  Clients = {b1, b2}
  Senders = {d1}
  Collectors = {c1}
  Measures = {2, 9}
  Successes = {9}
  MaxRuns = 4
  MaxAtOnce = 2
  LastHour = 1
  Components = {"teams", "connections", "channels", "figures"}
INVARIANTS GrantedWasDue ConnectionsWhole ChannelSilent FiguresMatchRuns
CHECK_DEADLOCK FALSE
