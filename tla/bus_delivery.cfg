SPECIFICATION BusFairSpec
CONSTANTS
  l1 = l1
  l2 = l2
  l3 = l3
  g1 = g1
  g2 = g2
  g3 = g3
  Listeners = {l1, l2, l3}
  WorkQueue = {l1, l2}
  GroupOf <- SharedGroup
  Groups = {g1, g3}
  MaxRetries = 1
  Events = {e1}
  Undefined = Undefined
CHECK_DEADLOCK FALSE
PROPERTIES HandledOncePerGroup ListenersReached
