SPECIFICATION FairSpec
CONSTANTS
  Checks = {"c1", "c2"}
  Thresholds <- Unequal
  maxWindowSize = 1
  Executions = {e1, e2}
  MaxMishaps = 1
  None = None
INVARIANTS ToldCurrent ClientsClosed
PROPERTIES ExecutionsEnd
