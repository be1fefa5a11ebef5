SPECIFICATION MaintenanceSpec
CONSTANTS
  Windows = {w1}
  Planners = {k1}
  Workers = {i1, i2}
  Horizon = 1
  MaxEvents = 2

PROPERTIES NotReopened StartToldOnce WindowsEnd
CHECK_DEADLOCK FALSE
