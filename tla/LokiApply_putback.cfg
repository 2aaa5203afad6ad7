CONSTANTS
  Days = {1}
  Cutovers = {4}
  Keys = {1}
  Savers = {r1}
  Lead = 1
  LastDay = 5
  MaxSaves = 1
  MaxStops = 2
  MaxMishaps = 1
  LokiFaults = {"ready"}
SPECIFICATION LokiSpec
PROPERTIES LivePeriodsStay
CHECK_DEADLOCK FALSE
