SPECIFICATION Spec
CONSTANTS
  TotalHosts = 4
  ConfigProbes = 3
  ConfigBatch = 2
  Timeout = 1
  LocalReserved = {}
  FdLimit = 2
  MaxSetBacks = 0
  MaxAge = 2
PROPERTIES
  OpenInTimeKept
