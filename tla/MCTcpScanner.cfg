SPECIFICATION FairSpec
CONSTANTS
  TotalHosts = 5
  ConfigProbes = 3
  ConfigBatch = 2
  Timeout = 1
  LocalReserved = {0}
  FdLimit = 2
  MaxSetBacks = 1
  MaxAge = 2
INVARIANTS
  TypeOK
  ActiveCount
  SocketsOwned
  EventsCurrent
  HostInOnePlace
PROPERTIES
  UntriedOnlyAtLimit
  ImplementsHostScan
  Termination
