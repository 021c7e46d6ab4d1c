SPECIFICATION Spec
CONSTANTS
  TotalHosts = 4
  ConfigProbes = 2
  ConfigSendBatch = 1
  ConfigRecvBatch = 1
  Timeout = 0
  LocalReserved = {0}
  Refused = {3}
  RecvErrors = TRUE
  MaxRuns = 1
  SndCap = 1
  RcvCap = 1
  ReplyKinds = {"echo", "foreign", "short", "other", "runt"}
  MaxDups = 2
  MaxSetBacks = 0
  KernelStamps = FALSE
  MaxAge = 1
INVARIANTS
  UniqueHosts
  ReplyAccounting
  OverflowsAreReal
PROPERTIES
  ImplementsHostScan
