SPECIFICATION Spec
CONSTANTS
  TotalHosts = 2
  ConfigProbes = 2
  ConfigSendBatch = 1
  ConfigRecvBatch = 1
  Timeout = 0
  LocalReserved = {}
  Refused = {}
  RecvErrors = FALSE
  MaxRuns = 2
  SndCap = 1
  RcvCap = 1
  ReplyKinds = {"echo"}
  MaxDups = 0
  MaxSetBacks = 0
  KernelStamps = TRUE
  MaxAge = 1
INVARIANTS
  TypeOK
  SweepComplete
  ActiveCount
