SPECIFICATION ThreadSpec
CONSTANTS
  TotalHosts = 2
  ConfigProbes = 2
  ConfigSendBatch = 2
  ConfigRecvBatch = 1
  Timeout = 0
  LocalReserved = {}
  Refused = {}
  RecvErrors = FALSE
  MaxRuns = 1
  SndCap = 1
  RcvCap = 2
  ReplyKinds = {"echo"}
  MaxDups = 1
  MaxSetBacks = 1
  KernelStamps = TRUE
  MaxAge = 1
PROPERTIES
  ReplyRead
  Termination
