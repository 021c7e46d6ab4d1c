SPECIFICATION Spec
CONSTANTS
  TotalHosts = 2
  ConfigProbes = 2
  ConfigSendBatch = 2
  ConfigRecvBatch = 2
  Timeout = 0
  LocalReserved = {}
  Refused = {}
  RecvErrors = FALSE
  MaxRuns = 1
  SndCap = 1
  RcvCap = 2
  ReplyKinds = {"echo"}
  MaxDups = 1
  MaxSetBacks = 0
  KernelStamps = TRUE
  MaxAge = 1
INVARIANTS
  InTimeReplyReported
