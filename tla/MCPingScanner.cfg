SPECIFICATION Spec
CONSTANTS
  TotalHosts = 3
  ConfigProbes = 2
  ConfigSendBatch = 2
  ConfigRecvBatch = 1
  Timeout = 0
  LocalReserved = {}
  Refused = {}
  RecvErrors = TRUE
  MaxRuns = 1
  SndCap = 1
  RcvCap = 2
  ReplyKinds = {"echo"}
  MaxDups = 1
  MaxSetBacks = 1
  KernelStamps = TRUE
  MaxAge = 2
INVARIANTS
  SlotTable
  ActiveCount
  SentOrBatched
  ResultWasProbed
  ProbeAccounting
  NoLostWakeup
PROPERTIES
  SlotReuse
