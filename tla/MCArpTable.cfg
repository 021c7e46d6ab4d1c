SPECIFICATION FairSpec
CONSTANTS
  mac1 = mac1
  mac2 = mac2
  ZeroMac = ZeroMac
  ShortMac = ShortMac
  Macs <- TwoMacs
  Groups <- Multicast
  Tables <- SmallTables
  Arrivals <- Newcomers
  MaxChanges = 2
  KernelFaults = TRUE
INVARIANTS
  SocketOwned
  EntriesWereCached
  QuietDumpExact
  TornDumpBounded
PROPERTIES
  Returns
