SPECIFICATION Spec
CONSTANTS
  Bits = 3
  InterfaceLists <- Machines
  ConfigProbes = 2
  SendErrors = {1, 4}
  SystemErrors = TRUE
INVARIANTS
  OnlyBlockAsked
  MissedExplained
