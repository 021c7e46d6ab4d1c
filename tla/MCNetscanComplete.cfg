SPECIFICATION Spec
CONSTANTS
  Bits = 3
  InterfaceLists <- TwoInterfaces
  ConfigProbes = 2
  SendErrors = {}
  SystemErrors = FALSE
INVARIANTS
  CompleteIsComplete
