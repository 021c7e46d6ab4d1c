SPECIFICATION Spec
CONSTANTS
  Bits = 3
  InterfaceLists <- PointInterface
INVARIANTS
  SkippedIsNoHost
