SPECIFICATION Spec
CONSTANTS
  Bits = 3
  InterfaceLists <- Machines
INVARIANTS
  RangeIsBlock
  LocalIsOverlap
  SkippedAreEnds
