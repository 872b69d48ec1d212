\* As many slots as one root budget: remark takes two Steps.
SPECIFICATION Spec
CONSTANTS
  MaxHandle = 3
  MaxWidth = 1
  Width <- Trio
  Chunks <- TrioPieces
  NumSlots = 1
  RootBudget = 1
  EpochMask = 1
INVARIANTS LiveIsKept
