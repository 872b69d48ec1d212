\* Two objects, a slot that one root budget covers, two epochs.
SPECIFICATION FairSpec
CONSTANTS
  MaxHandle = 2
  MaxWidth = 2
  Width <- Pair
  Chunks <- PairPieces
  NumSlots = 1
  RootBudget = 2
  EpochMask = 1
INVARIANTS LiveIsKept NoBlackToWhite ColorsAreExact SweepNeverFails
PROPERTIES ImplementsHeap GarbageIsReclaimed
