SPECIFICATION Spec
CONSTANTS
  Handles <- Pair
  MaxWidth = 2
  Width <- Shape
  NumSlots = 1
  NumCards = 3
  CardOf <- Apart
INVARIANTS
  NothingDangles
  RememberedIsComplete
PROPERTIES
  ImplementsHeap
