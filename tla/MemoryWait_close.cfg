\* Bounded wakes, and closing the instance and the memory under parked waits.
CONSTANTS
  w1 = w1
  w2 = w2
  n1 = n1
  n2 = n2
  o1 = o1
  o2 = o2
  v1 = v1
  v2 = v2
  Nobody = Nobody
  Waiters = {w1, w2}
  Hosted = {w1}
  Notifiers = {n1}
  Offsets = {o1}
  Values = {v1}
  Counts = {0, 1}
SPECIFICATION FairSpec
INVARIANTS WakeIsReported
PROPERTIES WaitReturns
CHECK_DEADLOCK FALSE
