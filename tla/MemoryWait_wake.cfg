\* Two waiters on two offsets, a guest that stores and wakes everyone.
CONSTANTS
  w1 = w1
  w2 = w2
  n1 = n1
  n2 = n2
  o1 = o1
  o2 = o2
  v1 = v1
  v2 = v2
  Nobody = Nobody
  Waiters = {w1, w2}
  Hosted = {}
  Notifiers = {n1}
  Offsets = {o1, o2}
  Values = {v1, v2}
  Counts = {2}
SPECIFICATION Spec
INVARIANTS PendingIsExact NoLostWakeup
CHECK_DEADLOCK FALSE
