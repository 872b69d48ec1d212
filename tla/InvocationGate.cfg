\* A caller with a context, a caller that also uses prepared entry and may publish
\* from a host callback, a direct entry and a publisher, under fair scheduling.
CONSTANTS
  a = a
  b = b
  c = c
  d = d
  NoThread = NoThread
  Threads = {a, b, c, d}
  Lockers = {b}
  CtxLockers = {a}
  Directs = {c}
  Preparers = {b}
  Revokers = {b, d}
SPECIFICATION FairSpec
INVARIANTS MutualExclusion QueueHasReleaser PublicationIsQuiet
PROPERTIES ImplementsContract GateProgress RevocationReturns
