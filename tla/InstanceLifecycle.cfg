\* Two invokers, a closer, a waiter and a holder of roots, every kind of instance,
\* under fair scheduling.
CONSTANTS
  i1 = i1
  i2 = i2
  c1 = c1
  w1 = w1
  h1 = h1
  Builder = Builder
  Worker = Worker
  Invokers = {i1, i2}
  Closers = {c1}
  Waiters = {w1}
  Holders = {h1}
  Config <- Everything
SPECIFICATION FairSpec
INVARIANTS ReleaseIsQuiet OnceOnly HooksInOrder NoOwnerLeftBehind
PROPERTIES CloseReleases TerminalWaitReturns CollectionHappens
CHECK_DEADLOCK FALSE
