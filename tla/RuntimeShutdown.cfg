\* Two plugins, a direct and a managed instance, a client, a plugin load and the
\* shutdown, under fair scheduling.
CONSTANTS
  p1 = p1
  p2 = p2
  t1 = t1
  d1 = d1
  m1 = m1
  Shutdown = Shutdown
  Nobody = Nobody
  Plugins = {p1, p2}
  Order <- Two
  Clients = {t1}
  Direct = {d1}
  Managed = {m1}
  Owner <- OwnedByLast
SPECIFICATION FairSpec
INVARIANTS NoCallAfterTeardown LeaseOutlivesStop ClosedIsQuiet HooksAreDelivered
PROPERTIES ShutdownCompletes
CHECK_DEADLOCK FALSE
