\* A payload started from its own directory while that is pruned.
SPECIFICATION Spec
CONSTANTS
  u1 = u1
  u2 = u2
  l1 = l1
  Nobody = Nobody
  Updaters <- MCUpdaters
  Launchers <- MCLaunchers
  MaxReleases = 3
  MaxUninstalls = 0
SYMMETRY Symmetry
CONSTRAINT RemovalBound
INVARIANTS
  DirectIsPinned
