SPECIFICATION FairSpec
CONSTANTS
  Drawer = d
  Watchers = {p1, p2}
INVARIANTS QuietWhenStopped
PROPERTIES RequestsReachDrawer
