SPECIFICATION FairSpec
CONSTANTS
  bus = bus
  dev = dev
  child = child
  other = other
  NULL = NULL
  Devices <- MCDevices
  Parent <- MCParent
  MaxAdds = 4
  LateChildren = FALSE
INVARIANTS NoDeviceLost DepthFirst BackOn
PROPERTIES ImplementsSleep TransitionEnds
