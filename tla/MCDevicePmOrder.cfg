SPECIFICATION Spec
CONSTANTS
  bus = bus
  dev = dev
  child = child
  other = other
  NULL = NULL
  Devices <- MCDevices
  Parent <- MCParent
  MaxAdds = 2
  LateChildren = TRUE
INVARIANTS DepthFirst
