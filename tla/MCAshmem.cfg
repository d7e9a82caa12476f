SPECIFICATION Spec
CONSTANTS
  Areas <- MCAreas
  A1 = a1
  A2 = a2
  Threads = {t1, t2}
  MaxSize = 3
  Sizes <- MCSizes
  MaxRanges = 1
  MaxWaiting = 1
  Scans = {2}
  DirectReclaim = FALSE
  Free = Free
  NoArea = NoArea
INVARIANTS ListInOrder LruExact PinStatusExact
PROPERTIES ImplementsPages
SYMMETRY ThreadSymmetry
