SPECIFICATION FairSpec
CONSTANTS
  Locks <- MCLocks
  SuspendLocks <- MCSuspendLocks
  main_wake_lock = main
  unknown_wakeup = unknown
  MainLockC = main
  UnknownC = unknown
  LockA = a
  LockB = b
  LockI = i
  Timeouts <- MCTimeouts
  HalfSecond = 1
  LongMax = 3
  MaxTimerLag = 1
INVARIANTS TypeOK TimerCovers NotStranded PreventingIsExact
PROPERTIES EventuallySuspends
