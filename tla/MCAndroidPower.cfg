SPECIFICATION FairSpec
CONSTANTS
  Locks <- MCLocks
  SuspendLocks <- MCLocks
  main_wake_lock = main
  unknown_wakeup = unknown
  MainLockC = main
  UnknownC = unknown
  LockD = d
  H1 = h1
  Timeouts <- MCTimeouts
  HalfSecond = 1
  LongMax = 1
  MaxTimerLag = 0
  Handlers <- MCHandlers
  Level <- MCLevel
  SuspendHook <- MCHandlers
  ResumeHook <- MCHandlers
  SleepStates <- MCSleepStates
  NoHandler = NoHandler
INVARIANTS AsleepOnlyWhenWanted UndoneInOrder
PROPERTIES ImplementsWakeLock ImplementsEarlySuspend ImplementsPmSuspend SleepHonoured WakeupHonoured
