SPECIFICATION FairSpec
CONSTANTS
  Handlers <- MCHandlers
  Level <- MCLevel
  SuspendHook <- MCHandlers
  ResumeHook <- MCResumeHook
  SleepStates <- MCSleepStates
  NoHandler = NoHandler
  H1 = h1
  H2 = h2
  H3 = h3
INVARIANTS TypeOK AsleepMeansSuspended HooksAlternate LevelOrder
PROPERTIES RequestsHonoured
