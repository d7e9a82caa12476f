SPECIFICATION Spec
CONSTANTS
  C = C
  S = S
  c1 = c1
  s1 = s1
  s2 = s2
  NULL = NULL
  Procs <- MCProcs
  Threads <- MCThreads
  ProcOf <- MCProcOf
  MaxTxns = 2
  MaxTodo = 1
  MaxAsync = 1
  MaxCalls = 3
  AsyncNodes = {S}
SYMMETRY ThreadSymmetry
INVARIANTS
  StacksAgree
  AnsweredOnce
  CallPending
  NoWaitCycle
  AsyncOneAtATime
  NoLostWakeup
CHECK_DEADLOCK FALSE
