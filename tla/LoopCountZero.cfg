CONSTANTS
  XCOUNT_PROFILE_FLAG = 16
  MAX_LOOP_COUNT = 6
  ReserveShare = 3
  ReserveBase = 1
  Costs = {}
  MaxCalls = 3
  Profiling = FALSE
  Interrupts = FALSE
  Unlimited = FALSE
SPECIFICATION LoopSpec
INVARIANT NeverRunsOut
