CONSTANTS
  error_loop = error_loop
  error_none = error_none
  Errors = {error_loop, error_abort}
  Jmpbufs = {b1, b2}
  mudout_port = p0
  Ports = {p0, p1, p2}
  NoHandler = null
  MaxFrames = 4
SPECIFICATION FairSpec
INVARIANTS ContextPreserved ThrowIsCaught LongjmpReturns
PROPERTIES ThrowEnds
CHECK_DEADLOCK FALSE
