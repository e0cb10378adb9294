SPECIFICATION Spec
CONSTANTS
  a = a
  b = b
  c = c
  p = p
  x = x
  y = y
  w = w
  system = system
  Files = {a, b, c, p}
  Plain = {p}
  Vars = {x, y, w, system}
  SystemVar = system
  Requires <- MCRequires
  Defines <- MCDefines
  Writes <- MCWrites
  NULL = NULL
  MaxFrames = 3
INVARIANT RefusalExplained
CHECK_DEADLOCK FALSE
