SPECIFICATION Spec
CONSTANTS
  Families = {"cond", "exit", "for", "closure", "args", "match", "modify", "library"}
  UINT8_MAX = 20
  INT8_MAX = 6
  INT16_MAX = 40
  MAX_LOCAL_VARS = 20
  STACK_SIZE = 2
  UserGlobals = {"g", "h", "w"}
  Programs <- MCPrograms
  Body <- MCBody
  File <- MCFile
INVARIANTS WithinBounds ResultForArgs CompileCorrect
PROPERTIES Terminates
