SPECIFICATION FilesSpec
CONSTANTS
  FileObjects = {a, b}
  MAX_MUDLLE_OPEN_FILES = 1
  CloseFails = {TRUE, FALSE}
  BUFSIZE = 1
  MAXSIZE = 3
  MAX_STRING_SIZE = 1
  MaxDisk = 2
INVARIANTS NeverAborts
