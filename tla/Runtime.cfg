SPECIFICATION RuntimeSpec
CONSTANTS
  Parts = {"modules", "loops", "profile", "trace", "roots", "files"}
  Files = {"a", "b", "c", "p"}
  Plain = {"p"}
  Vars = {"x", "y", "w", "system"}
  SystemVar = "system"
  Requires <- MCRequires
  Defines <- MCDefines
  Writes <- MCWrites
  MaxFrames = 3
  XCOUNT_PROFILE_FLAG = 8
  MAX_LOOP_COUNT = 3
  ReserveShare = 3
  ReserveBase = 1
  Costs = {0, 2}
  MaxCalls = 3
  Profiling = TRUE
  Interrupts = TRUE
  Unlimited = TRUE
  Profiles = {p1, p2, p3}
  MaxCollections = 3
  MaxSignals = 2
  NULL = null
  FileObjects = {"f", "g"}
  MAX_MUDLLE_OPEN_FILES = 1
  CloseFails = {FALSE}
  BUFSIZE = 1
  MAXSIZE = 3
  MAX_STRING_SIZE = 1
  MaxDisk = 2
  NONE = none
  Frames <- MCFrames
  Ports = {"o1", "o2"}
  Errs <- MCErrs
  BEFORE_SKIP_FRAMES = 1
  AFTER_SKIP_FRAMES = 2
  MaxDepth = 3
  MaxCatches = 2
  CVars = {"v", "s"}
  roots <- MCRoots
  Nodes = {"d", "e"}
  Maybe = {"e"}
  HEAD = "head"
  UNLINKED = "none"
  FREE_SIZES = 2
  Sizes = {1, 2}
  Capacity = 11
  MaxRunning = 2
  MaxProtected = 2
CONSTRAINT Small
INVARIANTS OwnerActive DefineOwned StackOrder SignalsCounted LoopsLimited ReportedOnce RootsSound FilesSound
PROPERTIES ConstantsKept
CHECK_DEADLOCK FALSE
