SPECIFICATION Spec
CONSTANTS
  InitialBlocksize = 128
  Requests = {16, 48, 96}
  CollectArgs = {0, 64}
  SaveSizes = {64}
  MeasureSizes = {}
  Grain = 16
  HasMcode = FALSE
  Memory = 420
INVARIANTS RequestSatisfied ToSpaceFits HeapAligned
  SpillOnlyOnce
PROPERTIES GrowthLeavesRoom
CHECK_DEADLOCK FALSE
