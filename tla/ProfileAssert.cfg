CONSTANTS
  Profiles = {p1, p2, p3}
  MaxCollections = 3
  MaxSignals = 2
SYMMETRY Symmetry
SPECIFICATION ProfileSpec
INVARIANT AssertHolds
CHECK_DEADLOCK FALSE
