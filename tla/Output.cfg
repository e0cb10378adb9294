SPECIFICATION OutputSpec
CONSTANTS
  Parts = {"ports", "print", "buffer"}
  p1 = p1
  p2 = p2
  STDOUT = STDOUT
  Stdout = p1
  PortSeq <- MCPortSeq
  Texts <- MCTexts
  Kinds <- MCKinds
  STRING_BLOCK_SIZE = 2
  MaxText = 3
  MaxDepth = 1
  STRBUF_SMALL_SIZE = 3
  MinStep = 4
  MaxLen = 9
  Added <- MCAdded
CONSTRAINT NoSelf
CHECK_DEADLOCK FALSE
INVARIANTS Whole PrintedKept BufferKept
